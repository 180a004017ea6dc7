----------------------------- MODULE JvmTracer -----------------------------
(***************************************************************************)
(* The Java agent: Tracer.java, FlowTimeline.java, Span.java and the       *)
(* request part of TracerContext.java.  MethodTransformer weaves a call of *)
(* Tracer.enter into the beginning of every instrumented method, and one   *)
(* of Tracer.exit before every return and every throw instruction of its   *)
(* body; an exception that a callee throws and the method does not catch   *)
(* leaves it without any call.  All state of the tracer is thread-local,   *)
(* except the request numbers and the file that records are appended to.   *)
(***************************************************************************)
EXTENDS Integers, Sequences, SequencesExt

CONSTANTS
  Threads,
  Methods,     \* instrumented methods: [stage, name]
  Roots,       \* the methods that a thread may enter from outside
  MayCall,     \* pairs of a method and one that it calls
  Throwing,    \* the methods that exceptions of their callees may leave
  Catching,    \* the methods that may catch what they throw themselves
  NoRequest,   \* no request captured, none being written
  MaxTicks     \* bound: instrumented calls and returns

ASSUME JvmAssumption ==
  /\ Roots \subseteq Methods /\ Throwing \subseteq Methods
  /\ Catching \subseteq Methods
  /\ MayCall \subseteq Methods \X Methods
  /\ MaxTicks \in Nat

(* The methods that a request may run, and those that a background job may *)
(* run.  A request begins and ends in Tomcat's valve, which is called from *)
(* outside only and catches what its callees throw; a job does not get to  *)
(* Spring's dispatcher; and what a method of a request throws leaves it.   *)
Roles(serving, background) ==
  /\ \A m \in Roots : m \in IF m.stage = "TOMCAT" THEN serving ELSE background
  /\ \A call \in MayCall : /\ call[2].stage # "TOMCAT"
                           /\ call[1] \in serving => call[2] \in serving
                           /\ call[1] \in background => call[2] \in background
  /\ \A m \in background : m.stage \notin {"TOMCAT", "SPRING_MVC"}
  /\ \A m \in Throwing : m.stage # "TOMCAT"
  /\ serving \cap Catching = {}

ASSUME ServerAssumption ==
  \E serving, background \in SUBSET Methods : Roles(serving, background)

VARIABLES
  calls,        \* the running instrumented methods of a thread, outermost first
  timeline,     \* Tracer.TL
  request_seq,  \* Tracer.REQUEST_SEQ
  context,      \* TracerContext: the request captured on a thread
  dumping,      \* the record that a thread is about to write
  merged,       \* output/merged_requests.jsonl, line by line
  now,          \* System.nanoTime, and the identity of a call
  completed     \* history: the calls that have ended

jvmVars == <<calls, timeline, request_seq, context, dumping, merged, now, completed>>

(* What a span and a record of the output consist of. *)
Span == [method : Methods, depth : Nat, start : Nat, end : Nat, threw : BOOLEAN]
Written == [thread : Threads, id : Nat, spans : Seq(Span), total : Int,
            context : Nat \cup {NoRequest}]

ASSUME NoRequestAssumption == NoRequest \notin Nat /\ NoRequest \notin Written

(* A span, and what finish() makes of it. *)
NewSpan(m, depth) == [method |-> m, depth |-> depth, start |-> now, end |-> 0, threw |-> FALSE]
Finished(span, threw) == [span EXCEPT !.end = now, !.threw = threw]

(* FlowTimeline after reset(); the top of the stack is its last element. *)
IdleTimeline == [active |-> FALSE, id |-> 0, start |-> 0, end |-> 0,
                 stack |-> <<>>, spans |-> <<>>]

Started(id) == [IdleTimeline EXCEPT !.active = TRUE, !.id = id, !.start = now]

JvmInit ==
  /\ calls = [t \in Threads |-> <<>>]
  /\ timeline = [t \in Threads |-> IdleTimeline]
  /\ request_seq = 1
  /\ context = [t \in Threads |-> NoRequest]
  /\ dumping = [t \in Threads |-> NoRequest]
  /\ merged = <<>>
  /\ now = 0
  /\ completed = {}

-----------------------------------------------------------------------------
(* The threads of the server: what they call, and how a call ends.         *)

Working(t) == dumping[t] = NoRequest /\ now < MaxTicks

(* A call from outside serves a request of its own. *)
CallOf(t, m) ==
  [method |-> m, start |-> now,
   request |-> IF calls[t] = <<>> THEN now ELSE Last(calls[t]).request]

Callable(t, m) == IF calls[t] = <<>> THEN m \in Roots
                  ELSE <<Last(calls[t]).method, m>> \in MayCall

CallEnds(t, unwound) ==
  /\ calls' = [calls EXCEPT ![t] = Front(@)]
  /\ completed' = completed \cup {[thread |-> t, call |-> Last(calls[t]), end |-> now,
                                   unwound |-> unwound]}

-----------------------------------------------------------------------------
(* The tracer.                                                             *)

(* Mutant: any instrumented method opens a request. *)
StartsAlways(m) == m \in Methods

StartsRequest(m) == m.stage \in {"TOMCAT", "SPRING_MVC"}

(* enterInternal *)
Entered(t, m) ==
  LET tl == IF ~ timeline[t].active /\ StartsRequest(m)
            THEN Started(request_seq) ELSE timeline[t]
  IN  IF ~ tl.active THEN tl
      ELSE [tl EXCEPT !.stack = Append(@, NewSpan(m, Len(@)))]

(* TracerContext: the request line and headers of the thread's request.    *)
Captures(m) == m.stage = "SPRING_MVC" /\ m.name = "doDispatch"
captureRequest(t, request) == [context EXCEPT ![t] = request]
clear(t) == [context EXCEPT ![t] = NoRequest]

(* enter, and captureRequest at the beginning of doDispatch. *)
enter(t, m) ==
  /\ Working(t)
  /\ Callable(t, m)
  /\ now' = now + 1
  /\ calls' = [calls EXCEPT ![t] = Append(@, CallOf(t, m))]
  /\ timeline' = [timeline EXCEPT ![t] = Entered(t, m)]
  /\ request_seq' = IF ~ timeline[t].active /\ StartsRequest(m)
                    THEN request_seq + 1 ELSE request_seq
  /\ context' = IF Captures(m) THEN captureRequest(t, CallOf(t, m).request) ELSE context
  /\ UNCHANGED <<dumping, merged, completed>>

(* Mutants: the oldest span is popped; the popped span is not closed.      *)
PoppedOldest(tl, threw) ==
  [tl EXCEPT !.stack = Tail(@),
             !.spans = Append(@, Finished(Head(tl.stack), threw))]

PoppedOpen(tl, threw) ==
  [tl EXCEPT !.stack = Front(@), !.spans = Append(@, Last(tl.stack))]

(* pop() returns the span on top, whether or not it is of the method that  *)
(* exits, and finish() closes it.                                          *)
Popped(tl, threw) ==
  [tl EXCEPT !.stack = Front(@),
             !.spans = Append(@, Finished(Last(tl.stack), threw))]

(* What dump() writes of a timeline that is finished now. *)
Record(t, tl) == [thread |-> t, id |-> tl.id, spans |-> tl.spans,
                  total |-> now - tl.start, context |-> context[t]]

(* Mutant: pop() refuses a span of another method. *)
ClosesOwn(t) == /\ timeline[t].active /\ timeline[t].stack # <<>>
                /\ Last(timeline[t].stack).method = Last(calls[t]).method

(* Whether exit finds a span to close. *)
Closes(t) == timeline[t].active /\ timeline[t].stack # <<>>

(* exit; the exit of Tomcat's method also ends the request and dumps it.   *)
exit(t, threw) ==
  LET tl   == timeline[t]
      done == Popped(tl, threw)
      open == Closes(t)
      last == Last(calls[t]).method.stage = "TOMCAT"
  IN  /\ \/ /\ ~ open
            /\ UNCHANGED <<timeline, dumping>>
         \/ /\ open /\ ~ last
            /\ timeline' = [timeline EXCEPT ![t] = done]
            /\ UNCHANGED dumping
         \/ /\ open /\ last
            /\ timeline' = [timeline EXCEPT ![t] =
                              [done EXCEPT !.active = FALSE, !.end = now]]
            /\ dumping' = [dumping EXCEPT ![t] = Record(t, done)]
      /\ now' = now + 1
      /\ UNCHANGED <<request_seq, context, merged>>

(* The method returns, or throws an exception that it does not catch.      *)
Leave(t, threw) ==
  /\ Working(t) /\ calls[t] # <<>>
  /\ exit(t, threw)
  /\ CallEnds(t, FALSE)

(* It catches the exception: exit has been called, and the method goes on. *)
ThrowAndCatch(t) ==
  /\ Working(t) /\ calls[t] # <<>>
  /\ Last(calls[t]).method \in Catching
  /\ exit(t, TRUE)
  /\ UNCHANGED <<calls, completed>>

(* An exception leaves the method: no instrumented instruction is reached. *)
Unwind(t) ==
  /\ Working(t)
  /\ calls[t] # <<>>
  /\ Last(calls[t]).method \in Throwing
  /\ now' = now + 1
  /\ CallEnds(t, TRUE)
  /\ UNCHANGED <<timeline, request_seq, context, dumping, merged>>

(* writeMergedRequest appends one line; exit goes on with reset() and      *)
(* TracerContext.clear().                                                  *)
writeMergedRequest(t) ==
  /\ dumping[t] # NoRequest
  /\ merged' = Append(merged, dumping[t])
  /\ dumping' = [dumping EXCEPT ![t] = NoRequest]
  /\ timeline' = [timeline EXCEPT ![t] = IdleTimeline]
  /\ context' = clear(t)
  /\ UNCHANGED <<calls, request_seq, now, completed>>

JvmNext ==
  \E t \in Threads :
    \/ \E m \in Methods : enter(t, m)
    \/ \E threw \in BOOLEAN : Leave(t, threw)
    \/ ThrowAndCatch(t)
    \/ Unwind(t)
    \/ writeMergedRequest(t)

JvmSpec == JvmInit /\ [][JvmNext]_jvmVars

-----------------------------------------------------------------------------
(* Properties.                                                             *)

Records == {merged[k] : k \in 1 .. Len(merged)}

(* The request of a call that began at a time, and whether an exception    *)
(* has left one of the request's methods without a call of exit.           *)
RequestOfCall(start) == (CHOOSE c \in completed : c.call.start = start).call.request
CallsOf(request) == {c \in completed : c.call.request = request}
Disturbed(request) == \E c \in CallsOf(request) : c.unwound

(* Until an exception leaves a method of the request, the tracer's stack   *)
(* is the thread's: pop(), which never looks at what it pops, closes the   *)
(* span of the method that exits, with its depth and its start.            *)
StackMirrorsCalls ==
  \A t \in Threads :
    timeline[t].active =>
      \/ calls[t] # <<>> /\ Disturbed(Head(calls[t]).request)
      \/ /\ Len(timeline[t].stack) = Len(calls[t])
         /\ \A k \in 1 .. Len(calls[t]) :
              LET span == timeline[t].stack[k]
              IN  /\ span.method = calls[t][k].method
                  /\ span.start = calls[t][k].start
                  /\ span.depth = k - 1

(* The record of an undisturbed request is the request whose Tomcat call   *)
(* closes it: one span for every instrumented call of the request, with    *)
(* the times of that call, in the order in which the calls returned, and   *)
(* the request line that was captured from it.  No number is given twice.  *)
RecordsAreRequests ==
  /\ \A r \in Records :
       LET request == RequestOfCall(r.spans[1].start)
       IN  ~ Disturbed(request) =>
             /\ Last(r.spans).method.stage = "TOMCAT" /\ Last(r.spans).start = request
             /\ {[method |-> r.spans[k].method, start |-> r.spans[k].start,
                  end |-> r.spans[k].end] : k \in 1 .. Len(r.spans)}
                = {[method |-> c.call.method, start |-> c.call.start,
                    end |-> c.end] : c \in CallsOf(request)}
             /\ \A k \in 2 .. Len(r.spans) : r.spans[k - 1].end < r.spans[k].end
             /\ \A c \in CallsOf(request) : c.thread = r.thread /\ c.end - request <= r.total
             /\ r.context = IF \E c \in CallsOf(request) : Captures(c.call.method)
                            THEN request ELSE NoRequest
  /\ \A r, q \in Records : r.id = q.id => r = q

(* One record never holds spans, or the request line, of two requests,     *)
(* also when exceptions left spans behind on the stack: reset() and        *)
(* clear() drop them before the thread serves its next request.            *)
RequestsNeverMix ==
  \A r \in Records : \A j, k \in 1 .. Len(r.spans) :
    LET request == RequestOfCall(r.spans[j].start)
    IN  /\ RequestOfCall(r.spans[k].start) = request
        /\ r.context \in {NoRequest, request}

(* Every request that has left Tomcat's method was dumped: there is one    *)
(* record for each, no more.                                               *)
EveryRequestRecorded ==
  \A t \in Threads : dumping[t] = NoRequest =>
    Cardinality({r \in Records : r.thread = t}) =
      Cardinality({c \in completed : c.thread = t /\ c.call.method.stage = "TOMCAT"})
=============================================================================
