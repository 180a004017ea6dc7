-------------------------- MODULE JvmTracer_proofs --------------------------
(***************************************************************************)
(* The Java agent keeps the requests of a server apart and writes each of  *)
(* them down once and whole, for any number of threads, methods and calls: *)
(* what FlowTimeline's stack holds is related to the calls of its thread.  *)
(***************************************************************************)
EXTENDS JvmTracer, SequenceTheorems, FiniteSetTheorems, TLAPS

Call == [method : Methods, start : Nat, request : Nat]
Ended == [thread : Threads, call : Call, end : Nat, unwound : BOOLEAN]
Flow == [active : BOOLEAN, id : Nat, start : Nat, end : Nat,
         stack : Seq(Span), spans : Seq(Span)]

Typed ==
  /\ calls \in [Threads -> Seq(Call)]
  /\ timeline \in [Threads -> Flow]
  /\ request_seq \in Nat /\ now \in Nat
  /\ context \in [Threads -> Nat \cup {NoRequest}]
  /\ dumping \in [Threads -> Written \cup {NoRequest}]
  /\ merged \in Seq(Written)
  /\ completed \subseteq Ended

(* What the methods of this server are for.                                *)
Role == CHOOSE role \in (SUBSET Methods) \X (SUBSET Methods) : Roles(role[1], role[2])
Serving == Role[1]
Background == Role[2]

(* A thread in a request, which is known by when its first call began.     *)
InRequest(t) == calls[t] # <<>> /\ calls[t][1].method.stage = "TOMCAT"
Current(t) == calls[t][1].start

Depth(t) == 1 .. Len(calls[t])
-----------------------------------------------------------------------------
(* The calls of the server.                                                *)

(* A call is known by when it began.                                       *)
CallsAreDistinct ==
  /\ \A c \in completed : c.call.start < now /\ c.end < now /\ c.call.request <= c.call.start
  /\ \A c, d \in completed : c.call.start = d.call.start => c = d
  /\ \A t \in Threads : \A k \in Depth(t) :
       /\ calls[t][k].start < now
       /\ \A c \in completed : c.call.start # calls[t][k].start
  /\ \A t, u \in Threads : \A j \in Depth(t), k \in Depth(u) :
       calls[t][j].start = calls[u][k].start => t = u /\ j = k

(* The calls of a thread are of the request that the first of them began;  *)
(* Tomcat's method is the first one or none, and jobs stay in background.  *)
CallsAreNested ==
  \A t \in Threads : \A k \in Depth(t) :
    /\ calls[t][k].request = Current(t)
    /\ calls[t][k].start >= Current(t)
    /\ calls[t][k].method \in IF InRequest(t) THEN Serving ELSE Background
    /\ k > 1 => calls[t][k].method.stage # "TOMCAT"

OneThreadPerRequest ==
  \A t \in Threads : \A c \in completed :
    calls[t] # <<>> /\ c.call.request = Current(t) => c.thread = t

(* The timeline of a thread: it is active while the thread is in a request.*)
TimelineFollows(t) ==
  /\ timeline[t].active <=> InRequest(t)
  /\ dumping[t] # NoRequest => calls[t] = <<>>
  /\ InRequest(t) => /\ timeline[t].start = Current(t)
                     /\ Len(timeline[t].stack) >= Len(calls[t])

(* A span of the timeline is one of a call of the current request.         *)
CallOfRequest(t, start) ==
  \/ \E k \in Depth(t) : calls[t][k].start = start
  \/ \E c \in CallsOf(Current(t)) : c.call.start = start

SpansAreOwn(t) ==
  InRequest(t) =>
    /\ \A k \in 1 .. Len(timeline[t].stack) : CallOfRequest(t, timeline[t].stack[k].start)
    /\ \A k \in 1 .. Len(timeline[t].spans) : CallOfRequest(t, timeline[t].spans[k].start)

(* The request line is captured once Spring's dispatcher has been entered. *)
Captured(t) ==
  \/ \E k \in Depth(t) : Captures(calls[t][k].method)
  \/ \E c \in CallsOf(Current(t)) : Captures(c.call.method)

ContextIsOwn(t) ==
  /\ InRequest(t) => context[t] = IF Captured(t) THEN Current(t) ELSE NoRequest
  /\ ~ InRequest(t) /\ dumping[t] = NoRequest => context[t] = NoRequest

(* As long as no exception has disturbed the request, the stack is that of *)
(* the thread, and the finished spans are the finished calls.              *)
SpanTimes(spans) ==
  {[method |-> spans[k].method, start |-> spans[k].start, end |-> spans[k].end] :
     k \in 1 .. Len(spans)}
CallTimes(request) ==
  {[method |-> c.call.method, start |-> c.call.start, end |-> c.end] : c \in CallsOf(request)}

EndsIncrease(spans) == \A k \in 2 .. Len(spans) : spans[k - 1].end < spans[k].end

Mirrored(t) ==
  /\ Len(timeline[t].stack) = Len(calls[t])
  /\ \A k \in Depth(t) : LET span == timeline[t].stack[k]
                         IN  /\ span.method = calls[t][k].method
                             /\ span.start = calls[t][k].start
                             /\ span.depth = k - 1

TimelineMirrors(t) ==
  InRequest(t) /\ ~ Disturbed(Current(t)) =>
    /\ Mirrored(t)
    /\ SpanTimes(timeline[t].spans) = CallTimes(Current(t))
    /\ \A k \in 1 .. Len(timeline[t].spans) : timeline[t].spans[k].end < now
    /\ EndsIncrease(timeline[t].spans)

Flows(t) == TimelineFollows(t) /\ SpansAreOwn(t) /\ ContextIsOwn(t) /\ TimelineMirrors(t)

-----------------------------------------------------------------------------
(* The records.                                                            *)

(* What a record says of a request that is over.                           *)
Over(request) ==
  /\ request < now
  /\ \A t \in Threads : calls[t] # <<>> => Current(t) # request

OfOneRequest(r, request) ==
  /\ r.spans # <<>>
  /\ \A k \in 1 .. Len(r.spans) : \E c \in CallsOf(request) : c.call.start = r.spans[k].start
  /\ r.context = IF \E c \in CallsOf(request) : Captures(c.call.method)
                 THEN request ELSE NoRequest

Whole(r, request) ==
  /\ Last(r.spans).method.stage = "TOMCAT" /\ Last(r.spans).start = request
  /\ SpanTimes(r.spans) = CallTimes(request)
  /\ EndsIncrease(r.spans)
  /\ \A c \in CallsOf(request) : c.thread = r.thread /\ c.end - request <= r.total

Faithful(r) ==
  \E request \in Nat :
    /\ Over(request) /\ OfOneRequest(r, request)
    /\ ~ Disturbed(request) => Whole(r, request)

RecordsAreFaithful ==
  /\ \A r \in Records : Faithful(r)
  /\ \A t \in Threads : dumping[t] # NoRequest => Faithful(dumping[t]) /\ dumping[t].thread = t

(* The number of a request that is served or being written.                *)
Busy(t) == InRequest(t) \/ dumping[t] # NoRequest
Id(t) == IF dumping[t] # NoRequest THEN dumping[t].id ELSE timeline[t].id

IdsAreDistinct ==
  /\ \A k \in 1 .. Len(merged) : merged[k].id < request_seq
  /\ \A j, k \in 1 .. Len(merged) : merged[j].id = merged[k].id => j = k
  /\ \A t \in Threads : Busy(t) =>
       /\ Id(t) < request_seq
       /\ \A k \in 1 .. Len(merged) : merged[k].id # Id(t)
       /\ \A u \in Threads : Busy(u) /\ Id(u) = Id(t) => u = t

RecordsOf(t) == {r \in Records : r.thread = t}
RequestsOf(t) == {c \in completed : c.thread = t /\ c.call.method.stage = "TOMCAT"}

RecordsAreCounted ==
  \A t \in Threads :
    /\ IsFiniteSet(RecordsOf(t)) /\ IsFiniteSet(RequestsOf(t))
    /\ Cardinality(RequestsOf(t)) =
         Cardinality(RecordsOf(t)) + IF dumping[t] = NoRequest THEN 0 ELSE 1

CallInv == CallsAreDistinct /\ CallsAreNested /\ OneThreadPerRequest
FlowInv == \A t \in Threads : Flows(t)
RecordInv == RecordsAreFaithful /\ IdsAreDistinct /\ RecordsAreCounted

TracerInv == CallInv /\ FlowInv /\ RecordInv
-----------------------------------------------------------------------------
(* Sequences as stacks.                                                    *)

LEMMA Pushed ==
  ASSUME NEW S, NEW s \in Seq(S), NEW x \in S
  PROVE  /\ Append(s, x) \in Seq(S) /\ Append(s, x) # <<>>
         /\ Len(s) \in Nat /\ Len(Append(s, x)) = Len(s) + 1
         /\ Append(s, x)[Len(s) + 1] = x
         /\ \A k \in 1 .. Len(s) : Append(s, x)[k] = s[k]
BY AppendProperties, LenProperties, EmptySeq

LEMMA LastRemoved ==
  ASSUME NEW S, NEW s \in Seq(S), s # <<>>
  PROVE  /\ Front(s) \in Seq(S)
         /\ Len(s) \in Nat \ {0} /\ Len(Front(s)) = Len(s) - 1
         /\ Last(s) = s[Len(s)] /\ Last(s) \in S
         /\ \A k \in 1 .. Len(s) - 1 : Front(s)[k] = s[k]
<1>1. Len(s) \in Nat \ {0}
  BY EmptySeq, LenProperties
<1>2. Last(s) = s[Len(s)] /\ Last(s) \in S
  BY <1>1, ElementOfSeq DEF Last
<1>3. Front(s) = SubSeq(s, 1, Len(s) - 1)
  BY DEF Front
<1>4. \A k \in 1 .. Len(s) - 1 : s[k] \in S
  BY <1>1, ElementOfSeq
<1>5. /\ SubSeq(s, 1, Len(s) - 1) \in Seq(S)
      /\ Len(SubSeq(s, 1, Len(s) - 1)) = Len(s) - 1
      /\ \A k \in 1 .. Len(s) - 1 : SubSeq(s, 1, Len(s) - 1)[k] = s[k]
  <2>. DEFINE n == Len(s) - 1
  <2>1. n \in Int /\ n >= 0 /\ n - 1 + 1 = n /\ \A k \in 1 .. n : 1 + k - 1 = k
    BY <1>1
  <2>2. /\ SubSeq(s, 1, n) \in Seq(S)
        /\ Len(SubSeq(s, 1, n)) = IF 1 <= n THEN n - 1 + 1 ELSE 0
        /\ \A k \in 1 .. n - 1 + 1 : SubSeq(s, 1, n)[k] = s[1 + k - 1]
    <3>. HIDE DEF n
    <3>. QED  BY <1>4, <2>1, SubSeqProperties DEF n
  <2>. QED  BY <2>1, <2>2
<1>. QED
  BY <1>1, <1>2, <1>3, <1>5

LEMMA NotEmpty ==
  ASSUME NEW S, NEW s \in Seq(S)
  PROVE  /\ Len(s) \in Nat
         /\ s = <<>> <=> Len(s) = 0
         /\ \A k \in 1 .. Len(s) : s[k] \in S
BY EmptySeq, LenProperties, ElementOfSeq

LEMMA RolesHold ==
  Serving \subseteq Methods /\ Background \subseteq Methods /\ Roles(Serving, Background)
<1>1. PICK s \in SUBSET Methods, b \in SUBSET Methods : Roles(s, b)
  BY ServerAssumption
<1>2. <<s, b>> \in (SUBSET Methods) \X (SUBSET Methods) /\ Roles(<<s, b>>[1], <<s, b>>[2])
  BY <1>1
<1>3. \E role \in (SUBSET Methods) \X (SUBSET Methods) : Roles(role[1], role[2])
  BY <1>2
<1>4. Role \in (SUBSET Methods) \X (SUBSET Methods) /\ Roles(Role[1], Role[2])
  BY <1>3 DEF Role
<1>. QED
  BY <1>4 DEF Serving, Background

-----------------------------------------------------------------------------
(* What the steps do to the calls.                                         *)

(* The call that a thread has running innermost, as it ends now.           *)
Innermost(t) == calls[t][Len(calls[t])]
EndedNow(t, unwound) ==
  [thread |-> t, call |-> Innermost(t), end |-> now, unwound |-> unwound]

CallBegins(t, m) ==
  /\ now' = now + 1 /\ completed' = completed
  /\ calls' \in [Threads -> Seq(Call)]
  /\ \A u \in Threads : u # t => calls'[u] = calls[u]
  /\ calls'[t] # <<>> /\ Len(calls'[t]) = Len(calls[t]) + 1
  /\ \A k \in 1 .. Len(calls[t]) : calls'[t][k] = calls[t][k]
  /\ CallOf(t, m) \in Call /\ calls'[t][Len(calls[t]) + 1] = CallOf(t, m)
  /\ CallOf(t, m).method = m /\ CallOf(t, m).start = now
  /\ CallOf(t, m).request = IF calls[t] = <<>> THEN now ELSE Innermost(t).request
  /\ IF calls[t] = <<>> THEN m \in Roots ELSE <<Innermost(t).method, m>> \in MayCall

CallIsOver(t, unwound) ==
  /\ now' = now + 1 /\ completed' = completed \cup {EndedNow(t, unwound)}
  /\ EndedNow(t, unwound) \in Ended
  /\ calls' \in [Threads -> Seq(Call)]
  /\ \A u \in Threads : u # t => calls'[u] = calls[u]
  /\ calls[t] # <<>> /\ Len(calls'[t]) = Len(calls[t]) - 1
  /\ \A k \in 1 .. Len(calls[t]) - 1 : calls'[t][k] = calls[t][k]

LEMMA Types ==
  ASSUME Typed, NEW t \in Threads
  PROVE  /\ calls[t] \in Seq(Call) /\ Len(calls[t]) \in Nat
         /\ calls[t] = <<>> <=> Len(calls[t]) = 0
         /\ \A k \in 1 .. Len(calls[t]) :
              calls[t][k] \in Call /\ calls[t][k].start \in Nat /\ calls[t][k].request \in Nat
         /\ timeline[t] \in Flow
<1>1. calls[t] \in Seq(Call) /\ timeline[t] \in Flow
  BY DEF Typed
<1>2. /\ Len(calls[t]) \in Nat /\ (calls[t] = <<>> <=> Len(calls[t]) = 0)
      /\ \A k \in 1 .. Len(calls[t]) : calls[t][k] \in Call
  BY <1>1, NotEmpty
<1>. QED
  BY <1>1, <1>2 DEF Call

LEMMA EnterBegins ==
  ASSUME Typed, NEW t \in Threads, NEW m \in Methods, enter(t, m)
  PROVE  CallBegins(t, m)
<1>. DEFINE c == CallOf(t, m)
<1>0. now \in Nat
  BY DEF Typed
<1>1. /\ calls[t] \in Seq(Call) /\ Len(calls[t]) \in Nat
      /\ calls[t] = <<>> <=> Len(calls[t]) = 0
      /\ \A k \in 1 .. Len(calls[t]) : calls[t][k] \in Call
  BY Types
<1>2. calls[t] # <<>> => Last(calls[t]) = Innermost(t) /\ Innermost(t) \in Call
  BY <1>1 DEF Last, Innermost
<1>3. /\ c.method = m /\ c.start = now
      /\ c.request = IF calls[t] = <<>> THEN now ELSE Innermost(t).request
  BY <1>2 DEF CallOf
<1>4. c.request \in Nat
  BY <1>0, <1>2, <1>3 DEF Call
<1>5. c \in Call
  BY <1>0, <1>4 DEF Call, CallOf
<1>. HIDE DEF c
<1>6. calls \in [Threads -> Seq(Call)]
  BY DEF Typed
<1>7. calls' = [calls EXCEPT ![t] = Append(@, c)] /\ now' = now + 1 /\ completed' = completed
  BY DEF enter, c
<1>8. /\ Append(calls[t], c) \in Seq(Call) /\ Append(calls[t], c) # <<>>
      /\ Len(Append(calls[t], c)) = Len(calls[t]) + 1
      /\ Append(calls[t], c)[Len(calls[t]) + 1] = c
      /\ \A k \in 1 .. Len(calls[t]) : Append(calls[t], c)[k] = calls[t][k]
  BY <1>1, <1>5, Pushed
<1>9. calls'[t] = Append(calls[t], c) /\ \A u \in Threads : u # t => calls'[u] = calls[u]
  BY <1>6, <1>7
<1>10. calls' \in [Threads -> Seq(Call)]
  BY <1>6, <1>7, <1>8
<1>11. IF calls[t] = <<>> THEN m \in Roots ELSE <<Innermost(t).method, m>> \in MayCall
  BY <1>2 DEF enter, Callable
<1>. QED
  BY <1>3, <1>5, <1>7, <1>8, <1>9, <1>10, <1>11 DEF CallBegins, c

LEMMA CallEndsIsOver ==
  ASSUME Typed, NEW t \in Threads, NEW unwound \in BOOLEAN,
         calls[t] # <<>>, CallEnds(t, unwound), now' = now + 1
  PROVE  CallIsOver(t, unwound) /\ Last(calls[t]) = Innermost(t)
<1>1. calls \in [Threads -> Seq(Call)] /\ now \in Nat /\ calls[t] \in Seq(Call)
  BY DEF Typed
<1>2. /\ Front(calls[t]) \in Seq(Call)
      /\ Len(calls[t]) \in Nat \ {0} /\ Len(Front(calls[t])) = Len(calls[t]) - 1
      /\ Last(calls[t]) = Innermost(t) /\ Last(calls[t]) \in Call
      /\ \A k \in 1 .. Len(calls[t]) - 1 : Front(calls[t])[k] = calls[t][k]
  BY <1>1, LastRemoved DEF Innermost
<1>3. calls' = [calls EXCEPT ![t] = Front(@)]
  BY DEF CallEnds
<1>4. calls'[t] = Front(calls[t]) /\ \A u \in Threads : u # t => calls'[u] = calls[u]
  BY <1>1, <1>3
<1>5. calls' \in [Threads -> Seq(Call)]
  BY <1>1, <1>2, <1>3
<1>6. completed' = completed \cup {EndedNow(t, unwound)}
  BY <1>2 DEF CallEnds, EndedNow
<1>7. EndedNow(t, unwound) \in Ended
  BY <1>1, <1>2 DEF EndedNow, Ended
<1>. QED
  BY <1>2, <1>4, <1>5, <1>6, <1>7 DEF CallIsOver

-----------------------------------------------------------------------------
(* The calls of a server keep their order.                                 *)

LEMMA DistinctCalls ==
  ASSUME Typed, CallsAreDistinct, CallsAreNested, NEW t \in Threads
  PROVE  /\ \A m \in Methods : CallBegins(t, m) => CallsAreDistinct'
         /\ \A unwound \in BOOLEAN : CallIsOver(t, unwound) => CallsAreDistinct'
<1>0. /\ now \in Nat /\ completed \subseteq Ended
      /\ \A c \in completed : c.call.start \in Nat /\ c.end \in Nat /\ c.call.request \in Nat
  BY DEF Typed, Ended, Call
<1>1. \A u \in Threads : /\ Len(calls[u]) \in Nat /\ (calls[u] = <<>> <=> Len(calls[u]) = 0)
                         /\ \A k \in 1 .. Len(calls[u]) :
                              calls[u][k].start \in Nat /\ calls[u][k].request \in Nat
  BY Types
<1>2. ASSUME NEW m \in Methods, CallBegins(t, m)
      PROVE  CallsAreDistinct'
  <2>1. \A c \in completed' :
          c.call.start < now' /\ c.end < now' /\ c.call.request <= c.call.start
    BY <1>0, <1>2 DEF CallsAreDistinct, CallBegins
  <2>2. \A c, d \in completed' : c.call.start = d.call.start => c = d
    BY <1>2 DEF CallsAreDistinct, CallBegins
  <2>3. \A u \in Threads : \A k \in 1 .. Len(calls'[u]) :
           \/ u = t /\ k = Len(calls[t]) + 1 /\ calls'[u][k].start = now
           \/ k \in 1 .. Len(calls[u]) /\ calls'[u][k].start = calls[u][k].start
    BY <1>1, <1>2 DEF CallBegins
  <2>4. \A u \in Threads : \A k \in 1 .. Len(calls'[u]) :
          /\ calls'[u][k].start < now'
          /\ \A c \in completed' : c.call.start # calls'[u][k].start
    BY <1>0, <1>1, <1>2, <2>3 DEF CallsAreDistinct, CallBegins, Depth
  <2>5. \A u, v \in Threads : \A j \in 1 .. Len(calls'[u]), k \in 1 .. Len(calls'[v]) :
          calls'[u][j].start = calls'[v][k].start => u = v /\ j = k
    <3>1. \A u \in Threads : \A k \in 1 .. Len(calls[u]) : calls[u][k].start # now
      BY <1>0, <1>1 DEF CallsAreDistinct, Depth
    <3>2. SUFFICES ASSUME NEW u \in Threads, NEW v \in Threads,
                          NEW j \in 1 .. Len(calls'[u]), NEW k \in 1 .. Len(calls'[v]),
                          calls'[u][j].start = calls'[v][k].start
                   PROVE  u = v /\ j = k
      OBVIOUS
    <3>3. CASE u = t /\ j = Len(calls[t]) + 1 /\ calls'[u][j].start = now
      BY <2>3, <3>1, <3>2, <3>3
    <3>4. CASE j \in 1 .. Len(calls[u]) /\ calls'[u][j].start = calls[u][j].start
      <4>1. calls[u][j].start # now
        BY <3>1, <3>4
      <4>2. k \in 1 .. Len(calls[v]) /\ calls'[v][k].start = calls[v][k].start
        BY <2>3, <3>2, <3>4, <4>1
      <4>3. calls[u][j].start = calls[v][k].start
        BY <3>2, <3>4, <4>2
      <4>4. \A w, x \in Threads : \A a \in 1 .. Len(calls[w]), b \in 1 .. Len(calls[x]) :
              calls[w][a].start = calls[x][b].start => w = x /\ a = b
        BY DEF CallsAreDistinct, Depth
      <4>. QED
        BY <3>4, <4>2, <4>3, <4>4
    <3>. QED
      BY <2>3, <3>3, <3>4
  <2>. QED
    BY <2>1, <2>2, <2>4, <2>5 DEF CallsAreDistinct, Depth
<1>3. ASSUME NEW unwound \in BOOLEAN, CallIsOver(t, unwound)
      PROVE  CallsAreDistinct'
  <2>. DEFINE e == EndedNow(t, unwound)
              n == Len(calls[t])
  <2>0. n \in 1 .. Len(calls[t]) /\ now' = now + 1 /\ completed' = completed \cup {e}
    BY <1>1, <1>3 DEF CallIsOver
  <2>1. /\ e.call = calls[t][n] /\ e.end = now /\ e.call.start = calls[t][n].start
        /\ e.call.request = calls[t][n].request
    BY DEF EndedNow, Innermost
  <2>. HIDE DEF e, n
  <2>2. e.call.request <= e.call.start /\ e.call.start < now
    <3>1. calls[t][n].request <= calls[t][n].start
      BY <2>0 DEF CallsAreNested, Depth
    <3>. QED
      BY <2>0, <2>1, <3>1 DEF CallsAreDistinct, Depth
  <2>3. \A c \in completed' :
          c.call.start < now' /\ c.end < now' /\ c.call.request <= c.call.start
    <3>1. \A c \in completed :
            c.call.start < now + 1 /\ c.end < now + 1 /\ c.call.request <= c.call.start
      BY <1>0 DEF CallsAreDistinct
    <3>2. e.call.start < now + 1 /\ e.end < now + 1 /\ e.call.request <= e.call.start
      BY <1>0, <1>1, <2>0, <2>1, <2>2
    <3>. QED
      BY <2>0, <3>1, <3>2
  <2>4. \A c, d \in completed' : c.call.start = d.call.start => c = d
    <3>1. \A c \in completed : c.call.start # e.call.start
      BY <2>0, <2>1 DEF CallsAreDistinct, Depth
    <3>2. \A c, d \in completed : c.call.start = d.call.start => c = d
      BY DEF CallsAreDistinct
    <3>. QED
      BY <2>0, <3>1, <3>2
  <2>5. \A u \in Threads : \A k \in 1 .. Len(calls'[u]) :
           k \in 1 .. Len(calls[u]) /\ calls'[u][k] = calls[u][k] /\ (u = t => k # n)
    BY <1>1, <1>3 DEF CallIsOver, n
  <2>6. \A u \in Threads : \A k \in 1 .. Len(calls'[u]) :
          /\ calls'[u][k].start < now'
          /\ \A c \in completed' : c.call.start # calls'[u][k].start
    <3>1. \A u \in Threads : \A k \in 1 .. Len(calls'[u]) :
            calls[u][k].start # e.call.start
      BY <2>0, <2>1, <2>5 DEF CallsAreDistinct, Depth
    <3>2. \A u \in Threads : \A k \in 1 .. Len(calls'[u]) :
            /\ calls[u][k].start < now + 1
            /\ \A c \in completed : c.call.start # calls[u][k].start
      BY <1>0, <1>1, <2>5 DEF CallsAreDistinct, Depth
    <3>. QED
      BY <2>0, <2>5, <3>1, <3>2
  <2>7. \A u, v \in Threads : \A j \in 1 .. Len(calls'[u]), k \in 1 .. Len(calls'[v]) :
          calls'[u][j].start = calls'[v][k].start => u = v /\ j = k
    <3>1. \A u, v \in Threads : \A j \in 1 .. Len(calls[u]), k \in 1 .. Len(calls[v]) :
            calls[u][j].start = calls[v][k].start => u = v /\ j = k
      BY Zenon DEF CallsAreDistinct, Depth
    <3>2. ASSUME NEW u \in Threads, NEW v \in Threads,
                 NEW j \in 1 .. Len(calls'[u]), NEW k \in 1 .. Len(calls'[v]),
                 calls'[u][j].start = calls'[v][k].start
          PROVE  u = v /\ j = k
      <4>1. j \in 1 .. Len(calls[u]) /\ calls'[u][j] = calls[u][j]
        BY <2>5, <3>2, Zenon
      <4>2. k \in 1 .. Len(calls[v]) /\ calls'[v][k] = calls[v][k]
        BY <2>5, <3>2, Zenon
      <4>3. calls[u][j].start = calls[v][k].start
        BY <3>2, <4>1, <4>2, Zenon
      <4>. QED
        BY <3>1, <3>2, <4>1, <4>2, <4>3
    <3>. QED
      BY <3>2, Zenon
  <2>. QED
    BY <2>3, <2>4, <2>6, <2>7 DEF CallsAreDistinct, Depth
<1>. QED
  BY <1>2, <1>3

LEMMA NestedCalls ==
  ASSUME Typed, CallsAreDistinct, CallsAreNested, NEW t \in Threads
  PROVE  /\ \A m \in Methods : CallBegins(t, m) => CallsAreNested'
         /\ \A unwound \in BOOLEAN : CallIsOver(t, unwound) => CallsAreNested'
<1>0. \A u \in Threads : /\ Len(calls[u]) \in Nat /\ (calls[u] = <<>> <=> Len(calls[u]) = 0)
                         /\ \A k \in 1 .. Len(calls[u]) : calls[u][k].start \in Nat
  BY Types
<1>1. now \in Nat
  BY DEF Typed
<1>2. ASSUME NEW m \in Methods, CallBegins(t, m), NEW u \in Threads, u # t
      PROVE  calls'[u] = calls[u]
  BY <1>2 DEF CallBegins
<1>3. ASSUME NEW m \in Methods, CallBegins(t, m)
      PROVE  CallsAreNested'
  <2>. DEFINE n == Len(calls[t])
  <2>1. /\ n \in Nat /\ Len(calls'[t]) = n + 1 /\ calls'[t] # <<>>
        /\ \A k \in 1 .. n : calls'[t][k] = calls[t][k]
        /\ calls'[t][n + 1].method = m /\ calls'[t][n + 1].start = now
    BY <1>0, <1>3 DEF CallBegins
  <2>. HIDE DEF n
  <2>2. CASE calls[t] = <<>>
    <3>1. n = 0 /\ m \in Roots /\ calls'[t][1].request = now
      BY <1>0, <1>3, <2>2 DEF CallBegins, n
    <3>2. m \in IF m.stage = "TOMCAT" THEN Serving ELSE Background
      BY <3>1, RolesHold DEF Roles
    <3>3. \A k \in 1 .. Len(calls'[t]) : k = 1
      BY <2>1, <3>1
    <3>4. \A k \in 1 .. Len(calls'[t]) :
            /\ calls'[t][k].request = Current(t)'
            /\ calls'[t][k].start >= Current(t)'
            /\ calls'[t][k].method \in IF InRequest(t)' THEN Serving ELSE Background
            /\ k > 1 => calls'[t][k].method.stage # "TOMCAT"
      BY <1>1, <2>1, <3>1, <3>2, <3>3 DEF InRequest, Current
    <3>. QED
      BY <1>2, <1>3, <3>4 DEF CallsAreNested, Depth, InRequest, Current
  <2>3. CASE calls[t] # <<>>
    <3>1. /\ n \in 1 .. n /\ 1 \in 1 .. n
          /\ <<calls[t][n].method, m>> \in MayCall
          /\ calls'[t][n + 1].request = calls[t][n].request
      BY <1>0, <1>3, <2>1, <2>3 DEF CallBegins, Innermost, n
    <3>2. Current(t)' = Current(t) /\ (InRequest(t)' <=> InRequest(t))
      BY <2>1, <2>3, <3>1 DEF Current, InRequest
    <3>3. calls[t][n].method \in IF InRequest(t) THEN Serving ELSE Background
      BY <3>1 DEF CallsAreNested, Depth, n
    <3>4. /\ m.stage # "TOMCAT"
          /\ m \in IF InRequest(t) THEN Serving ELSE Background
      BY <3>1, <3>3, RolesHold DEF Roles
    <3>5. calls'[t][n + 1].request = Current(t) /\ now >= Current(t)
      <4>1. calls[t][n].request = Current(t) /\ calls[t][1].start < now
        BY <3>1 DEF CallsAreNested, CallsAreDistinct, Depth, n
      <4>. QED
        BY <1>0, <1>1, <3>1, <4>1 DEF Current, n
    <3>6. \A k \in 1 .. Len(calls'[t]) : k = n + 1 \/ k \in 1 .. n
      BY <2>1
    <3>7. \A k \in 1 .. n :
            /\ calls[t][k].request = Current(t)
            /\ calls[t][k].start >= Current(t)
            /\ calls[t][k].method \in IF InRequest(t) THEN Serving ELSE Background
            /\ k > 1 => calls[t][k].method.stage # "TOMCAT"
      BY DEF CallsAreNested, Depth, n
    <3>8. \A k \in 1 .. Len(calls'[t]) :
            /\ calls'[t][k].request = Current(t)'
            /\ calls'[t][k].start >= Current(t)'
            /\ calls'[t][k].method \in IF InRequest(t)' THEN Serving ELSE Background
            /\ k > 1 => calls'[t][k].method.stage # "TOMCAT"
      BY <2>1, <3>2, <3>4, <3>5, <3>6, <3>7
    <3>. QED
      BY <1>2, <1>3, <3>8 DEF CallsAreNested, Depth, InRequest, Current
  <2>. QED
    BY <2>2, <2>3
<1>4. ASSUME NEW unwound \in BOOLEAN, CallIsOver(t, unwound)
      PROVE  CallsAreNested'
  <2>1. \A u \in Threads : /\ Len(calls'[u]) \in Nat /\ (calls'[u] = <<>> <=> Len(calls'[u]) = 0)
                           /\ \A k \in 1 .. Len(calls'[u]) :
                                k \in 1 .. Len(calls[u]) /\ calls'[u][k] = calls[u][k]
    <3>1. \A u \in Threads : calls'[u] \in Seq(Call)
      BY <1>4 DEF CallIsOver
    <3>2. \A u \in Threads : Len(calls'[u]) \in Nat /\ (calls'[u] = <<>> <=> Len(calls'[u]) = 0)
      BY <3>1, NotEmpty
    <3>. QED
      BY <1>0, <1>4, <3>2 DEF CallIsOver
  <2>2. \A u \in Threads : calls'[u] # <<>> => Current(u)' = Current(u) /\ (InRequest(u)' <=> InRequest(u))
    <3>1. \A u \in Threads : calls'[u] # <<>> => 1 \in 1 .. Len(calls'[u])
      BY <2>1
    <3>. QED
      BY <1>0, <2>1, <3>1 DEF Current, InRequest
  <2>3. \A u \in Threads : \A k \in 1 .. Len(calls'[u]) : calls'[u] # <<>>
    BY <2>1
  <2>. QED
    BY <2>1, <2>2, <2>3 DEF CallsAreNested, Depth
<1>. QED
  BY <1>3, <1>4

(* Two threads never run calls of the same request, and what has ended of  *)
(* a request that runs has ended on its thread.                            *)
LEMMA RequestsAreApart ==
  ASSUME Typed, CallsAreDistinct, NEW t \in Threads, NEW u \in Threads,
         calls[t] # <<>>, calls[u] # <<>>, Current(t) = Current(u)
  PROVE  t = u
<1>1. 1 \in 1 .. Len(calls[t]) /\ 1 \in 1 .. Len(calls[u])
  BY Types
<1>. QED
  BY <1>1 DEF CallsAreDistinct, Depth, Current

LEMMA OwnThreads ==
  ASSUME Typed, CallInv, NEW t \in Threads
  PROVE  /\ \A m \in Methods : CallBegins(t, m) => OneThreadPerRequest'
         /\ \A unwound \in BOOLEAN : CallIsOver(t, unwound) => OneThreadPerRequest'
<1>. USE DEF CallInv
<1>0. /\ now \in Nat /\ completed \subseteq Ended
      /\ \A c \in completed : c.call.start \in Nat /\ c.call.request \in Nat
  BY DEF Typed, Ended, Call
<1>1. \A u \in Threads : /\ Len(calls[u]) \in Nat /\ (calls[u] = <<>> <=> Len(calls[u]) = 0)
  BY Types
<1>2. ASSUME NEW m \in Methods, CallBegins(t, m)
      PROVE  OneThreadPerRequest'
  <2>1. ASSUME NEW u \in Threads, NEW c \in completed, c.call.request = Current(u)', calls'[u] # <<>>
        PROVE  c.thread = u
    <3>1. c.call.request < now
      BY <1>0 DEF CallsAreDistinct
    <3>2. CASE u = t /\ calls[t] = <<>>
      <4>1. calls'[t][1].start = now
        BY <1>1, <1>2, <3>2 DEF CallBegins
      <4>. QED
        BY <1>0, <2>1, <3>1, <3>2, <4>1 DEF Current
    <3>3. CASE ~ (u = t /\ calls[t] = <<>>)
      <4>1. calls[u] # <<>> /\ Current(u)' = Current(u)
        BY <1>1, <1>2, <2>1, <3>3 DEF CallBegins, Current
      <4>. QED
        BY <2>1, <4>1 DEF OneThreadPerRequest
    <3>. QED
      BY <3>2, <3>3
  <2>. QED
    BY <1>2, <2>1 DEF OneThreadPerRequest, CallBegins
<1>3. ASSUME NEW unwound \in BOOLEAN, CallIsOver(t, unwound)
      PROVE  OneThreadPerRequest'
  <2>1. ASSUME NEW u \in Threads, calls'[u] # <<>>
        PROVE  calls[u] # <<>> /\ Current(u)' = Current(u)
    <3>1. CASE u = t
      <4>1. Len(calls'[t]) \in Nat /\ Len(calls'[t]) # 0 /\ Len(calls'[t]) = Len(calls[t]) - 1
        <5>1. calls'[t] \in Seq(Call)
          BY <1>3 DEF CallIsOver
        <5>. QED
          BY <1>3, <2>1, <3>1, <5>1, NotEmpty DEF CallIsOver
      <4>2. calls[t] # <<>> /\ 1 \in 1 .. Len(calls[t]) - 1
        <5>1. Len(calls[t]) \in Nat /\ (calls[t] = <<>> <=> Len(calls[t]) = 0)
          BY <1>1
        <5>2. \A n, l \in Nat : l = n - 1 /\ l # 0 => n # 0 /\ 1 \in 1 .. n - 1
          OBVIOUS
        <5>3. Len(calls[t]) # 0 /\ 1 \in 1 .. Len(calls[t]) - 1
          BY <4>1, <5>1, <5>2
        <5>. QED
          BY <5>1, <5>3
      <4>3. calls'[t][1] = calls[t][1]
        BY <1>3, <4>2 DEF CallIsOver
      <4>. QED
        BY <3>1, <4>2, <4>3 DEF Current
    <3>. QED
      BY <1>3, <2>1, <3>1 DEF CallIsOver, Current
  <2>2. /\ EndedNow(t, unwound).thread = t
        /\ EndedNow(t, unwound).call.request = Current(t) /\ calls[t] # <<>>
    <3>1. Len(calls[t]) \in 1 .. Len(calls[t]) /\ calls[t] # <<>>
      BY <1>1, <1>3 DEF CallIsOver
    <3>. QED
      BY <3>1 DEF CallsAreNested, Depth, EndedNow, Innermost
  <2>3. ASSUME NEW u \in Threads, NEW c \in completed', calls'[u] # <<>>,
               c.call.request = Current(u)'
        PROVE  c.thread = u
    <3>1. calls[u] # <<>> /\ c.call.request = Current(u)
      BY <2>1, <2>3
    <3>2. CASE c = EndedNow(t, unwound)
      BY <2>2, <3>1, <3>2, RequestsAreApart
    <3>3. CASE c \in completed
      BY <3>1, <3>3 DEF OneThreadPerRequest
    <3>. QED
      BY <1>3, <3>2, <3>3 DEF CallIsOver
  <2>. QED
    BY <2>3 DEF OneThreadPerRequest
<1>. QED
  BY <1>2, <1>3

LEMMA CallsKeepOrder ==
  ASSUME Typed, CallInv, NEW t \in Threads
  PROVE  /\ \A m \in Methods : CallBegins(t, m) => CallInv'
         /\ \A unwound \in BOOLEAN : CallIsOver(t, unwound) => CallInv'
BY DistinctCalls, NestedCalls, OwnThreads DEF CallInv

(* Time passes, or a record is written.                                    *)
LEMMA CallsStay ==
  ASSUME Typed, CallInv, UNCHANGED <<calls, completed>>, now' \in Nat, now' >= now
  PROVE  CallInv'
<1>0. /\ now \in Nat
      /\ \A c \in completed : c.call.start \in Nat /\ c.end \in Nat
      /\ \A t \in Threads : \A k \in 1 .. Len(calls[t]) : calls[t][k].start \in Nat
  BY Types DEF Typed, Ended, Call
<1>1. CallsAreDistinct'
  BY <1>0 DEF CallInv, CallsAreDistinct, Depth
<1>. QED
  BY <1>1 DEF CallInv, CallsAreNested, OneThreadPerRequest, Depth, InRequest, Current

-----------------------------------------------------------------------------
(* What the steps do to the timeline of a thread.                          *)

OthersKeep(t) ==
  \A u \in Threads : u # t => /\ calls'[u] = calls[u] /\ timeline'[u] = timeline[u]
                              /\ dumping'[u] = dumping[u] /\ context'[u] = context[u]

Opens(t, m) ==
  /\ ~ InRequest(t) /\ calls[t] = <<>> /\ m.stage = "TOMCAT"
  /\ timeline'[t].active /\ timeline'[t].id = request_seq /\ timeline'[t].start = now
  /\ Len(timeline'[t].stack) = 1 /\ timeline'[t].stack[1] = NewSpan(m, 0)
  /\ timeline'[t].spans = <<>>
  /\ request_seq' = request_seq + 1 /\ context'[t] = context[t]

Pushes(t, m) ==
  /\ InRequest(t)
  /\ timeline'[t].active /\ timeline'[t].id = timeline[t].id
  /\ timeline'[t].start = timeline[t].start
  /\ timeline'[t].stack = Append(timeline[t].stack, NewSpan(m, Len(timeline[t].stack)))
  /\ timeline'[t].spans = timeline[t].spans
  /\ request_seq' = request_seq
  /\ context'[t] = IF Captures(m) THEN CallOf(t, m).request ELSE context[t]

PassesBy(t, m) ==
  /\ ~ InRequest(t) /\ m.stage # "TOMCAT"
  /\ timeline'[t] = timeline[t] /\ request_seq' = request_seq /\ context'[t] = context[t]

LEMMA StackTypes ==
  ASSUME Typed, NEW t \in Threads
  PROVE  /\ timeline[t] \in Flow /\ timeline[t].active \in BOOLEAN
         /\ timeline[t].stack \in Seq(Span) /\ timeline[t].spans \in Seq(Span)
         /\ Len(timeline[t].stack) \in Nat /\ Len(timeline[t].spans) \in Nat
         /\ timeline[t].stack = <<>> <=> Len(timeline[t].stack) = 0
         /\ \A k \in 1 .. Len(timeline[t].stack) : timeline[t].stack[k] \in Span
         /\ \A k \in 1 .. Len(timeline[t].spans) : timeline[t].spans[k] \in Span
<1>1. timeline[t] \in Flow
  BY DEF Typed
<1>2. /\ timeline[t].stack \in Seq(Span) /\ timeline[t].spans \in Seq(Span)
      /\ timeline[t].active \in BOOLEAN
  BY <1>1 DEF Flow
<1>. QED
  BY <1>1, <1>2, NotEmpty

LEMMA EnterShape ==
  ASSUME Typed, CallInv, NEW t \in Threads, Flows(t), NEW m \in Methods, enter(t, m)
  PROVE  /\ OthersKeep(t) /\ UNCHANGED <<dumping, merged>> /\ dumping[t] = NoRequest
         /\ Opens(t, m) \/ Pushes(t, m) \/ PassesBy(t, m)
         /\ Typed'
<1>. DEFINE tl == timeline[t]
            open == ~ tl.active /\ StartsRequest(m)
<1>0. /\ timeline \in [Threads -> Flow] /\ tl \in Flow /\ now \in Nat /\ request_seq \in Nat
      /\ context \in [Threads -> Nat \cup {NoRequest}]
  BY DEF Typed
<1>1. CallBegins(t, m)
  BY EnterBegins
<1>2. /\ tl.stack \in Seq(Span) /\ Len(tl.stack) \in Nat /\ tl.active \in BOOLEAN
      /\ tl.active <=> InRequest(t)
  BY StackTypes DEF Flows, TimelineFollows
<1>3. \A depth \in Nat : NewSpan(m, depth) \in Span
  BY <1>0 DEF NewSpan, Span
<1>4. /\ timeline' = [timeline EXCEPT ![t] = Entered(t, m)]
      /\ request_seq' = IF open THEN request_seq + 1 ELSE request_seq
      /\ context' = IF Captures(m) THEN captureRequest(t, CallOf(t, m).request) ELSE context
      /\ UNCHANGED <<dumping, merged, completed>> /\ dumping[t] = NoRequest
  BY DEF enter, Working
<1>5. /\ timeline'[t] = Entered(t, m)
      /\ \A u \in Threads : u # t => timeline'[u] = timeline[u]
      /\ context'[t] = IF Captures(m) THEN CallOf(t, m).request ELSE context[t]
      /\ \A u \in Threads : u # t => context'[u] = context[u]
  BY <1>0, <1>4 DEF captureRequest
<1>6. OthersKeep(t)
  BY <1>1, <1>4, <1>5 DEF OthersKeep, CallBegins
<1>7. CASE open
  <2>1. ~ InRequest(t)
    BY <1>2, <1>7
  <2>2. calls[t] = <<>> /\ m.stage = "TOMCAT"
    <3>1. m.stage \in {"TOMCAT", "SPRING_MVC"}
      BY <1>7 DEF StartsRequest
    <3>2. CASE calls[t] = <<>>
      <4>1. m \in IF m.stage = "TOMCAT" THEN Serving ELSE Background
        BY <1>1, <3>2, RolesHold DEF CallBegins, Roles
      <4>. QED
        BY <3>1, <3>2, <4>1, RolesHold DEF Roles
    <3>3. CASE calls[t] # <<>>
      <4>1. Len(calls[t]) \in 1 .. Len(calls[t])
        BY <3>3, Types
      <4>2. Innermost(t).method \in Background
        BY <2>1, <4>1 DEF CallInv, CallsAreNested, Depth, Innermost
      <4>3. m \in Background /\ m.stage # "TOMCAT"
        BY <1>1, <3>3, <4>2, RolesHold DEF CallBegins, Roles
      <4>. QED
        BY <3>1, <4>3, RolesHold DEF Roles
    <3>. QED
      BY <3>2, <3>3
  <2>3. Entered(t, m) = [active |-> TRUE, id |-> request_seq, start |-> now, end |-> 0,
                         stack |-> Append(<<>>, NewSpan(m, Len(<<>>))), spans |-> <<>>]
    BY <1>7 DEF Entered, Started, IdleTimeline
  <2>4. /\ Len(<<>>) = 0 /\ <<>> \in Seq(Span)
        /\ Append(<<>>, NewSpan(m, 0)) \in Seq(Span)
        /\ Len(Append(<<>>, NewSpan(m, 0))) = 1
        /\ Append(<<>>, NewSpan(m, 0))[1] = NewSpan(m, 0)
    <3>1. NewSpan(m, 0) \in Span
      BY <1>3
    <3>. QED
      BY <3>1, EmptySeq, AppendProperties
  <2>5. Entered(t, m) \in Flow
    BY <1>0, <2>3, <2>4 DEF Flow
  <2>6. ~ Captures(m)
    BY <2>2 DEF Captures
  <2>7. Opens(t, m)
    BY <1>4, <1>5, <1>7, <2>1, <2>2, <2>3, <2>4, <2>6 DEF Opens
  <2>8. Typed'
    <3>1. timeline' \in [Threads -> Flow]
      BY <1>0, <1>4, <2>5
    <3>2. request_seq' \in Nat /\ now' \in Nat
      BY <1>0, <1>1, <1>4 DEF CallBegins
    <3>. QED
      BY <1>1, <1>4, <2>6, <3>1, <3>2 DEF Typed, CallBegins
  <2>. QED
    BY <1>4, <1>6, <2>7, <2>8
<1>8. CASE ~ open
  <2>1. /\ request_seq' = request_seq
        /\ Entered(t, m) = IF ~ tl.active THEN tl
                           ELSE [tl EXCEPT !.stack = Append(@, NewSpan(m, Len(@)))]
    BY <1>4, <1>8 DEF Entered
  <2>2. CallOf(t, m).request \in Nat
    BY <1>1 DEF CallBegins, Call
  <2>3. Append(tl.stack, NewSpan(m, Len(tl.stack))) \in Seq(Span)
    BY <1>2, <1>3, Pushed
  <2>4. Entered(t, m) \in Flow
    BY <1>0, <2>1, <2>3 DEF Flow
  <2>5. Typed'
    <3>1. timeline' \in [Threads -> Flow]
      BY <1>0, <1>4, <2>4
    <3>2. request_seq' \in Nat /\ now' \in Nat
      BY <1>0, <1>1, <2>1 DEF CallBegins
    <3>3. context' \in [Threads -> Nat \cup {NoRequest}]
      BY <1>0, <1>4, <2>2 DEF captureRequest
    <3>. QED
      BY <1>1, <1>4, <3>1, <3>2, <3>3 DEF Typed, CallBegins
  <2>6. CASE tl.active
    BY <1>0, <1>2, <1>4, <1>5, <1>6, <2>1, <2>5, <2>6 DEF Pushes, Flow
  <2>7. CASE ~ tl.active
    <3>1. ~ StartsRequest(m) /\ ~ InRequest(t)
      BY <1>2, <1>8, <2>7
    <3>2. m.stage # "TOMCAT" /\ ~ Captures(m)
      BY <3>1 DEF StartsRequest, Captures
    <3>. QED
      BY <1>4, <1>5, <1>6, <2>1, <2>5, <2>7, <3>1, <3>2 DEF PassesBy
  <2>. QED
    BY <2>6, <2>7
<1>. QED
  BY <1>7, <1>8

(* The span on top of the stack, as exit closes it.                        *)
TopSpan(t) == timeline[t].stack[Len(timeline[t].stack)]

Pops(t, threw) ==
  /\ InRequest(t)
  /\ timeline'[t].id = timeline[t].id /\ timeline'[t].start = timeline[t].start
  /\ Len(timeline'[t].stack) = Len(timeline[t].stack) - 1
  /\ \A k \in 1 .. Len(timeline[t].stack) - 1 : timeline'[t].stack[k] = timeline[t].stack[k]
  /\ timeline'[t].spans = Append(timeline[t].spans, Finished(TopSpan(t), threw))
  /\ context'[t] = context[t]

(* The end of a job, of a method inside a request, and of the request.     *)
LeavesJob(t) ==
  /\ ~ InRequest(t) /\ Innermost(t).method.stage # "TOMCAT"
  /\ timeline'[t] = timeline[t] /\ dumping'[t] = dumping[t] /\ context'[t] = context[t]

LeavesInner(t, threw) ==
  /\ Pops(t, threw) /\ Len(calls[t]) > 1 /\ Innermost(t).method.stage # "TOMCAT"
  /\ timeline'[t].active = timeline[t].active /\ dumping'[t] = dumping[t]

LeavesRequest(t, threw) ==
  /\ Pops(t, threw) /\ Len(calls[t]) = 1 /\ Innermost(t).method.stage = "TOMCAT"
  /\ ~ timeline'[t].active
  /\ dumping'[t] = [thread |-> t, id |-> timeline[t].id, spans |-> timeline'[t].spans,
                    total |-> now - timeline[t].start, context |-> context[t]]
  /\ dumping'[t] \in Written

LEMMA PoppedIs ==
  ASSUME Typed, NEW t \in Threads, NEW threw \in BOOLEAN, timeline[t].stack # <<>>
  PROVE  /\ Popped(timeline[t], threw) \in Flow
         /\ Popped(timeline[t], threw).active = timeline[t].active
         /\ Popped(timeline[t], threw).id = timeline[t].id
         /\ Popped(timeline[t], threw).start = timeline[t].start
         /\ Len(Popped(timeline[t], threw).stack) = Len(timeline[t].stack) - 1
         /\ \A k \in 1 .. Len(timeline[t].stack) - 1 :
              Popped(timeline[t], threw).stack[k] = timeline[t].stack[k]
         /\ Popped(timeline[t], threw).spans
              = Append(timeline[t].spans, Finished(TopSpan(t), threw))
<1>. DEFINE tl == timeline[t]
            span == Finished(Last(tl.stack), threw)
<1>0. tl \in Flow /\ tl.stack \in Seq(Span) /\ tl.spans \in Seq(Span) /\ now \in Nat
  BY StackTypes DEF Typed
<1>1. /\ Front(tl.stack) \in Seq(Span) /\ Len(Front(tl.stack)) = Len(tl.stack) - 1
      /\ \A k \in 1 .. Len(tl.stack) - 1 : Front(tl.stack)[k] = tl.stack[k]
      /\ Last(tl.stack) = TopSpan(t) /\ Last(tl.stack) \in Span
  BY <1>0, LastRemoved DEF TopSpan
<1>2. span \in Span
  BY <1>0, <1>1 DEF Finished, Span
<1>3. Append(tl.spans, span) \in Seq(Span)
  BY <1>0, <1>2, AppendProperties
<1>4. Popped(tl, threw) = [tl EXCEPT !.stack = Front(tl.stack), !.spans = Append(tl.spans, span)]
  BY DEF Popped
<1>. HIDE DEF span, tl
<1>5. /\ Popped(tl, threw) \in Flow
      /\ Popped(tl, threw).active = tl.active /\ Popped(tl, threw).id = tl.id
      /\ Popped(tl, threw).start = tl.start /\ Popped(tl, threw).stack = Front(tl.stack)
      /\ Popped(tl, threw).spans = Append(tl.spans, span)
  BY <1>0, <1>1, <1>3, <1>4 DEF Flow
<1>. QED
  BY <1>1, <1>5 DEF tl, span

LEMMA LeaveShape ==
  ASSUME Typed, CallInv, NEW t \in Threads, Flows(t), NEW threw \in BOOLEAN, Leave(t, threw)
  PROVE  /\ CallIsOver(t, FALSE) /\ OthersKeep(t) /\ dumping[t] = NoRequest
         /\ LeavesJob(t) \/ LeavesInner(t, threw) \/ LeavesRequest(t, threw)
         /\ UNCHANGED <<request_seq, merged>>
         /\ Typed'
<1>. DEFINE tl == timeline[t]
            done == Popped(tl, threw)
<1>0. /\ timeline \in [Threads -> Flow] /\ tl \in Flow /\ now \in Nat
      /\ context \in [Threads -> Nat \cup {NoRequest}]
      /\ dumping \in [Threads -> Written \cup {NoRequest}]
  BY DEF Typed
<1>1. /\ now' = now + 1 /\ UNCHANGED <<request_seq, context, merged>>
      /\ calls[t] # <<>> /\ dumping[t] = NoRequest /\ CallEnds(t, FALSE) /\ exit(t, threw)
  BY DEF Leave, exit, Working
<1>2. CallIsOver(t, FALSE) /\ Last(calls[t]) = Innermost(t)
  BY <1>1, CallEndsIsOver
<1>3. Len(calls[t]) \in Nat /\ Len(calls[t]) \in 1 .. Len(calls[t]) /\ 1 \in 1 .. Len(calls[t])
  BY <1>1, Types
<1>4. /\ tl.stack \in Seq(Span) /\ Len(tl.stack) \in Nat /\ (tl.stack = <<>> <=> Len(tl.stack) = 0)
      /\ tl.active <=> InRequest(t)
      /\ InRequest(t) => tl.start = Current(t) /\ Len(tl.stack) >= Len(calls[t])
  BY StackTypes DEF Flows, TimelineFollows
<1>5. Closes(t) <=> InRequest(t)
  BY <1>3, <1>4 DEF Closes
<1>6. ASSUME timeline' = timeline, dumping' = dumping
      PROVE  OthersKeep(t) /\ Typed'
  <2>1. now' \in Nat
    BY <1>0, <1>1
  <2>. QED
    BY <1>1, <1>2, <1>6, <2>1 DEF OthersKeep, CallIsOver, Typed
<1>7. CASE ~ InRequest(t)
  <2>1. Innermost(t).method \in Background
    BY <1>3, <1>7 DEF CallInv, CallsAreNested, Depth, Innermost
  <2>2. Innermost(t).method.stage # "TOMCAT"
    BY <2>1, RolesHold DEF Roles
  <2>3. timeline' = timeline /\ dumping' = dumping
    BY <1>1, <1>5, <1>7 DEF exit
  <2>. QED
    BY <1>1, <1>2, <1>6, <1>7, <2>2, <2>3 DEF LeavesJob
<1>8. CASE InRequest(t)
  <2>1. tl.stack # <<>>
    BY <1>3, <1>4, <1>8
  <2>2. /\ done \in Flow /\ done.active = tl.active /\ done.id = tl.id /\ done.start = tl.start
        /\ Len(done.stack) = Len(tl.stack) - 1
        /\ \A k \in 1 .. Len(tl.stack) - 1 : done.stack[k] = tl.stack[k]
        /\ done.spans = Append(tl.spans, Finished(TopSpan(t), threw))
    BY <2>1, PoppedIs
  <2>. HIDE DEF done
  <2>3. CASE Innermost(t).method.stage # "TOMCAT"
    <3>1. timeline' = [timeline EXCEPT ![t] = done] /\ dumping' = dumping
      BY <1>1, <1>2, <1>5, <1>8, <2>3 DEF exit, done
    <3>2. /\ timeline' \in [Threads -> Flow] /\ timeline'[t] = done
          /\ \A u \in Threads : u # t => timeline'[u] = timeline[u]
      BY <1>0, <2>2, <3>1
    <3>3. Len(calls[t]) > 1
      <4>1. calls[t][1].method.stage = "TOMCAT"
        BY <1>8 DEF InRequest
      <4>2. Len(calls[t]) # 1
        BY <2>3, <4>1 DEF Innermost
      <4>3. \A n \in Nat : 1 \in 1 .. n /\ n # 1 => n > 1
        OBVIOUS
      <4>. QED
        BY <1>3, <4>2, <4>3
    <3>4. LeavesInner(t, threw)
      BY <1>1, <1>8, <2>2, <2>3, <3>1, <3>2, <3>3 DEF LeavesInner, Pops
    <3>5. OthersKeep(t)
      BY <1>1, <1>2, <3>1, <3>2 DEF OthersKeep, CallIsOver
    <3>6. Typed'
      <4>1. now' \in Nat
        BY <1>0, <1>1
      <4>. QED
        BY <1>1, <1>2, <3>1, <3>2, <4>1 DEF Typed, CallIsOver
    <3>. QED
      BY <1>1, <1>2, <3>4, <3>5, <3>6
  <2>4. CASE Innermost(t).method.stage = "TOMCAT"
    <3>. DEFINE closed == [done EXCEPT !.active = FALSE, !.end = now]
                r == [thread |-> t, id |-> tl.id, spans |-> done.spans,
                      total |-> now - tl.start, context |-> context[t]]
    <3>1. /\ timeline' = [timeline EXCEPT ![t] = closed]
          /\ dumping' = [dumping EXCEPT ![t] = Record(t, done)]
      BY <1>1, <1>2, <1>5, <1>8, <2>4 DEF exit, done
    <3>2. Record(t, done) = r
      BY <2>2 DEF Record
    <3>3. /\ closed \in Flow /\ closed.active = FALSE /\ closed.id = done.id
          /\ closed.start = done.start /\ closed.stack = done.stack
          /\ closed.spans = done.spans
      BY <1>0, <2>2 DEF Flow
    <3>4. r \in Written
      <4>1. context[t] \in Nat \cup {NoRequest}
        BY <1>0
      <4>2. tl.id \in Nat /\ tl.start \in Nat
        BY <1>0 DEF Flow
      <4>3. done.spans \in Seq(Span)
        BY <2>2 DEF Flow
      <4>4. now - tl.start \in Int
        BY <1>0, <4>2
      <4>. HIDE DEF tl
      <4>. QED
        BY <4>1, <4>2, <4>3, <4>4 DEF Written
    <3>. HIDE DEF closed, r
    <3>5. /\ timeline' \in [Threads -> Flow] /\ timeline'[t] = closed
          /\ \A u \in Threads : u # t => timeline'[u] = timeline[u]
          /\ dumping' \in [Threads -> Written \cup {NoRequest}] /\ dumping'[t] = r
          /\ \A u \in Threads : u # t => dumping'[u] = dumping[u]
      BY <1>0, <3>1, <3>2, <3>3, <3>4
    <3>6. Len(calls[t]) = 1
      <4>1. ~ Len(calls[t]) > 1
        BY <1>3, <2>4 DEF CallInv, CallsAreNested, Depth, Innermost
      <4>2. \A n \in Nat : 1 \in 1 .. n /\ ~ n > 1 => n = 1
        OBVIOUS
      <4>. QED
        BY <1>3, <4>1, <4>2
    <3>7. Pops(t, threw)
      BY <1>1, <1>8, <2>2, <3>3, <3>5 DEF Pops
    <3>8. LeavesRequest(t, threw)
      BY <2>4, <3>3, <3>4, <3>5, <3>6, <3>7 DEF LeavesRequest, r
    <3>9. OthersKeep(t)
      BY <1>1, <1>2, <3>5 DEF OthersKeep, CallIsOver
    <3>10. Typed'
      <4>1. now' \in Nat
        BY <1>0, <1>1
      <4>. QED
        BY <1>1, <1>2, <3>5, <4>1 DEF Typed, CallIsOver
    <3>. QED
      BY <1>1, <1>2, <3>8, <3>9, <3>10
  <2>. QED
    BY <2>3, <2>4
<1>. QED
  BY <1>7, <1>8

LEMMA UnwindShape ==
  ASSUME Typed, CallInv, NEW t \in Threads, Unwind(t)
  PROVE  /\ CallIsOver(t, TRUE) /\ Innermost(t).method.stage # "TOMCAT"
         /\ UNCHANGED <<timeline, request_seq, context, dumping, merged>>
         /\ dumping[t] = NoRequest
         /\ Typed'
<1>1. /\ now' = now + 1 /\ UNCHANGED <<timeline, request_seq, context, dumping, merged>>
      /\ calls[t] # <<>> /\ dumping[t] = NoRequest /\ CallEnds(t, TRUE)
      /\ Last(calls[t]).method \in Throwing
  BY DEF Unwind, Working
<1>2. CallIsOver(t, TRUE) /\ Last(calls[t]) = Innermost(t)
  BY <1>1, CallEndsIsOver
<1>3. Innermost(t).method.stage # "TOMCAT"
  BY <1>1, <1>2, RolesHold DEF Roles
<1>4. now' \in Nat
  BY <1>1 DEF Typed
<1>. QED
  BY <1>1, <1>2, <1>3, <1>4 DEF Typed, CallIsOver

(* No method of a request catches what it throws, so exit finds no span.   *)
LEMMA CatchShape ==
  ASSUME Typed, CallInv, NEW t \in Threads, Flows(t), ThrowAndCatch(t)
  PROVE  /\ UNCHANGED <<calls, timeline, request_seq, context, dumping, merged, completed>>
         /\ now' = now + 1
         /\ Typed'
<1>1. /\ now' = now + 1 /\ UNCHANGED <<calls, request_seq, context, merged, completed>>
      /\ calls[t] # <<>> /\ Last(calls[t]).method \in Catching
      /\ exit(t, TRUE)
  BY DEF ThrowAndCatch, exit
<1>2. Len(calls[t]) \in 1 .. Len(calls[t])
  BY <1>1, Types
<1>3. Last(calls[t]) = Innermost(t)
  BY <1>2 DEF Last, Innermost
<1>4. ~ InRequest(t)
  <2>1. InRequest(t) => Innermost(t).method \in Serving
    BY <1>2 DEF CallInv, CallsAreNested, Depth, Innermost
  <2>. QED
    BY <1>1, <1>3, <2>1, RolesHold DEF Roles
<1>5. ~ Closes(t)
  BY <1>4 DEF Closes, Flows, TimelineFollows
<1>6. UNCHANGED <<timeline, dumping>>
  BY <1>1, <1>5 DEF exit
<1>7. now' \in Nat
  BY <1>1 DEF Typed
<1>. QED
  BY <1>1, <1>6, <1>7 DEF Typed

LEMMA WriteShape ==
  ASSUME Typed, NEW t \in Threads, writeMergedRequest(t)
  PROVE  /\ dumping[t] # NoRequest /\ dumping[t] \in Written /\ dumping'[t] = NoRequest
         /\ UNCHANGED <<calls, request_seq, now, completed>>
         /\ ~ timeline'[t].active /\ context'[t] = NoRequest
         /\ OthersKeep(t)
         /\ Len(merged') = Len(merged) + 1 /\ merged'[Len(merged) + 1] = dumping[t]
         /\ Len(merged) \in Nat /\ \A k \in 1 .. Len(merged) : merged'[k] = merged[k]
         /\ Typed'
<1>0. /\ timeline \in [Threads -> Flow] /\ merged \in Seq(Written)
      /\ context \in [Threads -> Nat \cup {NoRequest}]
      /\ dumping \in [Threads -> Written \cup {NoRequest}]
  BY DEF Typed
<1>1. /\ dumping[t] # NoRequest /\ merged' = Append(merged, dumping[t])
      /\ dumping' = [dumping EXCEPT ![t] = NoRequest]
      /\ timeline' = [timeline EXCEPT ![t] = IdleTimeline]
      /\ context' = [context EXCEPT ![t] = NoRequest]
      /\ UNCHANGED <<calls, request_seq, now, completed>>
  BY DEF writeMergedRequest, clear
<1>2. IdleTimeline \in Flow /\ IdleTimeline.active = FALSE
  <2>1. <<>> \in Seq(Span)
    BY EmptySeq
  <2>. QED
    BY <2>1 DEF IdleTimeline, Flow
<1>3. dumping[t] \in Written
  BY <1>0, <1>1
<1>4. /\ merged' \in Seq(Written) /\ Len(merged') = Len(merged) + 1
      /\ Len(merged) \in Nat
      /\ merged'[Len(merged) + 1] = dumping[t] /\ \A k \in 1 .. Len(merged) : merged'[k] = merged[k]
  BY <1>0, <1>1, <1>3, Pushed
<1>5. /\ timeline' \in [Threads -> Flow] /\ ~ timeline'[t].active
      /\ dumping' \in [Threads -> Written \cup {NoRequest}] /\ dumping'[t] = NoRequest
      /\ context' \in [Threads -> Nat \cup {NoRequest}] /\ context'[t] = NoRequest
      /\ \A u \in Threads : u # t => /\ timeline'[u] = timeline[u] /\ dumping'[u] = dumping[u]
                                     /\ context'[u] = context[u]
  BY <1>0, <1>1, <1>2
<1>6. OthersKeep(t)
  BY <1>1, <1>5 DEF OthersKeep
<1>7. Typed'
  BY <1>1, <1>4, <1>5 DEF Typed
<1>. QED
  BY <1>1, <1>3, <1>4, <1>5, <1>6, <1>7

-----------------------------------------------------------------------------
(* The timelines keep to the calls.                                        *)

(* What of the invariant of a thread's timeline depends on is the calls of *)
(* its own request.                                                        *)
LEMMA CallsOfOthers ==
  ASSUME Typed, CallInv, NEW t \in Threads, NEW request, request # Current(t),
         completed' = completed \/ \E unwound \in BOOLEAN : CallIsOver(t, unwound)
  PROVE  {c \in completed' : c.call.request = request} = CallsOf(request)
<1>1. CASE completed' = completed
  BY <1>1 DEF CallsOf
<1>2. ASSUME NEW unwound \in BOOLEAN, CallIsOver(t, unwound)
      PROVE  {c \in completed' : c.call.request = request} = CallsOf(request)
  <2>1. Len(calls[t]) \in 1 .. Len(calls[t])
    BY <1>2, Types DEF CallIsOver
  <2>2. EndedNow(t, unwound).call.request = Current(t)
    BY <2>1 DEF CallInv, CallsAreNested, Depth, EndedNow, Innermost
  <2>3. completed' = completed \cup {EndedNow(t, unwound)}
    BY <1>2 DEF CallIsOver
  <2>. QED
    BY <2>2, <2>3 DEF CallsOf
<1>. QED
  BY <1>1, <1>2

LEMMA OthersFlow ==
  ASSUME Typed, CallInv, NEW t \in Threads, NEW u \in Threads, u # t, OthersKeep(t), Flows(u),
         now' \in Nat, now' >= now,
         \/ completed' = completed
         \/ \E unwound \in BOOLEAN : CallIsOver(t, unwound)
  PROVE  Flows(u)'
<1>0. /\ calls'[u] = calls[u] /\ timeline'[u] = timeline[u]
      /\ dumping'[u] = dumping[u] /\ context'[u] = context[u]
  BY DEF OthersKeep
<1>1. /\ Current(u)' = Current(u) /\ (InRequest(u)' <=> InRequest(u)) /\ Depth(u)' = Depth(u)
      /\ Mirrored(u)' <=> Mirrored(u)
  BY <1>0 DEF Current, InRequest, Depth, Mirrored
<1>2. InRequest(u) => CallsOf(Current(u))' = CallsOf(Current(u))
  <2>1. CASE completed' = completed
    BY <1>1, <2>1 DEF CallsOf
  <2>2. ASSUME NEW unwound \in BOOLEAN, CallIsOver(t, unwound), InRequest(u)
        PROVE  CallsOf(Current(u))' = CallsOf(Current(u))
    <3>1. calls[t] # <<>> /\ calls[u] # <<>>
      BY <2>2 DEF CallIsOver, InRequest
    <3>2. Current(u) # Current(t)
      BY <3>1, RequestsAreApart DEF CallInv
    <3>3. {c \in completed' : c.call.request = Current(u)} = CallsOf(Current(u))
      BY <2>2, <3>2, CallsOfOthers
    <3>. QED
      BY <1>1, <3>3 DEF CallsOf
  <2>. QED
    BY <2>1, <2>2
<1>3. TimelineFollows(u)'
  BY <1>0, <1>1 DEF Flows, TimelineFollows
<1>4. SpansAreOwn(u)'
  BY <1>0, <1>1, <1>2 DEF Flows, SpansAreOwn, CallOfRequest
<1>5. ContextIsOwn(u)'
  BY <1>0, <1>1, <1>2 DEF Flows, ContextIsOwn, Captured
<1>6. TimelineMirrors(u)'
  <2>1. SUFFICES ASSUME InRequest(u), ~ Disturbed(Current(u))'
                 PROVE  TimelineMirrors(u)'
    BY <1>1 DEF TimelineMirrors
  <2>2. ~ Disturbed(Current(u)) /\ CallTimes(Current(u))' = CallTimes(Current(u))
    BY <1>2, <2>1 DEF Disturbed, CallTimes
  <2>3. /\ Mirrored(u)
        /\ SpanTimes(timeline[u].spans) = CallTimes(Current(u))
        /\ \A k \in 1 .. Len(timeline[u].spans) : timeline[u].spans[k].end < now
        /\ EndsIncrease(timeline[u].spans)
    BY <2>1, <2>2 DEF Flows, TimelineMirrors
  <2>4. \A k \in 1 .. Len(timeline[u].spans) : timeline[u].spans[k].end < now'
    <3>1. now \in Nat /\ \A k \in 1 .. Len(timeline[u].spans) : timeline[u].spans[k].end \in Nat
      BY StackTypes DEF Typed, Span
    <3>. QED
      BY <2>3, <3>1
  <2>. QED
    BY <1>0, <1>1, <2>2, <2>3, <2>4 DEF TimelineMirrors, SpanTimes, EndsIncrease
<1>. QED
  BY <1>3, <1>4, <1>5, <1>6 DEF Flows

(* A thread that begins a request, or a call of it.                        *)
LEMMA OpenFlow ==
  ASSUME Typed, CallInv, NEW t \in Threads, NEW m \in Methods, Flows(t),
         CallBegins(t, m), Opens(t, m), UNCHANGED dumping, dumping[t] = NoRequest
  PROVE  Flows(t)'
<1>0. now \in Nat /\ Len(calls[t]) = 0 /\ now' = now + 1 /\ completed' = completed
  BY Types DEF Typed, Opens, CallBegins
<1>1. /\ Len(calls'[t]) = 1 /\ calls'[t] # <<>> /\ calls'[t][1] = CallOf(t, m)
      /\ CallOf(t, m).method = m /\ CallOf(t, m).start = now
  BY <1>0 DEF CallBegins
<1>2. InRequest(t)' /\ Current(t)' = now
  BY <1>1 DEF InRequest, Current, Opens
<1>3. CallsOf(Current(t))' = {}
  <2>1. \A c \in completed : c.call.start \in Nat /\ c.call.request \in Nat
    BY DEF Typed, Ended, Call
  <2>2. \A c \in completed : c.call.request # now
    BY <1>0, <2>1 DEF CallInv, CallsAreDistinct
  <2>. QED
    BY <1>0, <1>2, <2>2 DEF CallsOf
<1>4. /\ timeline'[t].active /\ timeline'[t].start = now /\ timeline'[t].spans = <<>>
      /\ Len(timeline'[t].stack) = 1 /\ Len(<<>>) = 0
      /\ timeline'[t].stack[1].method = m /\ timeline'[t].stack[1].start = now
      /\ timeline'[t].stack[1].depth = 0
  BY EmptySeq DEF Opens, NewSpan
<1>5. TimelineFollows(t)'
  BY <1>1, <1>2, <1>4 DEF TimelineFollows
<1>6. SpansAreOwn(t)'
  BY <1>1, <1>2, <1>4 DEF SpansAreOwn, CallOfRequest, Depth
<1>7. ContextIsOwn(t)'
  <2>1. context'[t] = NoRequest
    BY DEF Flows, ContextIsOwn, Opens
  <2>2. ~ Captured(t)'
    <3>1. ~ Captures(m)
      BY DEF Opens, Captures
    <3>. QED
      BY <1>1, <1>3, <3>1 DEF Captured, Depth
  <2>. QED
    BY <1>2, <2>1, <2>2 DEF ContextIsOwn
<1>8. TimelineMirrors(t)'
  <2>1. Mirrored(t)'
    BY <1>1, <1>4 DEF Mirrored, Depth
  <2>2. SpanTimes(timeline'[t].spans) = {} /\ CallTimes(Current(t))' = {}
    BY <1>3, <1>4 DEF SpanTimes, CallTimes
  <2>3. SpanTimes(timeline[t].spans)' = {}
    BY <1>4 DEF SpanTimes
  <2>. QED
    BY <1>4, <2>1, <2>2, <2>3 DEF TimelineMirrors, EndsIncrease
<1>. QED
  BY <1>5, <1>6, <1>7, <1>8 DEF Flows

LEMMA PushFlow ==
  ASSUME Typed, CallInv, NEW t \in Threads, NEW m \in Methods, Flows(t),
         CallBegins(t, m), Pushes(t, m), UNCHANGED dumping, dumping[t] = NoRequest
  PROVE  Flows(t)'
<1>. DEFINE n == Len(calls[t])
            stack == timeline[t].stack
            s == Len(stack)
            span == NewSpan(m, s)
<1>0. /\ now \in Nat /\ n \in Nat /\ now' = now + 1 /\ completed' = completed
      /\ InRequest(t) /\ calls[t] # <<>> /\ 1 \in 1 .. n /\ n \in 1 .. n
      /\ s \in Nat /\ s >= n /\ stack \in Seq(Span)
  <2>1. InRequest(t) /\ calls[t] # <<>> /\ now' = now + 1 /\ completed' = completed
    BY DEF Pushes, InRequest, CallBegins
  <2>2. n \in Nat /\ n # 0 /\ now \in Nat
    BY <2>1, Types DEF Typed
  <2>3. s \in Nat /\ s >= n /\ stack \in Seq(Span)
    BY <2>1, StackTypes DEF Flows, TimelineFollows
  <2>. HIDE DEF n, s, stack
  <2>4. 1 \in 1 .. n /\ n \in 1 .. n
    BY <2>2
  <2>. QED
    BY <2>1, <2>2, <2>3, <2>4
<1>1. /\ Len(calls'[t]) = n + 1 /\ calls'[t] # <<>>
      /\ \A k \in 1 .. n : calls'[t][k] = calls[t][k]
      /\ calls'[t][n + 1].method = m /\ calls'[t][n + 1].start = now
      /\ CallOf(t, m).request = calls[t][n].request
  BY <1>0 DEF CallBegins, Innermost
<1>2. /\ span \in Span /\ span.method = m /\ span.start = now /\ span.depth = s
  BY <1>0 DEF NewSpan, Span
<1>3. /\ timeline'[t].active /\ timeline'[t].start = timeline[t].start
      /\ timeline'[t].spans = timeline[t].spans
      /\ timeline'[t].stack = Append(stack, span)
      /\ context'[t] = IF Captures(m) THEN CallOf(t, m).request ELSE context[t]
  BY DEF Pushes
<1>. HIDE DEF span, stack
<1>4. /\ Len(timeline'[t].stack) = s + 1 /\ timeline'[t].stack[s + 1] = span
      /\ \A k \in 1 .. s : timeline'[t].stack[k] = stack[k]
  BY <1>0, <1>2, <1>3, Pushed
<1>5. Current(t)' = Current(t) /\ InRequest(t)'
  BY <1>0, <1>1 DEF Current, InRequest
<1>6. CallsOf(Current(t))' = CallsOf(Current(t))
  BY <1>0, <1>5 DEF CallsOf
<1>. HIDE DEF n, s
<1>7. Depth(t) = 1 .. n /\ Depth(t)' = 1 .. n + 1
  BY <1>1 DEF Depth, n
<1>8. TimelineFollows(t)'
  <2>1. s + 1 >= n + 1
    BY <1>0
  <2>. QED
    BY <1>1, <1>3, <1>4, <1>5, <2>1 DEF TimelineFollows, Flows, Pushes
<1>9. SpansAreOwn(t)'
  <2>1. /\ \A k \in 1 .. s : CallOfRequest(t, stack[k].start)
        /\ \A k \in 1 .. Len(timeline[t].spans) : CallOfRequest(t, timeline[t].spans[k].start)
    BY <1>0 DEF Flows, SpansAreOwn, s, stack
  <2>2. ASSUME NEW start, CallOfRequest(t, start)
        PROVE  \/ \E k \in 1 .. n + 1 : calls'[t][k].start = start
               \/ \E c \in CallsOf(Current(t))' : c.call.start = start
    BY <1>0, <1>1, <1>6, <1>7, <2>2 DEF CallOfRequest
  <2>3. n + 1 \in 1 .. n + 1
    BY <1>0
  <2>4. \A k \in 1 .. s + 1 : k \in 1 .. s \/ k = s + 1
    BY <1>0
  <2>5. \A k \in 1 .. Len(timeline'[t].stack) : CallOfRequest(t, timeline[t].stack[k].start)'
    <3>1. SUFFICES ASSUME NEW k \in 1 .. s + 1
                   PROVE  \/ \E j \in 1 .. n + 1 : calls'[t][j].start = timeline'[t].stack[k].start
                          \/ \E c \in CallsOf(Current(t))' : c.call.start = timeline'[t].stack[k].start
      BY <1>4, <1>7 DEF CallOfRequest
    <3>2. CASE k = s + 1
      BY <1>1, <1>2, <1>4, <2>3, <3>2
    <3>3. CASE k \in 1 .. s
      BY <1>4, <2>1, <2>2, <3>3
    <3>. QED
      BY <2>4, <3>2, <3>3
  <2>6. \A k \in 1 .. Len(timeline'[t].spans) : CallOfRequest(t, timeline[t].spans[k].start)'
    <3>1. SUFFICES ASSUME NEW k \in 1 .. Len(timeline[t].spans)
                   PROVE  \/ \E j \in 1 .. n + 1 : calls'[t][j].start = timeline[t].spans[k].start
                          \/ \E c \in CallsOf(Current(t))' : c.call.start = timeline[t].spans[k].start
      BY <1>3, <1>7 DEF CallOfRequest
    <3>. QED
      BY <2>1, <2>2
  <2>. QED
    BY <2>5, <2>6 DEF SpansAreOwn
<1>10. ContextIsOwn(t)'
  <2>1. Captured(t)' <=> Captured(t) \/ Captures(m)
    <3>1. \A k \in 1 .. n + 1 : k \in 1 .. n \/ k = n + 1
      BY <1>0
    <3>2. n + 1 \in 1 .. n + 1 /\ \A k \in 1 .. n : k \in 1 .. n + 1
      BY <1>0
    <3>. QED
      BY <1>1, <1>6, <1>7, <3>1, <3>2 DEF Captured
  <2>2. CallOf(t, m).request = Current(t)
    BY <1>0, <1>1, <1>7 DEF CallInv, CallsAreNested
  <2>3. context[t] = IF Captured(t) THEN Current(t) ELSE NoRequest
    BY <1>0 DEF Flows, ContextIsOwn
  <2>. QED
    BY <1>3, <1>5, <2>1, <2>2, <2>3 DEF ContextIsOwn
<1>11. TimelineMirrors(t)'
  <2>1. SUFFICES ASSUME ~ Disturbed(Current(t))'
                 PROVE  TimelineMirrors(t)'
    BY DEF TimelineMirrors
  <2>2. ~ Disturbed(Current(t)) /\ CallTimes(Current(t))' = CallTimes(Current(t))
    BY <1>6, <2>1 DEF Disturbed, CallTimes
  <2>3. /\ Mirrored(t)
        /\ SpanTimes(timeline[t].spans) = CallTimes(Current(t))
        /\ \A k \in 1 .. Len(timeline[t].spans) : timeline[t].spans[k].end < now
        /\ EndsIncrease(timeline[t].spans)
    BY <1>0, <2>2 DEF Flows, TimelineMirrors
  <2>4. s = n /\ \A k \in 1 .. n : /\ stack[k].method = calls[t][k].method
                                   /\ stack[k].start = calls[t][k].start
                                   /\ stack[k].depth = k - 1
    BY <1>7, <2>3 DEF Mirrored, s, stack, n
  <2>5. Mirrored(t)'
    <3>1. n = n + 1 - 1 /\ \A k \in 1 .. n + 1 : k \in 1 .. n \/ k = n + 1
      BY <1>0
    <3>2. Len(timeline'[t].stack) = Len(calls'[t])
      BY <1>1, <1>4, <2>4
    <3>3. ASSUME NEW k \in 1 .. n + 1
          PROVE  /\ timeline'[t].stack[k].method = calls'[t][k].method
                 /\ timeline'[t].stack[k].start = calls'[t][k].start
                 /\ timeline'[t].stack[k].depth = k - 1
      <4>1. CASE k = n + 1
        <5>1. timeline'[t].stack[n + 1] = span /\ span.depth = n
          BY <1>2, <1>4, <2>4
        <5>2. k - 1 = n
          BY <1>0, <4>1
        <5>. QED
          BY <1>1, <1>2, <4>1, <5>1, <5>2
      <4>2. CASE k \in 1 .. n
        BY <1>1, <1>4, <2>4, <4>2
      <4>. QED
        BY <3>1, <4>1, <4>2
    <3>. QED
      BY <1>7, <3>2, <3>3 DEF Mirrored
  <2>6. \A k \in 1 .. Len(timeline[t].spans) : timeline[t].spans[k].end < now'
    <3>1. \A k \in 1 .. Len(timeline[t].spans) : timeline[t].spans[k].end \in Nat
      BY StackTypes DEF Span
    <3>. QED
      BY <1>0, <2>3, <3>1
  <2>. QED
    BY <1>3, <1>5, <2>2, <2>3, <2>5, <2>6 DEF TimelineMirrors, SpanTimes, EndsIncrease
<1>. QED
  BY <1>8, <1>9, <1>10, <1>11 DEF Flows

LEMMA PassFlow ==
  ASSUME Typed, CallInv, NEW t \in Threads, NEW m \in Methods, Flows(t),
         CallBegins(t, m), PassesBy(t, m), UNCHANGED dumping, dumping[t] = NoRequest
  PROVE  Flows(t)'
<1>1. ~ InRequest(t)'
  <2>1. Len(calls[t]) \in Nat /\ (calls[t] = <<>> <=> Len(calls[t]) = 0)
    BY Types
  <2>2. CASE calls[t] = <<>>
    BY <2>1, <2>2 DEF CallBegins, PassesBy, InRequest
  <2>3. CASE calls[t] # <<>>
    <3>1. 1 \in 1 .. Len(calls[t])
      BY <2>1, <2>3
    <3>. QED
      BY <2>3, <3>1 DEF CallBegins, PassesBy, InRequest
  <2>. QED
    BY <2>2, <2>3
<1>2. /\ ~ InRequest(t) /\ timeline'[t] = timeline[t] /\ context'[t] = context[t]
      /\ dumping'[t] = NoRequest
  BY DEF PassesBy
<1>. QED
  BY <1>1, <1>2 DEF Flows, TimelineFollows, SpansAreOwn, ContextIsOwn, TimelineMirrors

(* A call ends: what its thread then has running is what it had below it.  *)
LEMMA EndedCall ==
  ASSUME Typed, CallInv, NEW t \in Threads, NEW unwound \in BOOLEAN,
         CallIsOver(t, unwound)
  PROVE  /\ Len(calls[t]) \in Nat /\ Len(calls[t]) \in 1 .. Len(calls[t])
         /\ Len(calls'[t]) = Len(calls[t]) - 1
         /\ calls'[t] = <<>> <=> Len(calls[t]) = 1
         /\ Len(calls[t]) # 1 => /\ Current(t)' = Current(t)
                                 /\ InRequest(t)' <=> InRequest(t)
                                 /\ Len(calls[t]) > 1
         /\ EndedNow(t, unwound).call.request = Current(t)
         /\ {c \in completed' : c.call.request = Current(t)}
              = CallsOf(Current(t)) \cup {EndedNow(t, unwound)}
<1>. DEFINE n == Len(calls[t])
<1>1. n \in Nat /\ n # 0 /\ calls[t] # <<>>
  BY Types DEF CallIsOver
<1>2. calls'[t] \in Seq(Call) /\ Len(calls'[t]) = n - 1
  BY DEF CallIsOver
<1>3. Len(calls'[t]) \in Nat /\ (calls'[t] = <<>> <=> Len(calls'[t]) = 0)
  BY <1>2, NotEmpty
<1>4. \A k \in 1 .. n - 1 : calls'[t][k] = calls[t][k]
  BY DEF CallIsOver
<1>5. EndedNow(t, unwound).call = calls[t][n]
  BY DEF EndedNow, Innermost
<1>. HIDE DEF n
<1>6. n \in 1 .. n /\ (n # 1 => 1 \in 1 .. n - 1 /\ n > 1) /\ (n - 1 = 0 <=> n = 1)
  BY <1>1
<1>7. calls'[t] = <<>> <=> n = 1
  BY <1>2, <1>3, <1>6
<1>8. n # 1 => Current(t)' = Current(t) /\ (InRequest(t)' <=> InRequest(t))
  BY <1>1, <1>4, <1>6, <1>7 DEF Current, InRequest
<1>9. EndedNow(t, unwound).call.request = Current(t)
  BY <1>5, <1>6 DEF CallInv, CallsAreNested, Depth, n
<1>10. {c \in completed' : c.call.request = Current(t)}
         = CallsOf(Current(t)) \cup {EndedNow(t, unwound)}
  <2>1. completed' = completed \cup {EndedNow(t, unwound)}
    BY DEF CallIsOver
  <2>. HIDE DEF EndedNow
  <2>. QED
    BY <1>9, <2>1 DEF CallsOf
<1>. QED
  BY <1>1, <1>2, <1>6, <1>7, <1>8, <1>9, <1>10 DEF n

(* A span of a call that is about to end is then one of an ended call.     *)
LEMMA StillOwn ==
  ASSUME Typed, CallInv, NEW t \in Threads, NEW unwound \in BOOLEAN,
         CallIsOver(t, unwound), NEW start, CallOfRequest(t, start)
  PROVE  \/ \E k \in 1 .. Len(calls[t]) - 1 : calls'[t][k].start = start
         \/ \E c \in {c \in completed' : c.call.request = Current(t)} : c.call.start = start
<1>. DEFINE n == Len(calls[t])
<1>1. /\ n \in Nat
      /\ {c \in completed' : c.call.request = Current(t)}
           = CallsOf(Current(t)) \cup {EndedNow(t, unwound)}
  BY EndedCall
<1>2. EndedNow(t, unwound).call = calls[t][n]
  BY DEF EndedNow, Innermost
<1>3. \A k \in 1 .. n - 1 : calls'[t][k] = calls[t][k]
  BY DEF CallIsOver
<1>4. CASE \E c \in CallsOf(Current(t)) : c.call.start = start
  BY <1>1, <1>4
<1>5. CASE \E k \in 1 .. n : calls[t][k].start = start
  <2>1. PICK k \in 1 .. n : calls[t][k].start = start
    BY <1>5
  <2>2. k = n \/ k \in 1 .. n - 1
    BY <1>1
  <2>. QED
    BY <1>1, <1>2, <1>3, <2>1, <2>2
<1>. QED
  BY <1>4, <1>5 DEF CallOfRequest, Depth

(* The same of the dispatcher's call.                                      *)
LEMMA StillCaptured ==
  ASSUME Typed, CallInv, NEW t \in Threads, NEW unwound \in BOOLEAN, CallIsOver(t, unwound)
  PROVE  Captured(t) <=>
           \/ \E k \in 1 .. Len(calls[t]) - 1 : Captures(calls'[t][k].method)
           \/ \E c \in {c \in completed' : c.call.request = Current(t)} : Captures(c.call.method)
<1>. DEFINE n == Len(calls[t])
<1>1. /\ n \in Nat /\ n \in 1 .. n
      /\ {c \in completed' : c.call.request = Current(t)}
           = CallsOf(Current(t)) \cup {EndedNow(t, unwound)}
  BY EndedCall
<1>2. EndedNow(t, unwound).call = calls[t][n]
  BY DEF EndedNow, Innermost
<1>3. \A k \in 1 .. n - 1 : calls'[t][k] = calls[t][k]
  BY DEF CallIsOver
<1>4. /\ \A k \in 1 .. n : k = n \/ k \in 1 .. n - 1
      /\ \A k \in 1 .. n - 1 : k \in 1 .. n
  BY <1>1
<1>. HIDE DEF n
<1>5. Captured(t) <=> \/ \E k \in 1 .. n - 1 : Captures(calls'[t][k].method)
                      \/ Captures(calls[t][n].method)
                      \/ \E c \in CallsOf(Current(t)) : Captures(c.call.method)
  BY <1>1, <1>3, <1>4 DEF Captured, Depth, n
<1>. QED
  BY <1>1, <1>2, <1>5 DEF n

(* What exit adds to the finished spans.                                   *)
LEMMA SpanAdded ==
  ASSUME NEW spans \in Seq(Span), NEW span \in Span
  PROVE  /\ SpanTimes(Append(spans, span))
              = SpanTimes(spans) \cup {[method |-> span.method, start |-> span.start,
                                        end |-> span.end]}
         /\ \A bound \in Nat :
              /\ EndsIncrease(spans) /\ span.end = bound
              /\ \A k \in 1 .. Len(spans) : spans[k].end < bound
              => EndsIncrease(Append(spans, span))
         /\ Len(Append(spans, span)) = Len(spans) + 1
         /\ \A k \in 1 .. Len(Append(spans, span)) :
              \/ k \in 1 .. Len(spans) /\ Append(spans, span)[k] = spans[k]
              \/ k = Len(spans) + 1 /\ Append(spans, span)[k] = span
<1>. DEFINE more == Append(spans, span)
            n == Len(spans)
<1>1. /\ n \in Nat /\ Len(more) = n + 1 /\ more[n + 1] = span
      /\ \A k \in 1 .. n : more[k] = spans[k]
  BY Pushed
<1>. HIDE DEF more, n
<1>2. /\ \A k \in 1 .. n + 1 : k \in 1 .. n \/ k = n + 1
      /\ \A k \in 1 .. n : k \in 1 .. n + 1
      /\ n + 1 \in 1 .. n + 1
  BY <1>1
<1>3. SpanTimes(more) = SpanTimes(spans) \cup {[method |-> span.method, start |-> span.start,
                                                end |-> span.end]}
  <2>1. SpanTimes(more) = {[method |-> more[k].method, start |-> more[k].start,
                            end |-> more[k].end] : k \in 1 .. n + 1}
    BY <1>1 DEF SpanTimes
  <2>2. SpanTimes(spans) = {[method |-> spans[k].method, start |-> spans[k].start,
                             end |-> spans[k].end] : k \in 1 .. n}
    BY DEF SpanTimes, n
  <2>. QED
    BY <1>1, <1>2, <2>1, <2>2
<1>4. ASSUME NEW bound \in Nat, EndsIncrease(spans), span.end = bound,
             \A k \in 1 .. n : spans[k].end < bound
      PROVE  EndsIncrease(more)
  <2>1. SUFFICES ASSUME NEW k \in 2 .. n + 1
                 PROVE  more[k - 1].end < more[k].end
    BY <1>1 DEF EndsIncrease
  <2>2. CASE k = n + 1
    <3>1. k - 1 \in 1 .. n
      BY <1>1, <2>2
    <3>. QED
      BY <1>1, <1>4, <2>2, <3>1
  <2>3. CASE k # n + 1
    <3>1. k \in 2 .. n /\ k \in 1 .. n /\ k - 1 \in 1 .. n
      BY <1>1, <2>3
    <3>. QED
      BY <1>1, <1>4, <3>1 DEF EndsIncrease, n
  <2>. QED
    BY <2>2, <2>3
<1>. QED
  BY <1>1, <1>2, <1>3, <1>4 DEF more, n

LEMMA ClosedSpan ==
  ASSUME Typed, CallInv, NEW t \in Threads, Flows(t), InRequest(t), NEW threw \in BOOLEAN
  PROVE  /\ timeline[t].stack # <<>> /\ TopSpan(t) \in Span
         /\ Finished(TopSpan(t), threw) \in Span
         /\ Finished(TopSpan(t), threw).start = TopSpan(t).start
         /\ Finished(TopSpan(t), threw).method = TopSpan(t).method
         /\ Finished(TopSpan(t), threw).end = now
         /\ CallOfRequest(t, TopSpan(t).start)
         /\ Mirrored(t) => /\ TopSpan(t).method = Innermost(t).method
                           /\ TopSpan(t).start = Innermost(t).start
<1>. DEFINE s == Len(timeline[t].stack)
            n == Len(calls[t])
<1>1. n \in Nat /\ n # 0
  BY Types DEF InRequest
<1>2. s \in Nat /\ s >= n /\ (timeline[t].stack = <<>> <=> s = 0)
  BY StackTypes DEF Flows, TimelineFollows
<1>3. s \in 1 .. s /\ n \in 1 .. n /\ s # 0
  <2>. HIDE DEF s, n
  <2>. QED  BY <1>1, <1>2
<1>4. timeline[t].stack # <<>> /\ TopSpan(t) \in Span /\ CallOfRequest(t, TopSpan(t).start)
  BY <1>2, <1>3, StackTypes DEF TopSpan, Flows, SpansAreOwn
<1>5. now \in Nat
  BY DEF Typed
<1>6. /\ Finished(TopSpan(t), threw) \in Span
      /\ Finished(TopSpan(t), threw).start = TopSpan(t).start
      /\ Finished(TopSpan(t), threw).method = TopSpan(t).method
      /\ Finished(TopSpan(t), threw).end = now
  BY <1>4, <1>5 DEF Finished, Span
<1>7. ASSUME Mirrored(t)
      PROVE  TopSpan(t).method = Innermost(t).method /\ TopSpan(t).start = Innermost(t).start
  BY <1>3, <1>7 DEF Mirrored, Depth, TopSpan, Innermost
<1>. QED
  BY <1>4, <1>6, <1>7

(* The closed span is that of the ended call while no exception disturbed  *)
(* the request, so that the finished spans stay the finished calls.        *)
LEMMA SpansFollowCalls ==
  ASSUME Typed, CallInv, NEW t \in Threads, Flows(t), InRequest(t), NEW threw \in BOOLEAN,
         CallIsOver(t, FALSE), ~ Disturbed(Current(t))
  PROVE  LET spans == Append(timeline[t].spans, Finished(TopSpan(t), threw))
             ended == {c \in completed' : c.call.request = Current(t)}
         IN  /\ SpanTimes(spans) = {[method |-> c.call.method, start |-> c.call.start,
                                     end |-> c.end] : c \in ended}
             /\ EndsIncrease(spans)
             /\ \A k \in 1 .. Len(spans) : spans[k].end < now + 1
<1>. DEFINE done == Finished(TopSpan(t), threw)
            e == EndedNow(t, FALSE)
            old == timeline[t].spans
<1>1. /\ Mirrored(t)
      /\ SpanTimes(old) = CallTimes(Current(t))
      /\ \A k \in 1 .. Len(old) : old[k].end < now
      /\ EndsIncrease(old)
  BY DEF Flows, TimelineMirrors
<1>2. /\ done \in Span /\ done.method = Innermost(t).method
      /\ done.start = Innermost(t).start /\ done.end = now
  BY <1>1, ClosedSpan
<1>3. e.call = Innermost(t) /\ e.end = now
  BY DEF EndedNow
<1>4. {c \in completed' : c.call.request = Current(t)} = CallsOf(Current(t)) \cup {e}
  BY EndedCall
<1>5. now \in Nat /\ old \in Seq(Span) /\ Len(old) \in Nat
      /\ \A k \in 1 .. Len(old) : old[k].end \in Nat
  BY StackTypes DEF Typed, Span
<1>. HIDE DEF done, e, old
<1>6. /\ SpanTimes(Append(old, done)) = SpanTimes(old) \cup {[method |-> done.method,
                                                start |-> done.start, end |-> done.end]}
      /\ EndsIncrease(Append(old, done))
      /\ Len(Append(old, done)) = Len(old) + 1
      /\ \A k \in 1 .. Len(Append(old, done)) :
           \/ k \in 1 .. Len(old) /\ Append(old, done)[k] = old[k]
           \/ k = Len(old) + 1 /\ Append(old, done)[k] = done
  BY <1>1, <1>2, <1>5, SpanAdded
<1>7. \A k \in 1 .. Len(Append(old, done)) : Append(old, done)[k].end < now + 1
  BY <1>1, <1>2, <1>5, <1>6
<1>8. {[method |-> c.call.method, start |-> c.call.start, end |-> c.end] :
         c \in CallsOf(Current(t)) \cup {e}}
        = CallTimes(Current(t)) \cup {[method |-> e.call.method, start |-> e.call.start,
                                       end |-> e.end]}
  BY DEF CallTimes
<1>9. SpanTimes(Append(old, done)) =
        {[method |-> c.call.method, start |-> c.call.start, end |-> c.end] :
           c \in CallsOf(Current(t)) \cup {e}}
  BY <1>1, <1>2, <1>3, <1>6, <1>8
<1>. QED
  BY <1>4, <1>6, <1>7, <1>9 DEF done, e, old

LEMMA InnerFlow ==
  ASSUME Typed, CallInv, NEW t \in Threads, Flows(t), NEW threw \in BOOLEAN,
         CallIsOver(t, FALSE), LeavesInner(t, threw), dumping[t] = NoRequest
  PROVE  Flows(t)'
<1>. DEFINE n == Len(calls[t])
            ended == {c \in completed' : c.call.request = Current(t)}
            old == timeline[t].spans
            done == Finished(TopSpan(t), threw)
            stack == timeline[t].stack
<1>1. InRequest(t) /\ n > 1 /\ n \in Nat
  BY EndedCall DEF LeavesInner, Pops
<1>2. /\ Current(t)' = Current(t) /\ InRequest(t)' /\ Len(calls'[t]) = n - 1
      /\ CallsOf(Current(t))' = ended
  <2>1. Current(t)' = Current(t) /\ (InRequest(t)' <=> InRequest(t)) /\ Len(calls'[t]) = n - 1
    <3>1. n # 1
      <4>. HIDE DEF n
      <4>. QED  BY <1>1
    <3>. QED
      BY <1>1, <3>1, EndedCall
  <2>. QED
    BY <1>1, <2>1 DEF CallsOf
<1>3. /\ timeline'[t].active /\ timeline'[t].start = timeline[t].start
      /\ Len(timeline'[t].stack) = Len(stack) - 1
      /\ \A k \in 1 .. Len(stack) - 1 : timeline'[t].stack[k] = stack[k]
      /\ timeline'[t].spans = Append(old, done)
      /\ context'[t] = context[t] /\ dumping'[t] = NoRequest
  BY <1>1 DEF LeavesInner, Pops, Flows, TimelineFollows
<1>4. Len(stack) \in Nat /\ Len(stack) >= n /\ timeline[t].start = Current(t)
  BY <1>1, StackTypes DEF Flows, TimelineFollows
<1>5. TimelineFollows(t)'
  <2>. HIDE DEF stack, n
  <2>1. Len(stack) - 1 >= n - 1
    BY <1>1, <1>4
  <2>. QED
    BY <1>2, <1>3, <1>4, <2>1 DEF TimelineFollows
<1>6. \A start : CallOfRequest(t, start) =>
        \/ \E k \in 1 .. n - 1 : calls'[t][k].start = start
        \/ \E c \in ended : c.call.start = start
  BY StillOwn
<1>7. /\ done \in Span /\ old \in Seq(Span) /\ CallOfRequest(t, done.start)
      /\ \A k \in 1 .. Len(stack) : CallOfRequest(t, stack[k].start)
      /\ \A k \in 1 .. Len(old) : CallOfRequest(t, old[k].start)
  BY <1>1, ClosedSpan, StackTypes DEF Flows, SpansAreOwn
<1>8. SpansAreOwn(t)'
  <2>1. \A k \in 1 .. Len(Append(old, done)) :
              \/ k \in 1 .. Len(old) /\ Append(old, done)[k] = old[k]
              \/ k = Len(old) + 1 /\ Append(old, done)[k] = done
    BY <1>7, SpanAdded
  <2>. HIDE DEF n, ended, old, done, stack
  <2>2. \A k \in 1 .. Len(timeline'[t].stack) :
          k \in 1 .. Len(stack) /\ timeline'[t].stack[k] = stack[k]
    BY <1>3, <1>4
  <2>3. ASSUME NEW k \in 1 .. Len(timeline'[t].stack)
        PROVE  \/ \E j \in 1 .. n - 1 : calls'[t][j].start = timeline'[t].stack[k].start
               \/ \E c \in ended : c.call.start = timeline'[t].stack[k].start
    BY <1>6, <1>7, <2>2
  <2>4. ASSUME NEW k \in 1 .. Len(timeline'[t].spans)
        PROVE  \/ \E j \in 1 .. n - 1 : calls'[t][j].start = timeline'[t].spans[k].start
               \/ \E c \in ended : c.call.start = timeline'[t].spans[k].start
    <3>1. CallOfRequest(t, timeline'[t].spans[k].start)
      BY <1>3, <1>7, <2>1
    <3>. QED
      BY <1>6, <3>1
  <2>. QED
    BY <1>2, <2>3, <2>4 DEF SpansAreOwn, CallOfRequest, Depth
<1>9. ContextIsOwn(t)'
  <2>1. Captured(t) <=> \/ \E k \in 1 .. n - 1 : Captures(calls'[t][k].method)
                        \/ \E c \in ended : Captures(c.call.method)
    BY StillCaptured
  <2>. HIDE DEF n, ended
  <2>2. Captured(t)' <=> Captured(t)
    BY <1>2, <2>1 DEF Captured, Depth
  <2>. QED
    BY <1>1, <1>2, <1>3, <2>2 DEF Flows, ContextIsOwn
<1>10. TimelineMirrors(t)'
  <2>1. SUFFICES ASSUME ~ Disturbed(Current(t))'
                 PROVE  TimelineMirrors(t)'
    BY DEF TimelineMirrors
  <2>2. ~ Disturbed(Current(t))
    <3>1. ended = CallsOf(Current(t)) \cup {EndedNow(t, FALSE)}
      BY EndedCall
    <3>. HIDE DEF ended
    <3>. QED
      BY <1>2, <2>1, <3>1 DEF Disturbed
  <2>3. /\ SpanTimes(Append(old, done)) = {[method |-> c.call.method, start |-> c.call.start,
                                            end |-> c.end] : c \in ended}
        /\ EndsIncrease(Append(old, done))
        /\ \A k \in 1 .. Len(Append(old, done)) : Append(old, done)[k].end < now + 1
    BY <1>1, <2>2, SpansFollowCalls
  <2>4. Mirrored(t)
    BY <1>1, <2>2 DEF Flows, TimelineMirrors
  <2>5. Len(stack) = n /\ \A k \in 1 .. n : /\ stack[k].method = calls[t][k].method
                                   /\ stack[k].start = calls[t][k].start
                                   /\ stack[k].depth = k - 1
    BY <2>4 DEF Mirrored, Depth
  <2>6. \A k \in 1 .. n - 1 : calls'[t][k] = calls[t][k]
    BY DEF CallIsOver
  <2>7. now' = now + 1
    BY DEF CallIsOver
  <2>. HIDE DEF n, ended, old, done, stack
  <2>8. \A k \in 1 .. n - 1 : k \in 1 .. n
    BY <1>1
  <2>9. Mirrored(t)'
    BY <1>2, <1>3, <2>5, <2>6, <2>8 DEF Mirrored, Depth
  <2>10. CallTimes(Current(t))' = {[method |-> c.call.method, start |-> c.call.start,
                                    end |-> c.end] : c \in ended}
    BY <1>2 DEF CallTimes
  <2>11. SpanTimes(timeline[t].spans)' = SpanTimes(Append(old, done))
    BY <1>3 DEF SpanTimes
  <2>12. EndsIncrease(timeline[t].spans)'
    BY <1>3, <2>3 DEF EndsIncrease
  <2>. QED
    BY <1>3, <2>3, <2>7, <2>9, <2>10, <2>11, <2>12 DEF TimelineMirrors
<1>. QED
  BY <1>5, <1>8, <1>9, <1>10 DEF Flows

(* An exception leaves the spans as they are; the request is disturbed.    *)
LEMMA UnwindFlow ==
  ASSUME Typed, CallInv, NEW t \in Threads, Flows(t),
         CallIsOver(t, TRUE), Innermost(t).method.stage # "TOMCAT",
         UNCHANGED <<timeline, context, dumping>>, dumping[t] = NoRequest
  PROVE  Flows(t)'
<1>. DEFINE n == Len(calls[t])
            ended == {c \in completed' : c.call.request = Current(t)}
<1>1. CASE n = 1
  <2>1. ~ InRequest(t)
    BY <1>1 DEF InRequest, Innermost
  <2>2. calls'[t] = <<>>
    BY <1>1, EndedCall
  <2>. QED
    BY <2>1, <2>2 DEF Flows, InRequest, TimelineFollows, SpansAreOwn, ContextIsOwn, TimelineMirrors
<1>2. CASE n # 1
  <2>1. /\ Current(t)' = Current(t) /\ (InRequest(t)' <=> InRequest(t))
        /\ Len(calls'[t]) = n - 1 /\ n > 1 /\ n \in Nat
        /\ ended = CallsOf(Current(t)) \cup {EndedNow(t, TRUE)}
    BY <1>2, EndedCall
  <2>2. CallsOf(Current(t))' = ended
    BY <2>1 DEF CallsOf
  <2>3. \A start : CallOfRequest(t, start) =>
          \/ \E k \in 1 .. n - 1 : calls'[t][k].start = start
          \/ \E c \in ended : c.call.start = start
    BY StillOwn
  <2>4. Captured(t) <=> \/ \E k \in 1 .. n - 1 : Captures(calls'[t][k].method)
                        \/ \E c \in ended : Captures(c.call.method)
    BY StillCaptured
  <2>5. EndedNow(t, TRUE).unwound
    BY DEF EndedNow
  <2>6. TimelineFollows(t)'
    <3>1. InRequest(t) => Len(timeline[t].stack) >= n - 1
      <4>1. InRequest(t) => Len(timeline[t].stack) >= n /\ Len(timeline[t].stack) \in Nat
        BY StackTypes DEF Flows, TimelineFollows
      <4>. HIDE DEF n
      <4>. QED
        BY <2>1, <4>1
    <3>. HIDE DEF n
    <3>. QED
      BY <2>1, <3>1 DEF Flows, TimelineFollows
  <2>. HIDE DEF n, ended
  <2>7. SpansAreOwn(t)'
    <3>1. ASSUME InRequest(t)
          PROVE  /\ \A k \in 1 .. Len(timeline[t].stack) : CallOfRequest(t, timeline[t].stack[k].start)
                 /\ \A k \in 1 .. Len(timeline[t].spans) : CallOfRequest(t, timeline[t].spans[k].start)
      BY <3>1 DEF Flows, SpansAreOwn
    <3>2. ASSUME NEW start, CallOfRequest(t, start)
          PROVE  \/ \E k \in Depth(t)' : calls'[t][k].start = start
                 \/ \E c \in CallsOf(Current(t))' : c.call.start = start
      BY <2>1, <2>2, <2>3, <3>2 DEF Depth
    <3>. QED
      BY <2>1, <3>1, <3>2 DEF SpansAreOwn, CallOfRequest
  <2>8. ContextIsOwn(t)'
    <3>1. Captured(t)' <=> Captured(t)
      BY <2>1, <2>2, <2>4 DEF Captured, Depth
    <3>. QED
      BY <2>1, <3>1 DEF Flows, ContextIsOwn
  <2>9. TimelineMirrors(t)'
    BY <2>1, <2>2, <2>5 DEF TimelineMirrors, Disturbed
  <2>. QED
    BY <2>6, <2>7, <2>8, <2>9 DEF Flows
<1>. QED
  BY <1>1, <1>2

(* A job's method returns; Tomcat's method returns; the record is written. *)
LEMMA JobFlow ==
  ASSUME Typed, CallInv, NEW t \in Threads, Flows(t),
         CallIsOver(t, FALSE), LeavesJob(t), dumping[t] = NoRequest
  PROVE  Flows(t)'
<1>1. ~ InRequest(t)'
  <2>1. CASE Len(calls[t]) = 1
    BY <2>1, EndedCall DEF InRequest
  <2>2. CASE Len(calls[t]) # 1
    BY <2>2, EndedCall DEF LeavesJob
  <2>. QED
    BY <2>1, <2>2
<1>. QED
  BY <1>1 DEF Flows, LeavesJob, TimelineFollows, SpansAreOwn, ContextIsOwn, TimelineMirrors

LEMMA RequestFlow ==
  ASSUME Typed, CallInv, NEW t \in Threads, Flows(t), NEW threw \in BOOLEAN,
         CallIsOver(t, FALSE), LeavesRequest(t, threw)
  PROVE  Flows(t)'
<1>1. calls'[t] = <<>> /\ ~ InRequest(t)'
  BY EndedCall DEF LeavesRequest, InRequest
<1>2. dumping'[t] # NoRequest /\ ~ timeline'[t].active
  BY NoRequestAssumption DEF LeavesRequest
<1>. QED
  BY <1>1, <1>2 DEF Flows, TimelineFollows, SpansAreOwn, ContextIsOwn, TimelineMirrors

LEMMA WriteFlow ==
  ASSUME Typed, NEW t \in Threads, Flows(t), writeMergedRequest(t)
  PROVE  Flows(t)'
<1>1. /\ calls'[t] = <<>> /\ ~ timeline'[t].active /\ context'[t] = NoRequest
  BY WriteShape DEF Flows, TimelineFollows
<1>. QED
  BY <1>1 DEF Flows, InRequest, TimelineFollows, SpansAreOwn, ContextIsOwn, TimelineMirrors

LEMMA FlowsKeep ==
  ASSUME Typed, CallInv, FlowInv, [JvmNext]_jvmVars
  PROVE  Typed' /\ CallInv' /\ FlowInv'
<1>0. now \in Nat
  BY DEF Typed
<1>1. \A t \in Threads : Flows(t)
  BY DEF FlowInv
<1>2. ASSUME NEW t \in Threads, NEW m \in Methods, enter(t, m)
      PROVE  Typed' /\ CallInv' /\ FlowInv'
  <2>1. CallBegins(t, m)
    BY <1>2, EnterBegins
  <2>2. /\ OthersKeep(t) /\ UNCHANGED dumping /\ dumping[t] = NoRequest /\ Typed'
        /\ Opens(t, m) \/ Pushes(t, m) \/ PassesBy(t, m)
    BY <1>1, <1>2, EnterShape
  <2>3. CallInv'
    BY <2>1, CallsKeepOrder
  <2>4. Flows(t)'
    BY <1>1, <2>1, <2>2, OpenFlow, PushFlow, PassFlow
  <2>5. completed' = completed /\ now' \in Nat /\ now' >= now
    BY <1>0, <2>1 DEF CallBegins
  <2>6. \A u \in Threads : u # t => Flows(u)'
    BY <1>1, <2>2, <2>5, OthersFlow
  <2>. QED
    BY <2>2, <2>3, <2>4, <2>6 DEF FlowInv
<1>3. ASSUME NEW t \in Threads, NEW unwound \in BOOLEAN, CallIsOver(t, unwound),
             OthersKeep(t), Flows(t)', Typed'
      PROVE  Typed' /\ CallInv' /\ FlowInv'
  <2>1. CallInv'
    BY <1>3, CallsKeepOrder
  <2>2. now' \in Nat /\ now' >= now
    BY <1>0, <1>3 DEF CallIsOver
  <2>3. \A u \in Threads : u # t => Flows(u)'
    BY <1>1, <1>3, <2>2, OthersFlow
  <2>. QED
    BY <1>3, <2>1, <2>3 DEF FlowInv
<1>4. ASSUME NEW t \in Threads, NEW threw \in BOOLEAN, Leave(t, threw)
      PROVE  Typed' /\ CallInv' /\ FlowInv'
  <2>1. /\ CallIsOver(t, FALSE) /\ OthersKeep(t) /\ dumping[t] = NoRequest /\ Typed'
        /\ LeavesJob(t) \/ LeavesInner(t, threw) \/ LeavesRequest(t, threw)
    BY <1>1, <1>4, LeaveShape
  <2>2. Flows(t)'
    BY <1>1, <2>1, JobFlow, InnerFlow, RequestFlow
  <2>. QED
    BY <1>3, <2>1, <2>2
<1>5. ASSUME NEW t \in Threads, ThrowAndCatch(t)
      PROVE  Typed' /\ CallInv' /\ FlowInv'
  <2>1. /\ UNCHANGED <<calls, timeline, request_seq, context, dumping, merged, completed>>
        /\ now' = now + 1 /\ Typed'
    BY <1>1, <1>5, CatchShape
  <2>2. now' \in Nat /\ now' >= now
    BY <1>0, <2>1
  <2>3. CallInv'
    BY <2>1, <2>2, CallsStay
  <2>4. ASSUME NEW u \in Threads
        PROVE  Flows(u)'
    <3>1. Flows(u)
      BY <1>1
    <3>2. \A k \in 1 .. Len(timeline[u].spans) :
            timeline[u].spans[k].end < now => timeline[u].spans[k].end < now'
      <4>1. \A k \in 1 .. Len(timeline[u].spans) : timeline[u].spans[k].end \in Nat
        BY StackTypes DEF Span
      <4>. QED
        BY <1>0, <2>1, <4>1
    <3>3. /\ InRequest(u)' <=> InRequest(u)
          /\ Current(u)' = Current(u) /\ Depth(u)' = Depth(u) /\ CallsOf(Current(u))' = CallsOf(Current(u))
          /\ Mirrored(u)' <=> Mirrored(u)
      BY <2>1 DEF InRequest, Current, Depth, CallsOf, Mirrored
    <3>4. TimelineFollows(u)' /\ SpansAreOwn(u)' /\ ContextIsOwn(u)'
      <4>1. TimelineFollows(u)'
        BY <2>1, <3>1, <3>3 DEF Flows, TimelineFollows
      <4>2. SpansAreOwn(u)'
        BY <2>1, <3>1, <3>3 DEF Flows, SpansAreOwn, CallOfRequest
      <4>3. ContextIsOwn(u)'
        BY <2>1, <3>1, <3>3 DEF Flows, ContextIsOwn, Captured
      <4>. QED
        BY <4>1, <4>2, <4>3
    <3>5. TimelineMirrors(u)'
      BY <2>1, <3>1, <3>2, <3>3 DEF Flows, TimelineMirrors, SpanTimes, CallTimes, EndsIncrease,
                                    Disturbed
    <3>. QED
      BY <3>4, <3>5 DEF Flows
  <2>. QED
    BY <2>1, <2>3, <2>4 DEF FlowInv
<1>6. ASSUME NEW t \in Threads, Unwind(t)
      PROVE  Typed' /\ CallInv' /\ FlowInv'
  <2>1. /\ CallIsOver(t, TRUE) /\ Innermost(t).method.stage # "TOMCAT"
        /\ UNCHANGED <<timeline, context, dumping>> /\ dumping[t] = NoRequest /\ Typed'
    BY <1>6, UnwindShape
  <2>2. Flows(t)'
    BY <1>1, <2>1, UnwindFlow
  <2>3. OthersKeep(t)
    BY <2>1 DEF OthersKeep, CallIsOver
  <2>. QED
    BY <1>3, <2>1, <2>2, <2>3
<1>7. ASSUME NEW t \in Threads, writeMergedRequest(t)
      PROVE  Typed' /\ CallInv' /\ FlowInv'
  <2>1. UNCHANGED <<calls, now, completed>> /\ OthersKeep(t) /\ Typed'
    BY <1>7, WriteShape
  <2>2. now' \in Nat /\ now' >= now
    BY <1>0, <2>1
  <2>3. CallInv'
    BY <2>1, <2>2, CallsStay
  <2>4. Flows(t)'
    BY <1>1, <1>7, WriteFlow
  <2>5. \A u \in Threads : u # t => Flows(u)'
    BY <1>1, <2>1, <2>2, OthersFlow
  <2>. QED
    BY <2>1, <2>3, <2>4, <2>5 DEF FlowInv
<1>8. CASE UNCHANGED jvmVars
  <2>1. /\ UNCHANGED <<calls, timeline, request_seq, context, dumping, merged, now, completed>>
    BY <1>8 DEF jvmVars
  <2>2. Typed' /\ CallInv'
    <3>1. now' \in Nat /\ now' >= now
      BY <1>0, <2>1
    <3>. QED
      BY <2>1, <3>1, CallsStay DEF Typed
  <2>3. FlowInv'
    BY <2>1 DEF FlowInv, Flows, TimelineFollows, SpansAreOwn, ContextIsOwn, TimelineMirrors,
                InRequest, Current, Depth, CallOfRequest, CallsOf, Captured, Mirrored,
                SpanTimes, CallTimes, EndsIncrease, Disturbed
  <2>. QED
    BY <2>2, <2>3
<1>. QED
  BY <1>2, <1>4, <1>5, <1>6, <1>7, <1>8 DEF JvmNext

LEMMA FlowsBegin ==
  ASSUME JvmInit
  PROVE  Typed /\ CallInv /\ FlowInv
<1>1. /\ calls = [t \in Threads |-> <<>>] /\ completed = {} /\ now = 0
      /\ timeline = [t \in Threads |-> IdleTimeline] /\ request_seq = 1
      /\ context = [t \in Threads |-> NoRequest] /\ dumping = [t \in Threads |-> NoRequest]
      /\ merged = <<>>
  BY DEF JvmInit
<1>2. /\ <<>> \in Seq(Call) /\ <<>> \in Seq(Written) /\ <<>> \in Seq(Span) /\ Len(<<>>) = 0
  BY EmptySeq
<1>3. IdleTimeline \in Flow /\ IdleTimeline.active = FALSE
  BY <1>2 DEF IdleTimeline, Flow
<1>4. Typed
  BY <1>1, <1>2, <1>3 DEF Typed
<1>5. CallInv
  BY <1>1, <1>2 DEF CallInv, CallsAreDistinct, CallsAreNested, OneThreadPerRequest, Depth
<1>6. FlowInv
  BY <1>1, <1>3 DEF FlowInv, Flows, InRequest, TimelineFollows, SpansAreOwn, ContextIsOwn,
                    TimelineMirrors
<1>. QED
  BY <1>4, <1>5, <1>6

-----------------------------------------------------------------------------
(* Records say what the request was.                                       *)

LEMMA OverAfter ==
  ASSUME Typed, CallInv, NEW t \in Threads, NEW request \in Nat, Over(request),
         \/ \E m \in Methods : CallBegins(t, m)
         \/ \E unwound \in BOOLEAN : CallIsOver(t, unwound)
         \/ UNCHANGED <<calls, completed>> /\ now' \in Nat /\ now' >= now
  PROVE  Over(request)' /\ CallsOf(request)' = CallsOf(request)
<1>0. now \in Nat
  BY DEF Typed
<1>1. ASSUME NEW m \in Methods, CallBegins(t, m)
      PROVE  Over(request)' /\ CallsOf(request)' = CallsOf(request)
  <2>1. request < now' /\ request # now
    BY <1>0, <1>1 DEF Over, CallBegins
  <2>2. ASSUME NEW u \in Threads, calls'[u] # <<>>
        PROVE  Current(u)' # request
    <3>0. Len(calls[t]) \in Nat /\ (calls[t] = <<>> <=> Len(calls[t]) = 0)
      BY Types
    <3>1. CASE u # t
      BY <1>1, <2>2, <3>1 DEF CallBegins, Over, Current
    <3>2. CASE u = t /\ calls[t] = <<>>
      BY <1>1, <2>1, <3>0, <3>2 DEF CallBegins, Current
    <3>3. CASE u = t /\ calls[t] # <<>>
      <4>1. 1 \in 1 .. Len(calls[t])
        BY <3>0, <3>3
      <4>. QED
        BY <1>1, <3>3, <4>1 DEF CallBegins, Current, Over
    <3>. QED
      BY <3>1, <3>2, <3>3
  <2>. QED
    BY <1>1, <2>1, <2>2 DEF Over, CallsOf, CallBegins
<1>2. ASSUME NEW unwound \in BOOLEAN, CallIsOver(t, unwound)
      PROVE  Over(request)' /\ CallsOf(request)' = CallsOf(request)
  <2>1. calls[t] # <<>> /\ Current(t) # request
    BY <1>2 DEF CallIsOver, Over
  <2>2. {c \in completed' : c.call.request = request} = CallsOf(request)
    BY <1>2, <2>1, CallsOfOthers
  <2>3. request < now'
    BY <1>0, <1>2 DEF Over, CallIsOver
  <2>4. ASSUME NEW u \in Threads, calls'[u] # <<>>
        PROVE  Current(u)' # request
    <3>1. CASE u # t
      BY <1>2, <2>4, <3>1 DEF CallIsOver, Over, Current
    <3>2. CASE u = t
      <4>1. Len(calls[t]) # 1
        BY <1>2, <2>4, <3>2, EndedCall
      <4>2. Current(t)' = Current(t)
        BY <1>2, <4>1, EndedCall
      <4>. QED
        BY <2>1, <3>2, <4>2
    <3>. QED
      BY <3>1, <3>2
  <2>. QED
    BY <2>2, <2>3, <2>4 DEF Over, CallsOf
<1>3. CASE UNCHANGED <<calls, completed>> /\ now' \in Nat /\ now' >= now
  BY <1>0, <1>3 DEF Over, CallsOf, Current
<1>. QED
  BY <1>1, <1>2, <1>3

LEMMA StaysFaithful ==
  ASSUME Typed, CallInv, NEW t \in Threads, NEW r, Faithful(r),
         \/ \E m \in Methods : CallBegins(t, m)
         \/ \E unwound \in BOOLEAN : CallIsOver(t, unwound)
         \/ UNCHANGED <<calls, completed>> /\ now' \in Nat /\ now' >= now
  PROVE  Faithful(r)'
<1>1. PICK request \in Nat : /\ Over(request) /\ OfOneRequest(r, request)
                             /\ ~ Disturbed(request) => Whole(r, request)
  BY DEF Faithful
<1>2. Over(request)' /\ CallsOf(request)' = CallsOf(request)
  BY <1>1, OverAfter
<1>3. OfOneRequest(r, request)' /\ (~ Disturbed(request)' => Whole(r, request)')
  BY <1>1, <1>2 DEF OfOneRequest, Whole, Disturbed, CallTimes, SpanTimes, EndsIncrease
<1>. QED
  BY <1>2, <1>3 DEF Faithful

(* Tomcat's method returns, and the record of its request is dumped.       *)
LEMMA DumpIsFaithful ==
  ASSUME Typed, CallInv, NEW t \in Threads, Flows(t), NEW threw \in BOOLEAN,
         CallIsOver(t, FALSE), LeavesRequest(t, threw), OthersKeep(t)
  PROVE  Faithful(dumping[t])' /\ dumping'[t].thread = t
<1>. DEFINE request == Current(t)
            ended == {c \in completed' : c.call.request = Current(t)}
            spans == Append(timeline[t].spans, Finished(TopSpan(t), threw))
<1>0. PICK r : r = dumping'[t]
  OBVIOUS
<1>1. /\ InRequest(t) /\ calls[t] # <<>> /\ Len(calls[t]) = 1
      /\ Innermost(t).method.stage = "TOMCAT" /\ now' = now + 1
      /\ r.thread = t /\ r.spans = spans /\ r.total = now - timeline[t].start
      /\ r.context = context[t]
  BY <1>0 DEF LeavesRequest, Pops, InRequest, CallIsOver
<1>2. 1 \in 1 .. Len(calls[t]) /\ now \in Nat /\ request \in Nat /\ request < now
  <2>1. 1 \in Depth(t) /\ 1 \in 1 .. Len(calls[t])
    BY <1>1 DEF Depth
  <2>2. calls[t][1].start < now
    BY <2>1 DEF CallInv, CallsAreDistinct
  <2>. QED
    BY <2>1, <2>2, Types DEF Typed, Current
<1>3. /\ calls'[t] = <<>>
      /\ ended = CallsOf(Current(t)) \cup {EndedNow(t, FALSE)}
  BY <1>1, EndedCall
<1>5. \A u \in Threads : calls'[u] # <<>> => Current(u)' # request
  <2>1. ASSUME NEW u \in Threads, calls'[u] # <<>>
        PROVE  Current(u)' # request
    <3>1. u # t /\ calls[u] # <<>> /\ Current(u)' = Current(u)
      BY <1>3, <2>1 DEF OthersKeep, Current
    <3>. QED
      BY <1>1, <3>1, RequestsAreApart DEF CallInv
  <2>. QED
    BY <2>1
<1>6. PICK q \in Nat : q = Current(t)
  BY <1>2
<1>7. CallsOf(q)' = ended
  BY <1>6 DEF CallsOf
<1>8. Over(q)'
  BY <1>1, <1>2, <1>5, <1>6 DEF Over
<1>9. /\ timeline[t].spans \in Seq(Span) /\ Len(timeline[t].spans) \in Nat
      /\ Finished(TopSpan(t), threw) \in Span
      /\ CallOfRequest(t, Finished(TopSpan(t), threw).start)
      /\ \A k \in 1 .. Len(timeline[t].spans) : CallOfRequest(t, timeline[t].spans[k].start)
  BY <1>1, ClosedSpan, StackTypes DEF Flows, SpansAreOwn
<1>10. /\ Len(spans) = Len(timeline[t].spans) + 1 /\ spans # <<>>
       /\ spans[Len(spans)] = Finished(TopSpan(t), threw)
       /\ \A k \in 1 .. Len(spans) : \/ spans[k] = Finished(TopSpan(t), threw)
                                     \/ /\ k \in 1 .. Len(timeline[t].spans)
                                        /\ spans[k] = timeline[t].spans[k]
  <2>1. /\ spans # <<>> /\ Len(spans) = Len(timeline[t].spans) + 1
        /\ spans[Len(timeline[t].spans) + 1] = Finished(TopSpan(t), threw)
    BY <1>9, Pushed
  <2>2. \A k \in 1 .. Len(spans) :
              \/ k \in 1 .. Len(timeline[t].spans) /\ spans[k] = timeline[t].spans[k]
              \/ k = Len(timeline[t].spans) + 1 /\ spans[k] = Finished(TopSpan(t), threw)
    BY <1>9, SpanAdded
  <2>. HIDE DEF spans
  <2>. QED
    BY <2>1, <2>2
<1>11. OfOneRequest(r, q)'
  <2>1. \A k \in 1 .. Len(spans) : CallOfRequest(t, spans[k].start)
    <3>. HIDE DEF spans
    <3>. QED  BY <1>9, <1>10
  <2>2. \A start : CallOfRequest(t, start) => \E c \in ended : c.call.start = start
    <3>1. \A start : CallOfRequest(t, start) =>
            \/ \E k \in 1 .. Len(calls[t]) - 1 : calls'[t][k].start = start
            \/ \E c \in ended : c.call.start = start
      BY StillOwn
    <3>2. \A k \in 1 .. Len(calls[t]) - 1 : FALSE
      BY <1>1
    <3>. HIDE DEF ended
    <3>. QED  BY <3>1, <3>2
  <2>3. Captured(t) <=> \E c \in ended : Captures(c.call.method)
    <3>1. Captured(t) <=> \/ \E k \in 1 .. Len(calls[t]) - 1 : Captures(calls'[t][k].method)
                          \/ \E c \in ended : Captures(c.call.method)
      BY StillCaptured
    <3>2. \A k \in 1 .. Len(calls[t]) - 1 : FALSE
      BY <1>1
    <3>. HIDE DEF ended
    <3>. QED  BY <3>1, <3>2
  <2>4. context[t] = IF Captured(t) THEN Current(t) ELSE NoRequest
    BY <1>1 DEF Flows, ContextIsOwn
  <2>. HIDE DEF spans, ended
  <2>5. \A k \in 1 .. Len(r.spans) : \E c \in CallsOf(q)' : c.call.start = r.spans[k].start
    BY <1>1, <1>7, <2>1, <2>2
  <2>6. r.context = IF \E c \in CallsOf(q)' : Captures(c.call.method) THEN q ELSE NoRequest
    BY <1>1, <1>6, <1>7, <2>3, <2>4
  <2>. QED
    BY <1>1, <1>10, <2>5, <2>6 DEF OfOneRequest
<1>12. ASSUME ~ Disturbed(q)'
       PROVE  Whole(r, q)'
  <2>1. ~ Disturbed(Current(t))
    <3>. HIDE DEF ended
    <3>. QED  BY <1>3, <1>7, <1>12 DEF Disturbed
  <2>2. /\ SpanTimes(spans) = {[method |-> c.call.method, start |-> c.call.start,
                                            end |-> c.end] : c \in ended}
        /\ EndsIncrease(spans)
    BY <1>1, <2>1, SpansFollowCalls
  <2>3. Last(spans).method.stage = "TOMCAT" /\ Last(spans).start = Current(t)
    <3>1. Mirrored(t)
      BY <1>1, <2>1 DEF Flows, TimelineMirrors
    <3>2. /\ Finished(TopSpan(t), threw).method = Innermost(t).method
          /\ Finished(TopSpan(t), threw).start = Innermost(t).start
      BY <1>1, <3>1, ClosedSpan
    <3>3. Innermost(t).start = Current(t)
      BY <1>1 DEF Innermost, Current
    <3>. HIDE DEF spans
    <3>. QED
      BY <1>1, <1>10, <3>2, <3>3 DEF Last
  <2>4. ASSUME NEW c \in ended
        PROVE  c.thread = t /\ c.end - Current(t) <= r.total
    <3>1. r.total = now - Current(t)
      BY <1>1 DEF Flows, TimelineFollows
    <3>2. CASE c \in CallsOf(Current(t))
      <4>1. c \in completed /\ c.call.request = Current(t)
        BY <3>2 DEF CallsOf
      <4>2. c.thread = t /\ c.end < now /\ c.end \in Nat
        BY <1>1, <4>1 DEF CallInv, OneThreadPerRequest, CallsAreDistinct, Typed, Ended
      <4>. QED
        BY <1>2, <3>1, <4>2
    <3>3. CASE c = EndedNow(t, FALSE)
      BY <1>2, <3>1, <3>3 DEF EndedNow
    <3>. QED
      BY <1>3, <3>2, <3>3
  <2>5. SpanTimes(r.spans)' = SpanTimes(spans) /\ EndsIncrease(r.spans)'
    BY <1>1, <2>2 DEF SpanTimes, EndsIncrease
  <2>6. CallTimes(q)' = {[method |-> c.call.method, start |-> c.call.start,
                          end |-> c.end] : c \in ended}
    BY <1>7 DEF CallTimes
  <2>. HIDE DEF spans, ended
  <2>. QED
    BY <1>1, <1>6, <1>7, <2>2, <2>3, <2>4, <2>5, <2>6 DEF Whole
<1>13. Faithful(r)'
  BY <1>8, <1>11, <1>12 DEF Faithful
<1>14. Faithful(dumping[t])'
  BY <1>0, <1>13 DEF Faithful, OfOneRequest, Whole, SpanTimes, EndsIncrease
<1>. QED
  BY <1>0, <1>1, <1>14

LEMMA DumpStaysFaithful ==
  ASSUME Typed, CallInv, NEW t \in Threads, NEW u \in Threads, dumping'[u] = dumping[u],
         Faithful(dumping[u]),
         \/ \E m \in Methods : CallBegins(t, m)
         \/ \E unwound \in BOOLEAN : CallIsOver(t, unwound)
         \/ UNCHANGED <<calls, completed>> /\ now' \in Nat /\ now' >= now
  PROVE  Faithful(dumping[u])'
<1>1. PICK r : r = dumping[u]
  OBVIOUS
<1>2. Faithful(r)
  BY <1>1
<1>3. Faithful(r)'
  BY <1>2, StaysFaithful
<1>. QED
  BY <1>1, <1>3 DEF Faithful, OfOneRequest, Whole, SpanTimes, EndsIncrease

LEMMA StaysUnchanged ==
  ASSUME Typed, CallInv, RecordsAreFaithful, NEW t \in Threads, UNCHANGED <<merged, dumping>>,
         \/ \E m \in Methods : CallBegins(t, m)
         \/ \E unwound \in BOOLEAN : CallIsOver(t, unwound)
         \/ UNCHANGED <<calls, completed>> /\ now' \in Nat /\ now' >= now
  PROVE  RecordsAreFaithful'
<1>1. Records' = Records
  BY DEF Records
<1>2. \A r \in Records : Faithful(r)'
  BY StaysFaithful DEF RecordsAreFaithful
<1>3. \A u \in Threads : dumping'[u] # NoRequest =>
         Faithful(dumping[u])' /\ dumping'[u].thread = u
  BY DumpStaysFaithful DEF RecordsAreFaithful
<1>. QED
  BY <1>1, <1>2, <1>3 DEF RecordsAreFaithful

LEMMA FaithfulKeep ==
  ASSUME Typed, CallInv, FlowInv, RecordsAreFaithful, [JvmNext]_jvmVars
  PROVE  RecordsAreFaithful'
<1>0. now \in Nat /\ \A t \in Threads : Flows(t)
  BY DEF Typed, FlowInv
<1>1. ASSUME NEW t \in Threads, NEW m \in Methods, enter(t, m)
      PROVE  RecordsAreFaithful'
  <2>1. CallBegins(t, m) /\ UNCHANGED <<merged, dumping>>
    BY <1>0, <1>1, EnterBegins, EnterShape
  <2>. QED
    BY <2>1, StaysUnchanged
<1>2. ASSUME NEW t \in Threads, NEW threw \in BOOLEAN, Leave(t, threw)
      PROVE  RecordsAreFaithful'
  <2>1. /\ CallIsOver(t, FALSE) /\ OthersKeep(t) /\ merged' = merged /\ dumping[t] = NoRequest
        /\ LeavesJob(t) \/ LeavesInner(t, threw) \/ LeavesRequest(t, threw)
    BY <1>0, <1>2, LeaveShape
  <2>2. Records' = Records
    BY <2>1 DEF Records
  <2>3. \A r \in Records : Faithful(r)'
    BY <2>1, StaysFaithful DEF RecordsAreFaithful
  <2>4. ASSUME NEW u \in Threads, dumping'[u] # NoRequest
        PROVE  Faithful(dumping[u])' /\ dumping'[u].thread = u
    <3>1. CASE u # t
      <4>1. dumping'[u] = dumping[u]
        BY <2>1, <3>1 DEF OthersKeep
      <4>2. Faithful(dumping[u]) /\ dumping[u].thread = u
        BY <2>4, <4>1 DEF RecordsAreFaithful
      <4>. QED
        BY <2>1, <4>1, <4>2, DumpStaysFaithful
    <3>2. CASE u = t
      <4>1. LeavesRequest(t, threw)
        BY <2>1, <2>4, <3>2 DEF LeavesJob, LeavesInner
      <4>. QED
        BY <1>0, <2>1, <3>2, <4>1, DumpIsFaithful
    <3>. QED
      BY <3>1, <3>2
  <2>. QED
    BY <2>2, <2>3, <2>4 DEF RecordsAreFaithful
<1>3. ASSUME NEW t \in Threads, ThrowAndCatch(t)
      PROVE  RecordsAreFaithful'
  <2>1. UNCHANGED <<calls, completed, merged, dumping>> /\ now' \in Nat /\ now' >= now
    <3>1. UNCHANGED <<calls, completed, merged, dumping>> /\ now' = now + 1
      BY <1>0, <1>3, CatchShape
    <3>. QED
      BY <1>0, <3>1
  <2>. QED
    BY <2>1, StaysUnchanged
<1>4. ASSUME NEW t \in Threads, Unwind(t)
      PROVE  RecordsAreFaithful'
  <2>1. CallIsOver(t, TRUE) /\ UNCHANGED <<merged, dumping>>
    BY <1>4, UnwindShape
  <2>. QED
    BY <2>1, StaysUnchanged
<1>5. ASSUME NEW t \in Threads, writeMergedRequest(t)
      PROVE  RecordsAreFaithful'
  <2>1. /\ UNCHANGED <<calls, now, completed>> /\ OthersKeep(t)
        /\ dumping[t] # NoRequest /\ dumping'[t] = NoRequest
        /\ Len(merged') = Len(merged) + 1 /\ merged'[Len(merged) + 1] = dumping[t]
        /\ Len(merged) \in Nat /\ \A k \in 1 .. Len(merged) : merged'[k] = merged[k]
    BY <1>5, WriteShape
  <2>2. UNCHANGED <<calls, completed>> /\ now' \in Nat /\ now' >= now
    BY <1>0, <2>1
  <2>3. \A r \in Records' : r \in Records \/ r = dumping[t]
    BY <2>1 DEF Records
  <2>4. Faithful(dumping[t])
    BY <2>1 DEF RecordsAreFaithful
  <2>5. \A r : Faithful(r) => Faithful(r)'
    BY <2>2, StaysFaithful
  <2>6. \A r \in Records' : Faithful(r)'
    <3>1. SUFFICES ASSUME NEW r \in Records'
                   PROVE  Faithful(r)'
      OBVIOUS
    <3>2. r \in Records \/ r = dumping[t]
      BY <2>3
    <3>3. Faithful(r)
      BY <2>4, <3>2 DEF RecordsAreFaithful
    <3>. QED
      BY <2>5, <3>3
  <2>7. ASSUME NEW u \in Threads, dumping'[u] # NoRequest
        PROVE  Faithful(dumping[u])' /\ dumping'[u].thread = u
    <3>1. u # t /\ dumping'[u] = dumping[u]
      BY <2>1, <2>7 DEF OthersKeep
    <3>2. Faithful(dumping[u]) /\ dumping[u].thread = u
      BY <2>7, <3>1 DEF RecordsAreFaithful
    <3>. QED
      BY <2>2, <3>1, <3>2, DumpStaysFaithful
  <2>. QED
    BY <2>6, <2>7 DEF RecordsAreFaithful
<1>6. CASE UNCHANGED jvmVars
  <2>1. UNCHANGED <<calls, completed, merged, dumping>> /\ now' \in Nat /\ now' >= now
    BY <1>0, <1>6 DEF jvmVars
  <2>2. ASSUME NEW r, Faithful(r)
        PROVE  Faithful(r)'
    <3>1. PICK request \in Nat : /\ Over(request) /\ OfOneRequest(r, request)
                                 /\ ~ Disturbed(request) => Whole(r, request)
      BY <2>2 DEF Faithful
    <3>2. Over(request)' /\ CallsOf(request)' = CallsOf(request)
      BY <1>6, <3>1 DEF jvmVars, Over, CallsOf, Current
    <3>3. OfOneRequest(r, request)' /\ (~ Disturbed(request)' => Whole(r, request)')
      BY <3>1, <3>2 DEF OfOneRequest, Whole, Disturbed, CallTimes, SpanTimes, EndsIncrease
    <3>. QED
      BY <3>2, <3>3 DEF Faithful
  <2>3. Records' = Records
    BY <2>1 DEF Records
  <2>4. \A u \in Threads : dumping'[u] # NoRequest =>
           Faithful(dumping[u])' /\ dumping'[u].thread = u
    BY <2>1, DumpStaysFaithful DEF RecordsAreFaithful
  <2>. QED
    BY <2>2, <2>3, <2>4 DEF RecordsAreFaithful
<1>. QED
  BY <1>1, <1>2, <1>3, <1>4, <1>5, <1>6 DEF JvmNext

-----------------------------------------------------------------------------
(* No number is given twice, and one record is written for every request.  *)

LEMMA IdsStay ==
  ASSUME Typed, Typed', IdsAreDistinct, merged' = merged, request_seq' >= request_seq,
         \A t \in Threads : Busy(t)' => Busy(t) /\ Id(t)' = Id(t)
  PROVE  IdsAreDistinct'
<1>1. /\ request_seq \in Nat /\ request_seq' \in Nat
      /\ \A k \in 1 .. Len(merged) : merged[k].id \in Nat
  <2>1. merged \in Seq(Written)
    BY DEF Typed
  <2>2. \A k \in 1 .. Len(merged) : merged[k] \in Written
    BY <2>1, ElementOfSeq
  <2>. QED
    BY <2>2 DEF Typed, Written
<1>2. \A t \in Threads : Id(t) \in Nat
  BY DEF Id, Typed, Flow, Written
<1>3. \A k \in 1 .. Len(merged') : merged'[k].id < request_seq'
  BY <1>1 DEF IdsAreDistinct
<1>4. \A j, k \in 1 .. Len(merged') : merged'[j].id = merged'[k].id => j = k
  BY DEF IdsAreDistinct
<1>5. ASSUME NEW t \in Threads, Busy(t)'
      PROVE  /\ Id(t)' < request_seq'
             /\ \A k \in 1 .. Len(merged') : merged'[k].id # Id(t)'
             /\ \A u \in Threads : Busy(u)' /\ Id(u)' = Id(t)' => u = t
  <2>1. Id(t) < request_seq
    BY <1>5 DEF IdsAreDistinct
  <2>2. Id(t)' = Id(t) /\ Busy(t)
    BY <1>5
  <2>3. Id(t)' < request_seq'
    BY <1>1, <1>2, <2>1, <2>2
  <2>4. \A k \in 1 .. Len(merged') : merged'[k].id # Id(t)'
    BY <2>2 DEF IdsAreDistinct
  <2>5. \A u \in Threads : Busy(u)' /\ Id(u)' = Id(t)' => u = t
    BY <2>2 DEF IdsAreDistinct
  <2>. QED
    BY <2>3, <2>4, <2>5
<1>. QED
  BY <1>3, <1>4, <1>5 DEF IdsAreDistinct

LEMMA IdsKeep ==
  ASSUME Typed, CallInv, FlowInv, IdsAreDistinct, [JvmNext]_jvmVars
  PROVE  IdsAreDistinct'
<1>0. Typed' /\ CallInv' /\ FlowInv' /\ request_seq \in Nat
  BY FlowsKeep DEF Typed
<1>1. \A t \in Threads : Flows(t) /\ Flows(t)'
  BY <1>0 DEF FlowInv
<1>2. \A t \in Threads : /\ Busy(t) <=> timeline[t].active \/ dumping[t] # NoRequest
                         /\ Busy(t)' <=> timeline'[t].active \/ dumping'[t] # NoRequest
  BY <1>1 DEF Busy, Flows, TimelineFollows
<1>3. ASSUME NEW t \in Threads, OthersKeep(t),
             Busy(t)' => Busy(t) /\ Id(t)' = Id(t)
      PROVE  \A u \in Threads : Busy(u)' => Busy(u) /\ Id(u)' = Id(u)
  BY <1>2, <1>3 DEF OthersKeep, Id
<1>4. ASSUME NEW t \in Threads, NEW m \in Methods, enter(t, m)
      PROVE  IdsAreDistinct'
  <2>1. /\ OthersKeep(t) /\ UNCHANGED <<dumping, merged>> /\ dumping[t] = NoRequest
        /\ Opens(t, m) \/ Pushes(t, m) \/ PassesBy(t, m)
    BY <1>1, <1>4, EnterShape
  <2>2. CASE Pushes(t, m) \/ PassesBy(t, m)
    <3>1. request_seq' >= request_seq
      BY <1>0, <2>2 DEF Pushes, PassesBy
    <3>2. Busy(t)' => Busy(t) /\ Id(t)' = Id(t)
      BY <1>2, <2>1, <2>2 DEF Pushes, PassesBy, Id, Busy
    <3>. QED
      BY <1>0, <1>3, <2>1, <3>1, <3>2, IdsStay
  <2>3. CASE Opens(t, m)
    <3>1. request_seq' = request_seq + 1 /\ Id(t)' = request_seq
      BY <2>1, <2>3 DEF Opens, Id
    <3>2. \A u \in Threads : u # t => Id(u)' = Id(u) /\ (Busy(u)' <=> Busy(u))
      BY <1>2, <2>1 DEF OthersKeep, Id
    <3>3. \A u \in Threads : Id(u) \in Nat
      BY DEF Id, Typed, Flow, Written
    <3>4. \A k \in 1 .. Len(merged) : merged[k].id \in Nat
      <4>1. merged \in Seq(Written)
        BY DEF Typed
      <4>2. \A k \in 1 .. Len(merged) : merged[k] \in Written
        BY <4>1, ElementOfSeq
      <4>. QED
        BY <4>2 DEF Written
    <3>5. \A k \in 1 .. Len(merged) : /\ merged[k].id < request_seq'
                                      /\ merged[k].id # request_seq
      <4>1. \A k \in 1 .. Len(merged) : merged[k].id < request_seq
        BY DEF IdsAreDistinct
      <4>. QED
        BY <1>0, <3>1, <3>4, <4>1
    <3>6. \A u \in Threads : u # t /\ Busy(u)' => Id(u)' < request_seq' /\ Id(u)' # request_seq
      <4>1. \A u \in Threads : Busy(u) => Id(u) < request_seq
        BY DEF IdsAreDistinct
      <4>. QED
        BY <1>0, <3>1, <3>2, <3>3, <4>1
    <3>7. request_seq < request_seq'
      BY <1>0, <3>1
    <3>8. \A j, k \in 1 .. Len(merged) : merged[j].id = merged[k].id => j = k
      BY DEF IdsAreDistinct
    <3>9. ASSUME NEW u \in Threads, Busy(u)'
          PROVE  /\ Id(u)' < request_seq'
                 /\ \A k \in 1 .. Len(merged) : merged[k].id # Id(u)'
                 /\ \A v \in Threads : Busy(v)' /\ Id(v)' = Id(u)' => v = u
      <4>1. CASE u = t
        BY <3>1, <3>5, <3>6, <3>7, <4>1
      <4>2. CASE u # t
        <5>1. Busy(u) /\ Id(u)' = Id(u)
          BY <3>2, <3>9, <4>2
        <5>2. \A k \in 1 .. Len(merged) : merged[k].id # Id(u)
          BY <5>1 DEF IdsAreDistinct
        <5>3. \A v \in Threads : Busy(v) /\ Id(v) = Id(u) => v = u
          BY <5>1 DEF IdsAreDistinct
        <5>. QED
          BY <3>1, <3>2, <3>6, <3>9, <4>2, <5>1, <5>2, <5>3
      <4>. QED
        BY <4>1, <4>2
    <3>. QED
      BY <2>1, <3>5, <3>8, <3>9 DEF IdsAreDistinct
  <2>. QED
    BY <2>1, <2>2, <2>3
<1>5. ASSUME NEW t \in Threads, NEW threw \in BOOLEAN, Leave(t, threw)
      PROVE  IdsAreDistinct'
  <2>1. /\ OthersKeep(t) /\ UNCHANGED <<request_seq, merged>> /\ dumping[t] = NoRequest
        /\ LeavesJob(t) \/ LeavesInner(t, threw) \/ LeavesRequest(t, threw)
    BY <1>1, <1>5, LeaveShape
  <2>2. Busy(t)' => Busy(t) /\ Id(t)' = Id(t)
    <3>1. CASE LeavesJob(t)
      BY <1>2, <3>1 DEF LeavesJob, Id
    <3>2. CASE LeavesInner(t, threw)
      BY <1>2, <2>1, <3>2 DEF LeavesInner, Pops, Id, Busy
    <3>3. CASE LeavesRequest(t, threw)
      <4>1. dumping'[t] # NoRequest /\ dumping'[t].id = timeline[t].id
        BY <3>3, NoRequestAssumption DEF LeavesRequest
      <4>. QED
        BY <2>1, <3>3, <4>1 DEF LeavesRequest, Pops, Id, Busy
    <3>. QED
      BY <2>1, <3>1, <3>2, <3>3
  <2>3. request_seq' >= request_seq
    BY <1>0, <2>1
  <2>. QED
    BY <1>0, <1>3, <2>1, <2>2, <2>3, IdsStay
<1>6. ASSUME NEW t \in Threads, writeMergedRequest(t)
      PROVE  IdsAreDistinct'
  <2>. DEFINE n == Len(merged)
  <2>1. /\ OthersKeep(t) /\ dumping[t] # NoRequest /\ dumping'[t] = NoRequest
        /\ ~ timeline'[t].active /\ request_seq' = request_seq
        /\ Len(merged') = n + 1 /\ merged'[n + 1] = dumping[t]
        /\ n \in Nat /\ \A k \in 1 .. n : merged'[k] = merged[k]
    BY <1>6, WriteShape
  <2>. HIDE DEF n
  <2>2. Busy(t) /\ Id(t) = dumping[t].id /\ ~ Busy(t)'
    BY <1>2, <2>1 DEF Busy, Id
  <2>3. \A u \in Threads : u # t => Id(u)' = Id(u) /\ (Busy(u)' <=> Busy(u))
    BY <1>2, <2>1 DEF OthersKeep, Id
  <2>4. \A k \in 1 .. Len(merged') : \/ k \in 1 .. n /\ merged'[k] = merged[k]
                                     \/ k = n + 1 /\ merged'[k].id = Id(t)
    BY <2>1, <2>2
  <2>5. /\ \A k \in 1 .. n : merged[k].id < request_seq /\ merged[k].id # Id(t)
        /\ \A j, k \in 1 .. n : merged[j].id = merged[k].id => j = k
        /\ Id(t) < request_seq
    BY <2>2 DEF IdsAreDistinct, n
  <2>6. \A k \in 1 .. Len(merged') : merged'[k].id < request_seq'
    BY <2>1, <2>4, <2>5
  <2>7. \A j, k \in 1 .. Len(merged') : merged'[j].id = merged'[k].id => j = k
    BY <2>4, <2>5
  <2>8. ASSUME NEW u \in Threads, Busy(u)'
        PROVE  /\ Id(u)' < request_seq'
               /\ \A k \in 1 .. Len(merged') : merged'[k].id # Id(u)'
               /\ \A v \in Threads : Busy(v)' /\ Id(v)' = Id(u)' => v = u
    <3>1. u # t /\ Busy(u) /\ Id(u)' = Id(u)
      BY <2>2, <2>3, <2>8
    <3>2. /\ Id(u) < request_seq
          /\ \A k \in 1 .. n : merged[k].id # Id(u)
          /\ \A v \in Threads : Busy(v) /\ Id(v) = Id(u) => v = u
      BY <3>1 DEF IdsAreDistinct, n
    <3>3. Id(t) # Id(u)
      BY <2>2, <3>1, <3>2
    <3>4. \A k \in 1 .. Len(merged') : merged'[k].id # Id(u)'
      BY <2>4, <3>1, <3>2, <3>3
    <3>5. \A v \in Threads : Busy(v)' /\ Id(v)' = Id(u)' => v = u
      BY <2>2, <2>3, <3>1, <3>2
    <3>. QED
      BY <2>1, <3>1, <3>2, <3>4, <3>5
  <2>. QED
    BY <2>6, <2>7, <2>8 DEF IdsAreDistinct
<1>7. ASSUME UNCHANGED <<timeline, request_seq, dumping, merged>>
      PROVE  IdsAreDistinct'
  <2>1. \A u \in Threads : Busy(u)' => Busy(u) /\ Id(u)' = Id(u)
    BY <1>2, <1>7 DEF Id
  <2>2. request_seq' >= request_seq
    BY <1>0, <1>7
  <2>. QED
    BY <1>0, <1>7, <2>1, <2>2, IdsStay
<1>8. ASSUME NEW t \in Threads, ThrowAndCatch(t) \/ Unwind(t)
      PROVE  UNCHANGED <<timeline, request_seq, dumping, merged>>
  BY <1>1, <1>8, CatchShape, UnwindShape
<1>9. CASE UNCHANGED jvmVars
  BY <1>7, <1>9 DEF jvmVars
<1>. QED
  BY <1>4, <1>5, <1>6, <1>7, <1>8, <1>9 DEF JvmNext

LEMMA CountsStay ==
  ASSUME RecordsAreCounted, NEW t \in Threads, merged' = merged, dumping'[t] = dumping[t],
         RequestsOf(t)' = RequestsOf(t)
  PROVE  /\ IsFiniteSet(RecordsOf(t)') /\ IsFiniteSet(RequestsOf(t)')
         /\ Cardinality(RequestsOf(t)') =
              Cardinality(RecordsOf(t)') + IF dumping'[t] = NoRequest THEN 0 ELSE 1
<1>1. RecordsOf(t)' = RecordsOf(t)
  BY DEF RecordsOf, Records
<1>. QED
  BY <1>1 DEF RecordsAreCounted

(* The ended call of a method that is not Tomcat's is no request.          *)
LEMMA RequestsStay ==
  ASSUME NEW t \in Threads, NEW u \in Threads,
         NEW unwound \in BOOLEAN, CallIsOver(t, unwound),
         u # t \/ Innermost(t).method.stage # "TOMCAT"
  PROVE  RequestsOf(u)' = RequestsOf(u)
<1>1. completed' = completed \cup {EndedNow(t, unwound)}
  BY DEF CallIsOver
<1>2. /\ EndedNow(t, unwound).thread = t
      /\ EndedNow(t, unwound).call.method = Innermost(t).method
  BY DEF EndedNow
<1>. HIDE DEF EndedNow
<1>. QED
  BY <1>1, <1>2 DEF RequestsOf

LEMMA CountsKeep ==
  ASSUME Typed, CallInv, FlowInv, RecordInv, [JvmNext]_jvmVars
  PROVE  RecordsAreCounted'
<1>0. \A t \in Threads : Flows(t)
  BY DEF FlowInv
<1>. DEFINE Count(u) == /\ IsFiniteSet(RecordsOf(u)) /\ IsFiniteSet(RequestsOf(u))
                        /\ Cardinality(RequestsOf(u)) =
                             Cardinality(RecordsOf(u)) + IF dumping[u] = NoRequest THEN 0 ELSE 1
<1>. HIDE DEF Count
<1>1. RecordsAreCounted /\ \A u \in Threads : Count(u)
  BY DEF RecordInv, RecordsAreCounted, Count
<1>2. ASSUME merged' = merged, NEW u \in Threads, dumping'[u] = dumping[u],
             RequestsOf(u)' = RequestsOf(u)
      PROVE  Count(u)'
  BY <1>1, <1>2, CountsStay DEF Count
<1>3. ASSUME UNCHANGED <<merged, dumping, completed>>
      PROVE  \A u \in Threads : Count(u)'
  <2>1. \A u \in Threads : RequestsOf(u)' = RequestsOf(u)
    BY <1>3 DEF RequestsOf
  <2>. QED
    BY <1>2, <1>3, <2>1
<1>4. ASSUME NEW t \in Threads, NEW m \in Methods, enter(t, m)
      PROVE  \A u \in Threads : Count(u)'
  BY <1>3, <1>4 DEF enter
<1>5. ASSUME NEW t \in Threads, ThrowAndCatch(t)
      PROVE  \A u \in Threads : Count(u)'
  BY <1>0, <1>3, <1>5, CatchShape
<1>6. ASSUME NEW t \in Threads, Unwind(t), NEW u \in Threads
      PROVE  Count(u)'
  <2>1. CallIsOver(t, TRUE) /\ Innermost(t).method.stage # "TOMCAT" /\ UNCHANGED <<merged, dumping>>
    BY <1>6, UnwindShape
  <2>2. RequestsOf(u)' = RequestsOf(u)
    BY <2>1, RequestsStay
  <2>. QED
    BY <1>2, <2>1, <2>2
<1>7. ASSUME NEW t \in Threads, NEW threw \in BOOLEAN, Leave(t, threw), NEW u \in Threads
      PROVE  Count(u)'
  <2>1. /\ CallIsOver(t, FALSE) /\ OthersKeep(t) /\ merged' = merged /\ dumping[t] = NoRequest
        /\ LeavesJob(t) \/ LeavesInner(t, threw) \/ LeavesRequest(t, threw)
    BY <1>0, <1>7, LeaveShape
  <2>2. CASE u # t
    <3>1. RequestsOf(u)' = RequestsOf(u)
      BY <2>1, <2>2, RequestsStay
    <3>. QED
      BY <1>2, <2>1, <2>2, <3>1 DEF OthersKeep
  <2>3. CASE u = t /\ (LeavesJob(t) \/ LeavesInner(t, threw))
    <3>1. Innermost(t).method.stage # "TOMCAT" /\ dumping'[t] = dumping[t]
      BY <2>3 DEF LeavesJob, LeavesInner
    <3>2. RequestsOf(t)' = RequestsOf(t)
      BY <2>1, <3>1, RequestsStay
    <3>. QED
      BY <1>2, <2>1, <2>3, <3>1, <3>2
  <2>4. CASE u = t /\ LeavesRequest(t, threw)
    <3>. DEFINE e == EndedNow(t, FALSE)
    <3>1. /\ Innermost(t).method.stage = "TOMCAT" /\ dumping'[t] # NoRequest
      BY <2>4, NoRequestAssumption DEF LeavesRequest
    <3>2. e.thread = t /\ e.call = Innermost(t) /\ completed' = completed \cup {e}
      BY <2>1 DEF EndedNow, CallIsOver
    <3>. HIDE DEF e
    <3>3. e \notin completed
      <4>1. Len(calls[t]) \in 1 .. Len(calls[t])
        BY <2>1, EndedCall
      <4>. QED
        BY <3>2, <4>1 DEF CallInv, CallsAreDistinct, Depth, Innermost
    <3>4. RequestsOf(t)' = RequestsOf(t) \cup {e} /\ e \notin RequestsOf(t)
      BY <3>1, <3>2, <3>3 DEF RequestsOf
    <3>5. RecordsOf(t)' = RecordsOf(t)
      BY <2>1 DEF RecordsOf, Records
    <3>6. /\ IsFiniteSet(RecordsOf(t)) /\ IsFiniteSet(RequestsOf(t))
          /\ Cardinality(RequestsOf(t)) = Cardinality(RecordsOf(t)) + 0
      BY <1>1, <2>1 DEF Count
    <3>7. /\ IsFiniteSet(RequestsOf(t) \cup {e})
          /\ Cardinality(RequestsOf(t) \cup {e}) = Cardinality(RequestsOf(t)) + 1
          /\ Cardinality(RecordsOf(t)) \in Nat
      BY <3>4, <3>6, FS_AddElement, FS_CardinalityType
    <3>. QED
      BY <2>4, <3>1, <3>4, <3>5, <3>6, <3>7 DEF Count
  <2>. QED
    BY <2>1, <2>2, <2>3, <2>4
<1>8. ASSUME NEW t \in Threads, writeMergedRequest(t), NEW u \in Threads
      PROVE  Count(u)'
  <2>. DEFINE n == Len(merged)
              r == dumping[t]
  <2>1. /\ OthersKeep(t) /\ r # NoRequest /\ dumping'[t] = NoRequest
        /\ completed' = completed
        /\ Len(merged') = n + 1 /\ merged'[n + 1] = r
        /\ n \in Nat /\ \A k \in 1 .. n : merged'[k] = merged[k]
    BY <1>8, WriteShape
  <2>2. r.thread = t
    BY <2>1 DEF RecordInv, RecordsAreFaithful
  <2>3. \A k \in 1 .. n : merged[k] # r
    <3>1. Busy(t) /\ Id(t) = r.id
      BY <2>1 DEF Busy, Id
    <3>. QED
      BY <3>1 DEF RecordInv, IdsAreDistinct
  <2>4. Records' = Records \cup {r} /\ r \notin Records
    <3>1. Records = {merged[k] : k \in 1 .. n} /\ Records' = {merged'[k] : k \in 1 .. n + 1}
      BY <2>1 DEF Records
    <3>. HIDE DEF n, r
    <3>2. /\ \A k \in 1 .. n + 1 : k \in 1 .. n \/ k = n + 1
          /\ \A k \in 1 .. n : k \in 1 .. n + 1
          /\ n + 1 \in 1 .. n + 1
      BY <2>1
    <3>. QED
      BY <2>1, <2>3, <3>1, <3>2
  <2>5. RequestsOf(u)' = RequestsOf(u)
    BY <2>1 DEF RequestsOf
  <2>. HIDE DEF r
  <2>6. CASE u # t
    <3>1. RecordsOf(u)' = RecordsOf(u) /\ dumping'[u] = dumping[u]
      BY <2>1, <2>2, <2>4, <2>6 DEF RecordsOf, OthersKeep
    <3>. QED
      BY <1>1, <2>5, <3>1 DEF Count
  <2>7. CASE u = t
    <3>1. RecordsOf(t)' = RecordsOf(t) \cup {r} /\ r \notin RecordsOf(t)
      BY <2>2, <2>4 DEF RecordsOf
    <3>2. /\ IsFiniteSet(RecordsOf(t)) /\ IsFiniteSet(RequestsOf(t))
          /\ Cardinality(RequestsOf(t)) = Cardinality(RecordsOf(t)) + 1
      BY <1>1, <2>1 DEF Count, r
    <3>3. /\ IsFiniteSet(RecordsOf(t) \cup {r})
          /\ Cardinality(RecordsOf(t) \cup {r}) = Cardinality(RecordsOf(t)) + 1
          /\ Cardinality(RecordsOf(t)) \in Nat
      BY <3>1, <3>2, FS_AddElement, FS_CardinalityType
    <3>. QED
      BY <2>1, <2>5, <2>7, <3>1, <3>2, <3>3 DEF Count
  <2>. QED
    BY <2>6, <2>7
<1>9. ASSUME UNCHANGED jvmVars
      PROVE  \A u \in Threads : Count(u)'
  BY <1>3, <1>9 DEF jvmVars
<1>10. \A u \in Threads : Count(u)'
  BY <1>4, <1>5, <1>6, <1>7, <1>8, <1>9 DEF JvmNext
<1>. QED
  BY <1>10 DEF Count, RecordsAreCounted

-----------------------------------------------------------------------------
(* The agent's promises.                                                   *)

LEMMA RecordsBegin ==
  ASSUME JvmInit
  PROVE  RecordInv
<1>1. /\ merged = <<>> /\ completed = {} /\ calls = [t \in Threads |-> <<>>]
      /\ dumping = [t \in Threads |-> NoRequest] /\ Len(<<>>) = 0
  BY EmptySeq DEF JvmInit
<1>2. Records = {} /\ \A t \in Threads : ~ Busy(t) /\ dumping[t] = NoRequest
  BY <1>1 DEF Records, Busy, InRequest
<1>3. RecordsAreFaithful
  BY <1>2 DEF RecordsAreFaithful
<1>4. IdsAreDistinct
  BY <1>1, <1>2 DEF IdsAreDistinct
<1>5. RecordsAreCounted
  <2>1. \A t \in Threads : RecordsOf(t) = {} /\ RequestsOf(t) = {}
    BY <1>1, <1>2 DEF RecordsOf, RequestsOf
  <2>. QED
    BY <1>2, <2>1, FS_EmptySet DEF RecordsAreCounted
<1>. QED
  BY <1>3, <1>4, <1>5 DEF RecordInv

(* The calls of the threads, their timelines and the records agree.        *)
THEOREM TracerInvariant == JvmSpec => [](Typed /\ TracerInv)
<1>1. JvmInit => Typed /\ TracerInv
  BY FlowsBegin, RecordsBegin DEF TracerInv
<1>2. Typed /\ TracerInv /\ [JvmNext]_jvmVars => Typed' /\ TracerInv'
  BY FlowsKeep, FaithfulKeep, IdsKeep, CountsKeep DEF TracerInv, RecordInv
<1>. QED
  BY <1>1, <1>2, PTL DEF JvmSpec

(* FlowTimeline.pop() closes the span of the method that exits, as long as *)
(* no exception has left one of the request's methods.                     *)
THEOREM StackMirrors == JvmSpec => []StackMirrorsCalls
<1>1. Typed /\ TracerInv => StackMirrorsCalls
  <2>1. SUFFICES ASSUME Typed, TracerInv, NEW t \in Threads, timeline[t].active,
                        ~ (calls[t] # <<>> /\ Disturbed(Head(calls[t]).request))
                 PROVE  Mirrored(t)
    BY DEF StackMirrorsCalls, Mirrored, Depth
  <2>2. InRequest(t) /\ TimelineMirrors(t)
    BY <2>1 DEF TracerInv, FlowInv, Flows, TimelineFollows
  <2>3. calls[t] \in Seq(Call) /\ calls[t] # <<>> /\ 1 \in Depth(t)
    BY <2>1, <2>2, Types DEF InRequest, Depth
  <2>4. Head(calls[t]) = calls[t][1]
    BY <2>3
  <2>5. Head(calls[t]).request = Current(t)
    BY <2>1, <2>3, <2>4 DEF TracerInv, CallInv, CallsAreNested
  <2>. QED
    BY <2>1, <2>2, <2>3, <2>5 DEF TimelineMirrors
<1>. QED
  BY <1>1, TracerInvariant, PTL

(* What a record says of the request that a span's start leads to.         *)
LEMMA RequestOfSpan ==
  ASSUME TracerInv, NEW r \in Records
  PROVE  \E request : /\ OfOneRequest(r, request)
                      /\ ~ Disturbed(request) => Whole(r, request)
                      /\ \A k \in 1 .. Len(r.spans) : RequestOfCall(r.spans[k].start) = request
<1>1. PICK request \in Nat : /\ OfOneRequest(r, request)
                             /\ ~ Disturbed(request) => Whole(r, request)
  BY DEF TracerInv, RecordInv, RecordsAreFaithful, Faithful
<1>2. ASSUME NEW k \in 1 .. Len(r.spans)
      PROVE  RequestOfCall(r.spans[k].start) = request
  <2>1. PICK c \in CallsOf(request) : c.call.start = r.spans[k].start
    BY <1>1 DEF OfOneRequest
  <2>2. c \in completed /\ c.call.request = request
    BY <2>1 DEF CallsOf
  <2>3. \A d \in completed : d.call.start = r.spans[k].start => d = c
    BY <2>1, <2>2 DEF TracerInv, CallInv, CallsAreDistinct
  <2>4. (CHOOSE d \in completed : d.call.start = r.spans[k].start) = c
    BY <2>1, <2>2, <2>3
  <2>. QED
    BY <2>2, <2>4 DEF RequestOfCall
<1>. QED
  BY <1>1, <1>2

(* No record holds spans or headers of two requests, also when exceptions  *)
(* left spans on the stack of a timeline.                                  *)
THEOREM RequestsStayApart == JvmSpec => []RequestsNeverMix
<1>1. TracerInv => RequestsNeverMix
  <2>1. SUFFICES ASSUME TracerInv, NEW r \in Records,
                        NEW j \in 1 .. Len(r.spans), NEW k \in 1 .. Len(r.spans)
                 PROVE  /\ RequestOfCall(r.spans[k].start) = RequestOfCall(r.spans[j].start)
                        /\ r.context \in {NoRequest, RequestOfCall(r.spans[j].start)}
    BY DEF RequestsNeverMix
  <2>2. PICK request : /\ OfOneRequest(r, request)
                       /\ \A i \in 1 .. Len(r.spans) : RequestOfCall(r.spans[i].start) = request
    BY <2>1, RequestOfSpan
  <2>. QED
    BY <2>2 DEF OfOneRequest
<1>. QED
  BY <1>1, TracerInvariant, PTL

(* The record of an undisturbed request holds one span for every call of   *)
(* it, with the call's times, and the request line captured from it.       *)
THEOREM RecordsTellRequests == JvmSpec => []RecordsAreRequests
<1>1. ASSUME Typed, TracerInv
      PROVE  RecordsAreRequests
  <2>1. ASSUME NEW r \in Records, ~ Disturbed(RequestOfCall(r.spans[1].start))
        PROVE  LET request == RequestOfCall(r.spans[1].start)
               IN  /\ Last(r.spans).method.stage = "TOMCAT" /\ Last(r.spans).start = request
                   /\ {[method |-> r.spans[k].method, start |-> r.spans[k].start,
                        end |-> r.spans[k].end] : k \in 1 .. Len(r.spans)}
                      = {[method |-> c.call.method, start |-> c.call.start,
                          end |-> c.end] : c \in CallsOf(request)}
                   /\ \A k \in 2 .. Len(r.spans) : r.spans[k - 1].end < r.spans[k].end
                   /\ \A c \in CallsOf(request) : c.thread = r.thread /\ c.end - request <= r.total
                   /\ r.context = IF \E c \in CallsOf(request) : Captures(c.call.method)
                                  THEN request ELSE NoRequest
    <3>1. PICK request : /\ OfOneRequest(r, request)
                         /\ ~ Disturbed(request) => Whole(r, request)
                         /\ \A k \in 1 .. Len(r.spans) : RequestOfCall(r.spans[k].start) = request
      BY <1>1, <2>1, RequestOfSpan
    <3>2. 1 \in 1 .. Len(r.spans)
      <4>1. merged \in Seq(Written)
        BY <1>1 DEF Typed
      <4>2. r \in Written
        BY <2>1, <4>1, ElementOfSeq DEF Records
      <4>3. r.spans \in Seq(Span) /\ r.spans # <<>>
        BY <3>1, <4>2 DEF Written, OfOneRequest
      <4>4. Len(r.spans) \in Nat /\ Len(r.spans) # 0
        BY <4>3, NotEmpty
      <4>. QED
        BY <4>4
    <3>3. RequestOfCall(r.spans[1].start) = request
      BY <3>1, <3>2
    <3>4. Whole(r, request)
      BY <2>1, <3>1, <3>3
    <3>. QED
      BY <3>1, <3>3, <3>4 DEF Whole, OfOneRequest, SpanTimes, CallTimes, EndsIncrease
  <2>2. \A r, q \in Records : r.id = q.id => r = q
    BY <1>1 DEF TracerInv, RecordInv, IdsAreDistinct, Records
  <2>. QED
    BY <2>1, <2>2 DEF RecordsAreRequests
<1>. QED
  BY <1>1, TracerInvariant, PTL

(* One record is written for every request that has left Tomcat's method.  *)
THEOREM OneRecordPerRequest == JvmSpec => []EveryRequestRecorded
<1>1. TracerInv => EveryRequestRecorded
  <2>1. SUFFICES ASSUME TracerInv, NEW t \in Threads, dumping[t] = NoRequest
                 PROVE  Cardinality(RecordsOf(t)) = Cardinality(RequestsOf(t))
    BY DEF EveryRequestRecorded, RecordsOf, RequestsOf
  <2>2. IsFiniteSet(RecordsOf(t)) /\ Cardinality(RequestsOf(t)) = Cardinality(RecordsOf(t)) + 0
    BY <2>1 DEF TracerInv, RecordInv, RecordsAreCounted
  <2>3. Cardinality(RecordsOf(t)) \in Nat
    BY <2>2, FS_CardinalityType
  <2>. QED
    BY <2>2, <2>3
<1>. QED
  BY <1>1, TracerInvariant, PTL
=============================================================================
