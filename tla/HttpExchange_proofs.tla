------------------------ MODULE HttpExchange_proofs ------------------------
(***************************************************************************)
(* What the client does with its socket, for requests and responses of     *)
(* every length and content, in pieces of every size: the request is sent  *)
(* once and whole, and what is received is stored in order and inside the  *)
(* buffer.                                                                 *)
(***************************************************************************)
EXTENDS HttpExchange, SequenceTheorems, NaturalsInduction, WellFoundedInduction, TLAPS

Symbols == Seq(Symbol)

(* Everything the client has received so far. *)
Got == (buffer \o chunk) \o queue

(* The inductive invariant of the loop.  BufferFits says that Got is a     *)
(* prefix of the response; to see that it stays one when more arrives, the *)
(* invariant names the rest: what is still unsent, or what was lost with a *)
(* server that broke off.  recv() overwrites the chunk, so a chunk must be *)
(* stored before the loop returns to recv().                               *)
ReaderInv ==
  /\ response.text \in Symbols
  /\ buffer \in Symbols /\ chunk \in Symbols /\ queue \in Symbols /\ unsent \in Symbols
  /\ capacity \in Nat /\ Len(buffer) < capacity
  /\ reader \in {"idle", "recv"} => chunk = <<>>
  /\ peer = "open" => Got \o unsent = response.text
  /\ \E rest \in Symbols : Got \o rest = response.text

-----------------------------------------------------------------------------
(* Lemmas about cutting and joining.                                       *)

LEMMA CutInTwo ==
  ASSUME NEW s \in Symbols, NEW n \in 0 .. Len(s)
  PROVE  /\ SubSeq(s, 1, n) \in Symbols /\ From(s, n + 1) \in Symbols
         /\ SubSeq(s, 1, n) \o From(s, n + 1) = s
<1>1. Len(s) \in Nat /\ \A k \in 1 .. Len(s) : s[k] \in Symbol
  BY LenProperties, ElementOfSeq DEF Symbols
<1>2. SubSeq(s, 1, n) \in Symbols
  BY <1>1, SubSeqProperties DEF Symbols
<1>3. SubSeq(s, n + 1, Len(s)) \in Symbols
  BY <1>1, SubSeqProperties DEF Symbols
<1>4. SubSeq(s, 1, n) \o SubSeq(s, n + 1, Len(s)) = SubSeq(s, 1, Len(s))
  <2>1. /\ 1 \in 1 .. Len(s) + 1
        /\ n \in 1 - 1 .. Len(s)
        /\ Len(s) \in n .. Len(s)
    BY <1>1
  <2>. QED
    BY <2>1, ConcatAdjacentSubSeq, Zenon DEF Symbols
<1>5. SubSeq(s, 1, Len(s)) = s
  BY SubSeqFull DEF Symbols
<1>. QED
  BY <1>2, <1>3, <1>4, <1>5 DEF From

LEMMA BeginningOfWhole ==
  ASSUME NEW s \in Symbols, NEW t \in Symbols
  PROVE  Len(s) <= Len(s \o t) /\ s = SubSeq(s \o t, 1, Len(s))
<1>1. /\ Len(s) \in Nat /\ Len(t) \in Nat
      /\ s \o t \in Symbols
      /\ Len(s \o t) = Len(s) + Len(t)
  BY LenProperties, ConcatProperties DEF Symbols
<1>2. CASE Len(s) = 0
  <2>1. s = <<>>
    BY <1>2, EmptySeq DEF Symbols
  <2>2. SubSeq(s \o t, 1, 0) = <<>>
    BY SubSeqEmpty
  <2>. QED
    BY <1>1, <1>2, <2>1, <2>2
<1>3. CASE Len(s) > 0
  <2>1. SubSeq(s \o t, 1, Len(s)) = SubSeq(s, 1, Len(s))
    BY <1>1, <1>3, SubSeqOfConcat1 DEF Symbols
  <2>. QED
    BY <1>1, <2>1, SubSeqFull DEF Symbols
<1>. QED
  BY <1>1, <1>2, <1>3

LEMMA Joined ==
  ASSUME NEW s \in Symbols, NEW t \in Symbols
  PROVE  s \o t \in Symbols /\ Len(s \o t) = Len(s) + Len(t)
  BY ConcatProperties DEF Symbols

LEMMA Regrouped ==
  ASSUME NEW s \in Symbols, NEW t \in Symbols, NEW u \in Symbols
  PROVE  (s \o t) \o u = s \o (t \o u)
  BY ConcatAssociative DEF Symbols

LEMMA NothingAdded ==
  ASSUME NEW s \in Symbols
  PROVE  s \o <<>> = s /\ <<>> \in Symbols /\ Len(s) \in Nat
  BY ConcatEmptySeq, EmptySeq, LenProperties DEF Symbols

-----------------------------------------------------------------------------
LEMMA ReaderInitInv == ReaderInit => ReaderInv
<1>. SUFFICES ASSUME ReaderInit PROVE ReaderInv
  OBVIOUS
<1>1. response.text \in Symbols
  BY ReaderAssumption DEF ReaderInit, Response, Symbols
<1>2. Got = <<>> /\ <<>> \o response.text = response.text
  BY <1>1, NothingAdded, ConcatEmptySeq DEF ReaderInit, Got, Symbols
<1>3. INITIAL_CAPACITY \in Nat /\ INITIAL_CAPACITY > 0 /\ Len(<<>>) = 0
  BY ReaderAssumption
<1>. QED
  BY <1>1, <1>2, <1>3, NothingAdded DEF ReaderInit, ReaderInv

(* More of the response reaches the socket. *)
LEMMA ArriveInv ==
  ASSUME ReaderInv, NEW n \in 1 .. Len(unsent), Arrive(n)
  PROVE  ReaderInv'
<1>. DEFINE p == SubSeq(unsent, 1, n)
            r == From(unsent, n + 1)
<1>1. /\ p \in Symbols /\ r \in Symbols /\ p \o r = unsent
      /\ Got \in Symbols /\ Got \o unsent = response.text
      /\ buffer \o chunk \in Symbols
  <2>1. n \in 0 .. Len(unsent)
    BY NothingAdded DEF ReaderInv
  <2>. QED
    BY <2>1, CutInTwo, Joined DEF ReaderInv, Got, Arrive
<1>2. /\ queue' = queue \o p /\ unsent' = r
      /\ UNCHANGED <<response, peer, buffer, chunk, capacity, reader>>
  BY DEF Arrive, loopVars
<1>. HIDE DEF p, r
<1>3. Got' = Got \o p
  <2>1. Got' = (buffer \o chunk) \o (queue \o p)
    BY <1>2 DEF Got
  <2>2. ((buffer \o chunk) \o queue) \o p = (buffer \o chunk) \o (queue \o p)
    <3>1. buffer \o chunk \in Symbols /\ queue \in Symbols /\ p \in Symbols
      BY <1>1 DEF ReaderInv
    <3>. QED
      BY <3>1, Regrouped, Zenon
  <2>. QED
    BY <2>1, <2>2 DEF Got
<1>4. Got' \o unsent' = response.text
  BY <1>1, <1>2, <1>3, Regrouped
<1>5. queue' \in Symbols
  BY <1>1, <1>2, Joined DEF ReaderInv
<1>6. \E rest \in Symbols : (Got \o rest = response.text)'
  BY <1>1, <1>2, <1>4
<1>. QED
  BY <1>1, <1>2, <1>4, <1>5, <1>6 DEF ReaderInv

(* recv() moves the beginning of the queue into the empty chunk. *)
LEMMA RecvInv ==
  ASSUME ReaderInv, Recv
  PROVE  ReaderInv'
<1>1. PICK n \in 0 .. Len(queue) : /\ chunk' = SubSeq(queue, 1, n)
                                   /\ queue' = From(queue, n + 1)
  BY NothingAdded, ReaderAssumption DEF Recv, ReaderInv
<1>2. chunk' \in Symbols /\ queue' \in Symbols /\ chunk' \o queue' = queue
  BY <1>1, CutInTwo DEF ReaderInv
<1>3. Got = buffer \o queue
  BY NothingAdded DEF ReaderInv, Got, Recv
<1>4. Got' = Got
  <2>1. Got' = (buffer \o chunk') \o queue'
    BY DEF Got, Recv
  <2>2. (buffer \o chunk') \o queue' = buffer \o (chunk' \o queue')
    <3>1. buffer \in Symbols /\ chunk' \in Symbols /\ queue' \in Symbols
      BY <1>2 DEF ReaderInv
    <3>. QED
      BY <3>1, Regrouped, Zenon
  <2>. QED
    BY <1>2, <1>3, <2>1, <2>2
<1>5. UNCHANGED <<response, peer, unsent, buffer, capacity>> /\ reader' = "store"
  BY DEF Recv, peerVars
<1>6. (\E rest \in Symbols : Got \o rest = response.text)'
  BY <1>4, <1>5 DEF ReaderInv
<1>. QED
  BY <1>2, <1>4, <1>5, <1>6 DEF ReaderInv

(* The chunk moves into the buffer, which has room for it and the NUL. *)
LEMMA StoreInv ==
  ASSUME ReaderInv, Store
  PROVE  ReaderInv'
<1>1. /\ buffer' = buffer \o chunk /\ chunk' = <<>>
      /\ UNCHANGED <<response, peer, unsent, queue, capacity>>
      /\ Len(buffer) + Len(chunk) + 1 <= capacity
  BY DEF Store, peerVars, Fits
<1>2. /\ buffer' \in Symbols /\ Len(buffer') = Len(buffer) + Len(chunk)
      /\ Len(buffer) \in Nat /\ Len(chunk) \in Nat
      /\ chunk' \in Symbols
  BY <1>1, Joined, NothingAdded DEF ReaderInv
<1>3. Got' = Got
  BY <1>1, <1>2, NothingAdded DEF Got
<1>4. (\E rest \in Symbols : Got \o rest = response.text)'
  BY <1>1, <1>3 DEF ReaderInv
<1>5. Len(buffer') < capacity'
  BY <1>1, <1>2 DEF ReaderInv
<1>. QED
  BY <1>1, <1>2, <1>3, <1>4, <1>5 DEF ReaderInv

(* The steps that move no byte: the ends of the connection and of the      *)
(* loop, and the growing of the buffer.                                    *)
LEMMA QuietInv ==
  ASSUME ReaderInv,
         UNCHANGED <<response, buffer, chunk, queue>>,
         unsent' = unsent \/ peer' # "open",
         unsent' \in Symbols,
         peer' = "open" => peer = "open",
         capacity' \in Nat, capacity' >= capacity,
         reader' \in {"idle", "recv"} => reader \in {"idle", "recv"}
  PROVE  ReaderInv'
<1>1. Got' = Got
  BY DEF Got
<1>2. (\E rest \in Symbols : Got \o rest = response.text)'
  BY <1>1 DEF ReaderInv
<1>3. Len(buffer') < capacity' /\ Len(buffer) \in Nat
  BY NothingAdded DEF ReaderInv
<1>4. (peer = "open" => Got \o unsent = response.text)'
  BY <1>1 DEF ReaderInv
<1>. QED
  BY <1>2, <1>3, <1>4 DEF ReaderInv

LEMMA PeerEndsInv ==
  ASSUME ReaderInv, NEW how \in {"closed", "reset"}, PeerEnds(how)
  PROVE  ReaderInv'
<1>1. unsent' = <<>> /\ <<>> \in Symbols
  BY EmptySeq DEF PeerEnds, Symbols
<1>2. /\ UNCHANGED <<response, buffer, chunk, queue, capacity, reader>>
      /\ peer' # "open"
  BY DEF PeerEnds, loopVars
<1>3. capacity \in Nat
  BY DEF ReaderInv
<1>. QED
  BY <1>1, <1>2, <1>3, QuietInv

LEMMA LoopInv ==
  ASSUME ReaderInv, receive_response
  PROVE  ReaderInv'
<1>0. unsent \in Symbols /\ capacity \in Nat
  BY DEF ReaderInv
<1>1. CASE Recv
  BY <1>1, RecvInv
<1>2. CASE Store
  BY <1>2, StoreInv
<1>3. CASE Grow
  <2>1. /\ UNCHANGED <<response, peer, unsent, buffer, chunk, queue>>
        /\ capacity' = 2 * capacity /\ reader' = "grow"
    BY <1>3 DEF Grow, peerVars
  <2>2. capacity' \in Nat /\ capacity' >= capacity
    BY <1>0, <2>1
  <2>. QED
    BY <1>0, <2>1, <2>2, QuietInv
<1>4. CASE BeginReceive \/ RecvTimeout \/ RecvEnd \/ RecvError \/ ReallocFails
  <2>1. /\ UNCHANGED <<response, peer, unsent, buffer, chunk, queue, capacity>>
        /\ reader' \in {"idle", "recv"} => reader \in {"idle", "recv"}
    BY <1>4 DEF BeginReceive, RecvTimeout, RecvEnd, RecvError, ReallocFails, peerVars
  <2>. QED
    BY <1>0, <2>1, QuietInv
<1>. QED
  BY <1>1, <1>2, <1>3, <1>4 DEF receive_response

LEMMA ReaderStutters == ASSUME ReaderInv, UNCHANGED readerVars PROVE ReaderInv'
  BY DEF ReaderInv, Got, readerVars, peerVars, loopVars

LEMMA ReaderInvFits == ReaderInv => BufferFits
<1>. SUFFICES ASSUME ReaderInv PROVE BufferFits
  OBVIOUS
<1>1. Got \in Symbols
  BY Joined DEF ReaderInv, Got
<1>2. PICK rest \in Symbols : Got \o rest = response.text
  BY DEF ReaderInv
<1>3. Len(Got) <= Len(response.text) /\ Got = SubSeq(response.text, 1, Len(Got))
  BY <1>1, <1>2, BeginningOfWhole
<1>. QED
  BY <1>3 DEF BufferFits, ReaderInv, Got

-----------------------------------------------------------------------------
(* The request.  What has been accepted is the request up to sent_total.   *)
RequestInv ==
  /\ sent_total \in 0 .. REQ_LEN
  /\ taken = SubSeq(http_request, 1, sent_total)
  /\ stage \notin {"send", "exited"} => sent_total = REQ_LEN

LEMMA RequestIsASequence == http_request \in Seq(Int) /\ Len(http_request) = REQ_LEN
  BY ExchangeAssumption, SeqDef DEF http_request

LEMMA SendInv ==
  ASSUME RequestInv, NEW n \in 1 .. REQ_LEN, Send(n)
  PROVE  RequestInv'
<1>1. /\ sent_total \in 0 .. REQ_LEN /\ REQ_LEN \in Nat
      /\ n <= REQ_LEN - sent_total
      /\ sent_total' = sent_total + n
      /\ taken' = SubSeq(http_request, 1, sent_total)
                  \o SubSeq(http_request, sent_total + 1, sent_total + n)
      /\ stage' = IF sent_total + n = REQ_LEN THEN "snapshot" ELSE "send"
  BY ExchangeAssumption DEF RequestInv, Send
<1>2. /\ 1 \in 1 .. Len(http_request) + 1
      /\ sent_total \in 1 - 1 .. Len(http_request)
      /\ sent_total + n \in sent_total .. Len(http_request)
      /\ sent_total + n \in 0 .. REQ_LEN
  BY <1>1, RequestIsASequence
<1>3. taken' = SubSeq(http_request, 1, sent_total + n)
  BY <1>1, <1>2, RequestIsASequence, ConcatAdjacentSubSeq, Zenon
<1>. QED
  BY <1>1, <1>2, <1>3, RequestIsASequence DEF RequestInv

LEMMA RequestInvSent == RequestInv => RequestSentOnce
<1>. SUFFICES ASSUME RequestInv PROVE RequestSentOnce
  OBVIOUS
<1>0. REQ_LEN \in Nat /\ sent_total \in Nat
  BY ExchangeAssumption DEF RequestInv
<1>1. Len(taken) = sent_total
  <2>1. \A i \in 1 .. sent_total : http_request[i] \in Int
    BY <1>0 DEF http_request, RequestInv
  <2>2. Len(SubSeq(http_request, 1, sent_total))
          = IF 1 <= sent_total THEN sent_total - 1 + 1 ELSE 0
    BY <1>0, <2>1, SubSeqProperties
  <2>. QED
    BY <1>0, <2>2 DEF RequestInv
<1>2. SubSeq(http_request, 1, REQ_LEN) = http_request
  BY RequestIsASequence, SubSeqFull
<1>. QED
  BY <1>1, <1>2 DEF RequestInv, RequestSentOnce

-----------------------------------------------------------------------------
(* The exchange takes both together. *)
ExchangeInv == ReaderInv /\ RequestInv

LEMMA ExchangeInitInv == ExchangeInit => ExchangeInv
<1>. SUFFICES ASSUME ExchangeInit PROVE ExchangeInv
  OBVIOUS
<1>1. ReaderInv
  BY ReaderInitInv DEF ExchangeInit
<1>2. SubSeq(http_request, 1, 0) = <<>>
  BY SubSeqEmpty
<1>3. RequestInv
  BY <1>2, ExchangeAssumption DEF ExchangeInit, RequestInv
<1>. QED
  BY <1>1, <1>3 DEF ExchangeInv

LEMMA ExchangeNextInv == ExchangeInv /\ [ExchangeNext]_exchangeVars => ExchangeInv'
<1>. SUFFICES ASSUME ExchangeInv, [ExchangeNext]_exchangeVars PROVE ExchangeInv'
  OBVIOUS
<1>. USE DEF ExchangeInv
<1>1. CASE send_all
  <2>1. ReaderInv'
    BY <1>1, ReaderStutters DEF send_all, Send, SendFails
  <2>2. RequestInv'
    BY <1>1, SendInv DEF send_all, SendFails, RequestInv
  <2>. QED
    BY <2>1, <2>2
<1>2. CASE show_packet_headers_snapshot
  BY <1>2, ReaderStutters DEF show_packet_headers_snapshot, RequestInv
<1>3. CASE Capture
  BY <1>3, ReaderStutters DEF Capture, RequestInv
<1>4. CASE Receive
  <2>1. ReaderInv'
    BY <1>4, LoopInv, ReaderStutters DEF Receive
  <2>2. RequestInv'
    BY <1>4 DEF Receive, RequestInv
  <2>. QED
    BY <2>1, <2>2
<1>5. CASE ServerAnswers
  BY <1>5, ArriveInv DEF ServerAnswers, RequestInv
<1>6. CASE ServerEnds
  BY <1>6, PeerEndsInv DEF ServerEnds, RequestInv
<1>7. CASE OtherTraffic
  BY <1>7, ReaderStutters DEF OtherTraffic, RequestInv
<1>8. CASE UNCHANGED exchangeVars
  BY <1>8, ReaderStutters DEF exchangeVars, RequestInv
<1>. QED
  BY <1>1, <1>2, <1>3, <1>4, <1>5, <1>6, <1>7, <1>8 DEF ExchangeNext, Client

(* The reader's buffer and the request that is sent satisfy the inductive  *)
(* invariant in every state of the client's stages.                        *)
THEOREM ExchangeInvariant == ExchangeSpec => []ExchangeInv
  BY ExchangeInitInv, ExchangeNextInv, PTL DEF ExchangeSpec

(* receive_response: every write lies inside the allocation, the NUL       *)
(* included, and the buffer holds the response in order, for every         *)
(* response, chunk size, initial capacity and way of cutting.              *)
THEOREM ReceivedInsideTheBuffer == ExchangeSpec => []BufferFits
<1>1. ExchangeInv => BufferFits
  BY ReaderInvFits DEF ExchangeInv
<1>. QED
  BY <1>1, ExchangeInvariant, PTL

(* send_all: the server is sent the request in order and none of it twice, *)
(* and the client goes on only when all of it is accepted.                 *)
THEOREM RequestIsSentOnce == ExchangeSpec => []RequestSentOnce
<1>1. ExchangeInv => RequestSentOnce
  BY RequestInvSent DEF ExchangeInv
<1>. QED
  BY <1>1, ExchangeInvariant, PTL

-----------------------------------------------------------------------------
(* What the capture keeps of the frames.  Kept is a recursive function;    *)
(* that there is one, and that joining two sequences joins what is kept of *)
(* them, is shown by the least number for which it would not hold.         *)

LEMMA LeastElement ==
  ASSUME NEW S \in SUBSET Nat, S # {}
  PROVE  \E d \in S : \A x \in S : d <= x
<1>1. PICK d \in S : \A x \in S : <<x, d>> \notin OpToRel(<, Nat)
  BY WFMin, NatLessThanWellFounded, Zenon
<1>2. ASSUME NEW x \in S PROVE d <= x
  <2>1. ~ (x < d)
    BY <1>1, <1>2, Zenon DEF OpToRel
  <2>2. x \in Nat /\ d \in Nat
    OBVIOUS
  <2>. QED
    BY <2>1, <2>2
<1>. QED
  BY <1>2

Wire == Frames \cup {ToServer, ToClient}
Wires == Seq(Wire)

(* The equation that defines p as what is kept of the first n frames.      *)
Keeps(p, fs, n) ==
  p = [k \in 0 .. n |-> IF k = 0 THEN <<>> ELSE Keep(p[k - 1], fs[k])]

LEMMA WireFacts ==
  /\ <<>> \in Wires /\ Len(<<>>) = 0
  /\ \A fs \in Wires : Len(fs) \in Nat /\ \A k \in 1 .. Len(fs) : fs[k] \in Wire
  /\ \A fs \in Wires : \A f \in Wire :
       /\ Append(fs, f) \in Wires /\ Len(Append(fs, f)) = Len(fs) + 1
       /\ Append(fs, f)[Len(fs) + 1] = f
       /\ \A k \in 1 .. Len(fs) : Append(fs, f)[k] = fs[k]
  BY DEF Wires

LEMMA KeepsExists ==
  ASSUME NEW fs \in Wires, NEW n \in 0 .. Len(fs)
  PROVE  \E p \in [0 .. n -> Wires] : Keeps(p, fs, n)
<1>. DEFINE Missing == {m \in 0 .. Len(fs) : ~ \E p \in [0 .. m -> Wires] : Keeps(p, fs, m)}
<1>1. Missing \in SUBSET Nat /\ Missing \subseteq 0 .. Len(fs)
  OBVIOUS
<1>2. ASSUME NEW m \in Missing, \A x \in Missing : m <= x PROVE FALSE
  <2>1. m \in Nat /\ m <= Len(fs) /\ ~ \E p \in [0 .. m -> Wires] : Keeps(p, fs, m)
    BY WireFacts
  <2>2. m # 0
    <3>. DEFINE p == [k \in 0 .. 0 |-> <<>>]
    <3>1. p \in [0 .. 0 -> Wires]
      BY WireFacts
    <3>2. Keeps(p, fs, 0)
      BY DEF Keeps
    <3>. HIDE DEF p
    <3>. QED
      BY <2>1, <3>1, <3>2
  <2>3. m - 1 \in 0 .. Len(fs) /\ m - 1 \notin Missing
    <3>1. m - 1 \in 0 .. Len(fs) /\ ~ (m <= m - 1)
      BY <2>1, <2>2, WireFacts
    <3>. HIDE DEF Missing
    <3>. QED
      BY <1>2, <3>1
  <2>4. PICK p \in [0 .. m - 1 -> Wires] : Keeps(p, fs, m - 1)
    BY <2>3
  <2>. DEFINE last == Keep(p[m - 1], fs[m])
              g == [k \in 0 .. m |-> IF k = m THEN last ELSE p[k]]
  <2>5. last \in Wires
    <3>1. fs[m] \in Wire /\ p[m - 1] \in Wires
      BY <2>1, <2>2, WireFacts
    <3>. QED
      BY <3>1, WireFacts DEF Keep
  <2>. HIDE DEF last
  <2>6. g \in [0 .. m -> Wires]
    BY <2>1, <2>5
  <2>7. \A k \in 0 .. m : g[k] = IF k = 0 THEN <<>> ELSE Keep(g[k - 1], fs[k])
    <3>1. \A k \in 0 .. m - 1 : p[k] = IF k = 0 THEN <<>> ELSE Keep(p[k - 1], fs[k])
      BY <2>4 DEF Keeps
    <3>2. \A k \in 0 .. m - 1 : g[k] = p[k]
      BY <2>1
    <3>3. g[m] = last
      BY <2>1
    <3>. HIDE DEF g
    <3>4. ASSUME NEW k \in 0 .. m, k # 0
          PROVE  g[k] = Keep(g[k - 1], fs[k])
      <4>1. k - 1 \in 0 .. m - 1 /\ (k = m \/ k \in 0 .. m - 1)
        BY <2>1, <3>4
      <4>2. CASE k = m
        BY <3>2, <3>3, <4>1, <4>2 DEF last
      <4>3. CASE k \in 0 .. m - 1
        BY <3>1, <3>2, <3>4, <4>1, <4>3
      <4>. QED
        BY <4>1, <4>2, <4>3
    <3>5. g[0] = <<>>
      BY <2>1, <2>2, <3>1, <3>2
    <3>. QED
      BY <3>4, <3>5
  <2>8. Keeps(g, fs, m)
    <3>1. g = [k \in 0 .. m |-> g[k]]
      OBVIOUS
    <3>. HIDE DEF g
    <3>. QED
      BY <2>7, <3>1 DEF Keeps
  <2>. HIDE DEF g
  <2>. QED
    BY <2>1, <2>6, <2>8
<1>. HIDE DEF Missing
<1>3. Missing = {}
  BY <1>1, <1>2, LeastElement
<1>. QED
  BY <1>3 DEF Missing

LEMMA KeepsAgree ==
  ASSUME NEW fs \in Wires, NEW gs \in Wires, NEW n \in Nat, NEW m \in Nat, NEW p, NEW q,
         Keeps(p, fs, n), Keeps(q, gs, m), n <= m, \A k \in 1 .. n : fs[k] = gs[k]
  PROVE  \A k \in 0 .. n : p[k] = q[k]
<1>. DEFINE Differ == {k \in 0 .. n : p[k] # q[k]}
<1>1. Differ \in SUBSET Nat
  OBVIOUS
<1>2. ASSUME NEW k \in Differ, \A x \in Differ : k <= x PROVE FALSE
  <2>1. k \in Nat /\ k <= n /\ p[k] # q[k]
    OBVIOUS
  <2>2. /\ p[k] = IF k = 0 THEN <<>> ELSE Keep(p[k - 1], fs[k])
        /\ q[k] = IF k = 0 THEN <<>> ELSE Keep(q[k - 1], gs[k])
    BY <2>1 DEF Keeps
  <2>3. k # 0
    BY <2>1, <2>2
  <2>4. k - 1 \notin Differ /\ k - 1 \in 0 .. n
    BY <1>2, <2>1, <2>3
  <2>5. p[k - 1] = q[k - 1] /\ fs[k] = gs[k]
    BY <2>1, <2>3, <2>4
  <2>. QED
    BY <2>1, <2>2, <2>3, <2>5
<1>. HIDE DEF Differ
<1>3. Differ = {}
  BY <1>1, <1>2, LeastElement
<1>. QED
  BY <1>3 DEF Differ

LEMMA KeptDef ==
  ASSUME NEW fs \in Wires
  PROVE  Keeps(Kept(fs), fs, Len(fs)) /\ Kept(fs) \in [0 .. Len(fs) -> Wires]
<1>1. PICK n \in Nat : n = Len(fs)
  BY WireFacts
<1>2. PICK p \in [0 .. n -> Wires] : Keeps(p, fs, n)
  BY <1>1, KeepsExists
<1>3. Kept(fs) = CHOOSE s : Keeps(s, fs, Len(fs))
  BY Zenon DEF Kept, Keeps
<1>4. PICK q : q = Kept(fs)
  OBVIOUS
<1>5. Keeps(q, fs, n)
  BY <1>1, <1>2, <1>3, <1>4
<1>6. \A k \in 0 .. n : p[k] = q[k]
  BY <1>2, <1>5, KeepsAgree
<1>7. q \in [0 .. n -> Wires]
  BY <1>2, <1>5, <1>6 DEF Keeps
<1>. QED
  BY <1>1, <1>4, <1>5, <1>7

LEMMA FlowOfNothing == Flow(<<>>) = <<>>
<1>1. Keeps(Kept(<<>>), <<>>, 0)
  BY KeptDef, WireFacts
<1>2. Kept(<<>>)[0] = <<>>
  BY <1>1 DEF Keeps
<1>. QED
  BY <1>2, WireFacts DEF Flow

LEMMA FlowOfMore ==
  ASSUME NEW fs \in Wires, NEW f \in Wire
  PROVE  /\ Flow(fs) \in Wires
         /\ Flow(Append(fs, f)) = IF OfTheFlow(f) THEN Append(Flow(fs), f) ELSE Flow(fs)
<1>1. PICK gs \in Wires, n \in Nat : gs = Append(fs, f) /\ n = Len(fs)
  BY WireFacts
<1>2. Len(gs) = n + 1 /\ gs[n + 1] = f /\ \A k \in 1 .. n : gs[k] = fs[k]
  BY <1>1, WireFacts
<1>3. PICK p, q : p = Kept(fs) /\ q = Kept(gs)
  OBVIOUS
<1>4. Keeps(p, fs, n) /\ p \in [0 .. n -> Wires] /\ Keeps(q, gs, n + 1)
  BY <1>1, <1>2, <1>3, KeptDef
<1>5. p[n] = q[n]
  <2>1. \A k \in 0 .. n : p[k] = q[k]
    BY <1>2, <1>4, KeepsAgree
  <2>. QED
    BY <2>1
<1>6. q[n + 1] = Keep(q[n], f)
  <2>1. n + 1 \in 0 .. n + 1 /\ n + 1 # 0 /\ (n + 1) - 1 = n
    OBVIOUS
  <2>. QED
    BY <1>2, <1>4, <2>1 DEF Keeps
<1>. QED
  BY <1>1, <1>2, <1>3, <1>4, <1>5, <1>6 DEF Flow, Keep

(* The flow of two stretches, one after the other.                         *)
LEMMA FlowOfBoth ==
  ASSUME NEW s \in Wires, NEW t \in Wires
  PROVE  Flow(s \o t) = Flow(s) \o Flow(t)
<1>. DEFINE Wrong == {n \in 0 .. Len(t) :
                       Flow(s \o SubSeq(t, 1, n)) # Flow(s) \o Flow(SubSeq(t, 1, n))}
<1>1. Wrong \in SUBSET Nat /\ Wrong \subseteq 0 .. Len(t)
  BY WireFacts
<1>2. ASSUME NEW n \in Wrong, \A x \in Wrong : n <= x PROVE FALSE
  <2>1. /\ n \in Nat /\ n <= Len(t)
        /\ Flow(s \o SubSeq(t, 1, n)) # Flow(s) \o Flow(SubSeq(t, 1, n))
    BY WireFacts
  <2>2. n # 0
    <3>1. SubSeq(t, 1, 0) = <<>>
      BY DEF Wires
    <3>2. s \o <<>> = s /\ Flow(s) \o <<>> = Flow(s)
      BY WireFacts, FlowOfMore, ConcatEmptySeq DEF Wires
    <3>. QED
      BY <2>1, <3>1, <3>2, FlowOfNothing
  <2>3. n - 1 \in 0 .. Len(t) /\ n - 1 \notin Wrong
    <3>1. n - 1 \in 0 .. Len(t) /\ ~ (n <= n - 1)
      BY <2>1, <2>2, WireFacts
    <3>. HIDE DEF Wrong
    <3>. QED
      BY <1>2, <3>1
  <2>4. PICK t1 \in Wires, f \in Wire : t1 = SubSeq(t, 1, n - 1) /\ f = t[n]
    <3>1. n \in 1 .. Len(t)
      BY <2>1, <2>2, WireFacts
    <3>2. SubSeq(t, 1, n - 1) \in Wires
      BY <2>3, SubSeqProperties DEF Wires
    <3>. QED
      BY <3>1, <3>2, WireFacts
  <2>5. SubSeq(t, 1, n) = Append(t1, f)
    BY <2>1, <2>2, <2>4 DEF Wires
  <2>6. Flow(s \o t1) = Flow(s) \o Flow(t1)
    BY <2>3, <2>4
  <2>7. s \o Append(t1, f) = Append(s \o t1, f) /\ s \o t1 \in Wires
    BY DEF Wires
  <2>8. PICK a \in Wires, b \in Wires : a = Flow(s) /\ b = Flow(t1)
    BY <2>4, FlowOfMore
  <2>9. a \o Append(b, f) = Append(a \o b, f)
    BY DEF Wires
  <2>10. CASE OfTheFlow(f)
    <3>1. Flow(Append(s \o t1, f)) = Append(a \o b, f) /\ Flow(Append(t1, f)) = Append(b, f)
      BY <2>6, <2>7, <2>8, <2>10, FlowOfMore
    <3>. QED
      BY <2>1, <2>5, <2>7, <2>8, <2>9, <3>1
  <2>11. CASE ~ OfTheFlow(f)
    <3>1. Flow(Append(s \o t1, f)) = a \o b /\ Flow(Append(t1, f)) = b
      BY <2>6, <2>7, <2>8, <2>11, FlowOfMore
    <3>. QED
      BY <2>1, <2>5, <2>7, <2>8, <3>1
  <2>. QED
    BY <2>10, <2>11
<1>3. Wrong = {}
  <2>. HIDE DEF Wrong
  <2>. QED
    BY <1>1, <1>2, LeastElement
<1>4. Len(t) \in 0 .. Len(t) /\ SubSeq(t, 1, Len(t)) = t
  BY WireFacts, SubSeqFull DEF Wires
<1>. QED
  BY <1>3, <1>4

-----------------------------------------------------------------------------
(* The rows of the capture.                                                *)

Row == Wire \X {1, -1}
FramesOf(rs) == [k \in 1 .. Len(rs) |-> rs[k][1]]

(* The inductive invariant of the capture: RowsAreTheFlow, and that rows   *)
(* and queue hold frames.                                                  *)
CaptureInv ==
  /\ tapped \in Wires /\ raw_queue \in Wires /\ rows \in Seq(Row)
  /\ Len(rows) <= MAX_SHOWN
  /\ Flow(tapped) = FramesOf(rows) \o Flow(raw_queue)
  /\ \A k \in 1 .. Len(rows) : rows[k][2] = IF rows[k][1].src = Local THEN 1 ELSE -1
  /\ raw = "open" <=> capture = "capturing"

LEMMA FramesOfMore ==
  ASSUME NEW rs \in Seq(Row), NEW f \in Wire, NEW d \in {1, -1}
  PROVE  /\ Append(rs, <<f, d>>) \in Seq(Row) /\ Len(Append(rs, <<f, d>>)) = Len(rs) + 1
         /\ Append(rs, <<f, d>>)[Len(rs) + 1] = <<f, d>>
         /\ \A k \in 1 .. Len(rs) : Append(rs, <<f, d>>)[k] = rs[k]
         /\ FramesOf(rs) \in Wires
         /\ FramesOf(Append(rs, <<f, d>>)) = Append(FramesOf(rs), f)
<1>1. PICK r \in Row : r = <<f, d>> /\ r[1] = f
  <2>1. <<f, d>> \in Row /\ <<f, d>>[1] = f
    BY DEF Row
  <2>. QED
    BY <2>1, Zenon
<1>2. PICK n \in Nat, new \in Seq(Row) : n = Len(rs) /\ new = Append(rs, r)
  <2>1. Len(rs) \in Nat /\ Append(rs, r) \in Seq(Row)
    BY AppendProperties, LenProperties
  <2>. QED
    BY <2>1, Zenon
<1>3. Len(new) = n + 1 /\ new[n + 1] = r /\ \A k \in 1 .. n : new[k] = rs[k]
  BY <1>2
<1>4. \A k \in 1 .. n : rs[k] \in Row /\ rs[k][1] \in Wire
  BY <1>2 DEF Row
<1>5. FramesOf(rs) \in [1 .. n -> Wire] /\ FramesOf(new) \in [1 .. n + 1 -> Wire]
  BY <1>1, <1>2, <1>3, <1>4 DEF FramesOf
<1>6. FramesOf(rs) \in Wires /\ FramesOf(new) \in Wires
      /\ Len(FramesOf(rs)) = n /\ Len(FramesOf(new)) = n + 1
  BY <1>5, SeqDef DEF Wires
<1>7. PICK a \in Wires, b \in Wires, c \in Wires :
        a = FramesOf(rs) /\ b = FramesOf(new) /\ c = Append(a, f)
  BY <1>6, WireFacts
<1>8. /\ Len(a) = n /\ Len(b) = n + 1 /\ Len(c) = n + 1
      /\ b[n + 1] = f /\ c[n + 1] = f
      /\ \A k \in 1 .. n : b[k] = rs[k][1] /\ c[k] = rs[k][1]
  <2>1. /\ Len(a) = n /\ Len(b) = n + 1 /\ Len(c) = n + 1 /\ c[n + 1] = f
        /\ \A k \in 1 .. n : c[k] = a[k]
    BY <1>6, <1>7, WireFacts
  <2>2. \A k \in 1 .. n : a[k] = rs[k][1]
    BY <1>2, <1>7 DEF FramesOf
  <2>3. b[n + 1] = f /\ \A k \in 1 .. n : b[k] = rs[k][1]
    BY <1>1, <1>3, <1>7 DEF FramesOf
  <2>. QED
    BY <2>1, <2>2, <2>3
<1>9. b = c
  <2>1. \A k \in 1 .. n + 1 : b[k] = c[k]
    <3>1. \A k \in 1 .. n + 1 : k \in 1 .. n \/ k = n + 1
      OBVIOUS
    <3>. QED
      BY <1>8, <3>1, Zenon
  <2>. QED
    BY <1>8, <2>1, SeqEqual DEF Wires
<1>. QED
  BY <1>1, <1>2, <1>3, <1>6, <1>7, <1>9

LEMMA NothingCaptured ==
  /\ rows = <<>> /\ tapped = <<>> /\ raw_queue = <<>>
  /\ (raw = "open" <=> capture = "capturing")
  => CaptureInv
<1>1. FramesOf(<<>>) = <<>>
  BY DEF FramesOf
<1>2. /\ <<>> \in Seq(Row) /\ <<>> \o <<>> = <<>> /\ Len(<<>>) = 0
      /\ 0 <= MAX_SHOWN
  BY CaptureAssumption
<1>3. ASSUME rows = <<>>, tapped = <<>>, raw_queue = <<>>
      PROVE  /\ Flow(tapped) = FramesOf(rows) \o Flow(raw_queue)
             /\ tapped \in Wires /\ raw_queue \in Wires /\ rows \in Seq(Row)
             /\ Len(rows) = 0
  BY <1>1, <1>2, <1>3, WireFacts, FlowOfNothing, Zenon
<1>. QED
  BY <1>2, <1>3 DEF CaptureInv

(* A frame of TCP with the two endpoints of the connection is of the flow. *)
LEMMA DirectionIsRight ==
  ASSUME NEW f \in Wire
  PROVE  /\ f.proto = "tcp" /\ flow_direction(f) # 0 <=> OfTheFlow(f)
         /\ OfTheFlow(f) => flow_direction(f) = IF f.src = Local THEN 1 ELSE -1
<1>1. f = [proto |-> f.proto, src |-> f.src, dst |-> f.dst]
  BY CaptureAssumption DEF Wire, ToServer, ToClient
<1>2. /\ ToServer.proto = "tcp" /\ ToServer.src = Local /\ ToServer.dst = Remote
      /\ ToClient.proto = "tcp" /\ ToClient.src = Remote /\ ToClient.dst = Local
  BY DEF ToServer, ToClient
<1>3. ASSUME f.proto = "tcp", f.src = Local, f.dst = Remote PROVE f = ToServer
  BY <1>1, <1>3, Zenon DEF ToServer
<1>4. ASSUME f.proto = "tcp", f.src = Remote, f.dst = Local PROVE f = ToClient
  BY <1>1, <1>4, Zenon DEF ToClient
<1>. QED
  BY <1>2, <1>3, <1>4, CaptureAssumption DEF flow_direction, OfTheFlow

LEMMA CaptureStutters ==
  ASSUME CaptureInv, UNCHANGED captureVars
  PROVE  CaptureInv'
<1>1. /\ capture' = capture /\ raw' = raw /\ raw_queue' = raw_queue
      /\ rows' = rows /\ tapped' = tapped
  BY DEF captureVars
<1>2. /\ FramesOf(rows)' = FramesOf(rows)
      /\ Flow(tapped)' = Flow(tapped) /\ Flow(raw_queue)' = Flow(raw_queue)
  BY <1>1, Zenon DEF Flow, Kept, Keep, OfTheFlow, FramesOf, ToServer, ToClient
<1>. QED
  BY <1>1, <1>2 DEF CaptureInv

LEMMA OnWireInv ==
  ASSUME CaptureInv, NEW fs \in Wires, OnWire(fs)
  PROVE  CaptureInv'
<1>1. CASE raw = "open"
  <2>1. /\ tapped' = tapped \o fs /\ raw_queue' = raw_queue \o fs
        /\ UNCHANGED <<capture, raw, rows>>
    BY <1>1 DEF OnWire
  <2>2. tapped' \in Wires /\ raw_queue' \in Wires
    BY <2>1 DEF CaptureInv, Wires
  <2>3. PICK a \in Wires, b \in Wires, c \in Wires :
          a = FramesOf(rows) /\ b = Flow(raw_queue) /\ c = Flow(fs)
    <3>1. FramesOf(rows) \in Wires
      <4>1. ToServer \in Wire
        BY DEF Wire
      <4>. QED
        BY <4>1, FramesOfMore DEF CaptureInv
    <3>2. ToServer \in Wire
      BY DEF Wire
    <3>. QED
      BY <3>1, <3>2, FlowOfMore DEF CaptureInv
  <2>4. Flow(tapped') = Flow(tapped) \o c /\ Flow(raw_queue') = b \o c
    BY <2>1, <2>3, FlowOfBoth DEF CaptureInv
  <2>5. (a \o b) \o c = a \o (b \o c)
    BY ConcatAssociative DEF Wires
  <2>6. Flow(tapped') = FramesOf(rows') \o Flow(raw_queue')
    BY <2>1, <2>3, <2>4, <2>5 DEF CaptureInv
  <2>7. Flow(tapped)' = FramesOf(rows)' \o Flow(raw_queue)'
    BY <2>6, Zenon DEF Flow, Kept, Keep, OfTheFlow, FramesOf, ToServer, ToClient
  <2>. QED
    BY <2>1, <2>2, <2>7 DEF CaptureInv
<1>2. CASE raw # "open"
  BY <1>2, CaptureStutters DEF OnWire, captureVars
<1>. QED
  BY <1>1, <1>2

LEMMA ShowFrameInv ==
  ASSUME CaptureInv, ShowFrame
  PROVE  CaptureInv'
<1>1. PICK f \in Wire, q \in Wires :
        /\ f = Head(raw_queue) /\ q = Tail(raw_queue) /\ raw_queue = <<f>> \o q
  <2>1. PICK s \in Seq(Wire) : s = raw_queue /\ s # <<>>
    BY DEF ShowFrame, CaptureInv, Wires
  <2>2. PICK f \in Wire, q \in Seq(Wire), n \in Nat : f = Head(s) /\ q = Tail(s) /\ n = Len(q)
    <3>1. Head(s) \in Wire /\ Tail(s) \in Seq(Wire)
      BY <2>1, HeadTailProperties
    <3>2. Len(Tail(s)) \in Nat
      BY <3>1, LenProperties
    <3>. QED
      BY <3>1, <3>2, Zenon
  <2>3. Len(s) = n + 1 /\ s[1] = f /\ \A k \in 1 .. n : q[k] = s[k + 1]
    BY <2>1, <2>2
  <2>4. PICK u \in Seq(Wire) : u = <<f>> \o q
    <3>1. <<f>> \in Seq(Wire)
      OBVIOUS
    <3>. QED
      BY <3>1, ConcatProperties, Zenon
  <2>5. Len(u) = n + 1 /\ u[1] = f /\ \A k \in 1 .. n : u[k + 1] = q[k]
    BY <2>2, <2>4
  <2>6. \A k \in 1 .. n + 1 : s[k] = u[k]
    <3>1. \A k \in 1 .. n + 1 : k = 1 \/ (k - 1 \in 1 .. n /\ k = (k - 1) + 1)
      OBVIOUS
    <3>. QED
      BY <2>3, <2>5, <3>1
  <2>7. s = u
    BY <2>3, <2>5, <2>6, SeqEqual
  <2>. QED
    BY <2>1, <2>2, <2>4, <2>7 DEF Wires
<1>2. /\ raw_queue' = q /\ UNCHANGED <<capture, raw, tapped>> /\ Len(rows) < MAX_SHOWN
      /\ rows' = IF f.proto = "tcp" /\ flow_direction(f) # 0
                 THEN Append(rows, <<f, flow_direction(f)>>) ELSE rows
  BY <1>1 DEF ShowFrame
<1>3. <<f>> \in Wires /\ <<f>> = Append(<<>>, f)
  BY DEF Wires
<1>4. PICK a \in Wires, b \in Wires : a = FramesOf(rows) /\ b = Flow(q)
  BY FramesOfMore, FlowOfMore DEF CaptureInv
<1>5. Flow(raw_queue) = Flow(<<f>>) \o b
  BY <1>1, <1>3, <1>4, FlowOfBoth
<1>6. Flow(tapped) = a \o (Flow(<<f>>) \o b)
  BY <1>4, <1>5 DEF CaptureInv
<1>7. /\ rows' \in Seq(Row) /\ Len(rows') <= MAX_SHOWN
      /\ \A k \in 1 .. Len(rows') : rows'[k][2] = IF rows'[k][1].src = Local THEN 1 ELSE -1
      /\ a \o (Flow(<<f>>) \o b) = FramesOf(rows') \o b
  <2>1. rows \in Seq(Row) /\ Len(rows) \in Nat
    BY DEF CaptureInv
  <2>2. CASE OfTheFlow(f)
    <3>1. PICK d \in {1, -1} : /\ d = flow_direction(f) /\ rows' = Append(rows, <<f, d>>)
                               /\ d = IF f.src = Local THEN 1 ELSE -1
      BY <1>2, <2>2, DirectionIsRight
    <3>2. /\ rows' \in Seq(Row) /\ Len(rows') = Len(rows) + 1
          /\ rows'[Len(rows) + 1] = <<f, d>>
          /\ \A k \in 1 .. Len(rows) : rows'[k] = rows[k]
          /\ FramesOf(rows') = Append(a, f)
      BY <1>4, <2>1, <3>1, FramesOfMore
    <3>3. Flow(<<f>>) = <<f>>
      BY <1>3, <2>2, FlowOfNothing, FlowOfMore, WireFacts
    <3>4. a \o (<<f>> \o b) = Append(a, f) \o b
      <4>1. PICK u \in Wires : u = <<f>>
        BY <1>3
      <4>2. (a \o u) \o b = a \o (u \o b)
        BY ConcatAssociative DEF Wires
      <4>3. a \o <<f>> = Append(a, f)
        BY DEF Wires
      <4>. QED
        BY <4>1, <4>2, <4>3, Zenon
    <3>5. \A k \in 1 .. Len(rows') : k \in 1 .. Len(rows) \/ k = Len(rows) + 1
      BY <2>1, <3>2
    <3>6. \A k \in 1 .. Len(rows') : rows'[k][2] = IF rows'[k][1].src = Local THEN 1 ELSE -1
      BY <3>1, <3>2, <3>5 DEF CaptureInv
    <3>7. Len(rows') <= MAX_SHOWN
      BY <1>2, <2>1, <3>2, CaptureAssumption
    <3>. QED
      BY <3>2, <3>3, <3>4, <3>6, <3>7
  <2>3. CASE ~ OfTheFlow(f)
    <3>1. rows' = rows
      BY <1>2, <2>3, DirectionIsRight
    <3>2. Flow(<<f>>) = <<>> /\ <<>> \o b = b
      BY <1>3, <2>3, FlowOfNothing, FlowOfMore, WireFacts, ConcatEmptySeq DEF Wires
    <3>. QED
      BY <1>4, <3>1, <3>2 DEF CaptureInv
  <2>. QED
    BY <2>2, <2>3
<1>8. Flow(tapped') = FramesOf(rows') \o Flow(raw_queue')
  BY <1>2, <1>4, <1>6, <1>7
<1>9. Flow(tapped)' = FramesOf(rows)' \o Flow(raw_queue)'
  BY <1>8, Zenon DEF Flow, Kept, Keep, OfTheFlow, FramesOf, ToServer, ToClient
<1>. QED
  BY <1>1, <1>2, <1>7, <1>9 DEF CaptureInv

LEMMA CaptureNextInv == CaptureInv /\ [ExchangeNext]_exchangeVars => CaptureInv'
<1>. SUFFICES ASSUME CaptureInv, [ExchangeNext]_exchangeVars PROVE CaptureInv'
  OBVIOUS
<1>1. /\ <<ToServer>> \in Wires /\ <<ToClient>> \in Wires /\ <<ToClient, ToServer>> \in Wires
      /\ \A f \in Frames : <<f>> \in Wires
  BY DEF Wires, Wire
<1>2. ASSUME capture_raw_headers_for_flow PROVE CaptureInv'
  <2>1. CASE CaptureFails
    BY <2>1 DEF CaptureFails, CaptureInv, FramesOf
  <2>2. CASE OpenRawSocket
    BY <2>2 DEF OpenRawSocket, CaptureInv, FramesOf
  <2>3. CASE ShowFrame
    BY <2>3, ShowFrameInv
  <2>4. CASE EndCapture
    <3>1. (/\ rows = <<>> /\ tapped = <<>> /\ raw_queue = <<>>
           /\ (raw = "open" <=> capture = "capturing")
           => CaptureInv)'
      BY NothingCaptured, PTL
    <3>. QED
      BY <2>4, <3>1 DEF EndCapture
  <2>. QED
    BY <1>2, <2>1, <2>2, <2>3, <2>4 DEF capture_raw_headers_for_flow
<1>3. CASE send_all
  BY <1>1, <1>3, OnWireInv, CaptureStutters DEF send_all, Send, SendFails
<1>4. CASE show_packet_headers_snapshot
  BY <1>4, CaptureStutters DEF show_packet_headers_snapshot
<1>5. CASE Capture
  BY <1>2, <1>5, CaptureStutters DEF Capture
<1>6. CASE Receive
  BY <1>6, CaptureStutters DEF Receive
<1>7. CASE ServerAnswers
  BY <1>1, <1>7, OnWireInv DEF ServerAnswers
<1>8. CASE ServerEnds
  BY <1>1, <1>8, OnWireInv DEF ServerEnds
<1>9. CASE OtherTraffic
  BY <1>1, <1>9, OnWireInv DEF OtherTraffic
<1>10. CASE UNCHANGED exchangeVars
  BY <1>10, CaptureStutters DEF exchangeVars
<1>. QED
  BY <1>3, <1>4, <1>5, <1>6, <1>7, <1>8, <1>9, <1>10 DEF ExchangeNext, Client

(* capture_raw_headers_for_flow: the rows are the connection as it was on  *)
(* the wire, in order and without a gap, each with the side that sent it,  *)
(* for any traffic of other connections and any limit of rows.             *)
THEOREM RowsTellTheFlow == ExchangeSpec => []RowsAreTheFlow
<1>1. ExchangeInit => CaptureInv
  BY NothingCaptured DEF ExchangeInit, CaptureInit
<1>2. CaptureInv => RowsAreTheFlow
  BY DEF CaptureInv, RowsAreTheFlow, Shown, FramesOf
<1>. QED
  BY <1>1, <1>2, CaptureNextInv, PTL DEF ExchangeSpec

-----------------------------------------------------------------------------
(* What the searches find in the beginning of a response.                  *)

LEMMA LeastIsLeast ==
  ASSUME NEW S \in SUBSET Nat, S # {}
  PROVE  Least(S) \in S /\ \A j \in S : Least(S) <= j
<1>1. \E k \in S : \A j \in S : k <= j
  BY LeastElement
<1>. QED
  BY <1>1 DEF Least

LEMMA LeastIs ==
  ASSUME NEW S \in SUBSET Nat, NEW k \in S, \A j \in S : k <= j
  PROVE  Least(S) = k
<1>1. Least(S) \in S /\ \A j \in S : Least(S) <= j
  BY LeastIsLeast
<1>2. PICK m : m = Least(S)
  OBVIOUS
<1>3. m \in Nat /\ k \in Nat /\ m <= k /\ k <= m
  BY <1>1, <1>2
<1>. QED
  BY <1>2, <1>3

(* The first n symbols.                                                    *)
LEMMA FirstOnes ==
  ASSUME NEW s \in Symbols, NEW n \in 0 .. Len(s)
  PROVE  /\ SubSeq(s, 1, n) \in Symbols /\ Len(SubSeq(s, 1, n)) = n
         /\ \A k \in 1 .. n : SubSeq(s, 1, n)[k] = s[k]
<1>1. Len(s) \in Nat /\ n \in Nat /\ n <= Len(s)
  BY LenProperties DEF Symbols
<1>. QED
  BY <1>1 DEF Symbols

LEMMA Stretch ==
  ASSUME NEW s \in Symbols, NEW i \in Int, NEW j \in Int, 1 <= i, i <= j + 1, j <= Len(s)
  PROVE  /\ SubSeq(s, i, j) \in Symbols /\ Len(SubSeq(s, i, j)) = j - i + 1
         /\ \A k \in 1 .. j - i + 1 : SubSeq(s, i, j)[k] = s[i + k - 1]
  BY DEF Symbols

LEMMA StretchOfFirst ==
  ASSUME NEW s \in Symbols, NEW n \in 0 .. Len(s),
         NEW i \in Int, NEW j \in Int, 1 <= i, i <= j + 1, j <= n
  PROVE  SubSeq(SubSeq(s, 1, n), i, j) = SubSeq(s, i, j)
<1>1. PICK b \in Symbols : b = SubSeq(s, 1, n)
  BY FirstOnes
<1>2. Len(s) \in Nat /\ Len(b) = n /\ \A k \in 1 .. n : b[k] = s[k]
  BY <1>1, FirstOnes, LenProperties DEF Symbols
<1>3. PICK x \in Symbols, y \in Symbols, m \in Nat :
        x = SubSeq(b, i, j) /\ y = SubSeq(s, i, j) /\ m = j - i + 1
  <2>1. n <= Len(s) /\ j <= Len(b) /\ j <= Len(s) /\ j - i + 1 \in Nat
    BY <1>2
  <2>2. SubSeq(b, i, j) \in Symbols /\ SubSeq(s, i, j) \in Symbols
    BY <2>1, Stretch
  <2>. QED
    BY <2>1, <2>2, Zenon
<1>4. /\ Len(x) = m /\ Len(y) = m
      /\ \A k \in 1 .. m : x[k] = b[i + k - 1] /\ y[k] = s[i + k - 1]
  BY <1>2, <1>3, Stretch
<1>5. \A k \in 1 .. m : x[k] = y[k]
  <2>1. ASSUME NEW k \in 1 .. m PROVE x[k] = y[k]
    <3>1. i + k - 1 \in 1 .. n
      BY <1>3
    <3>. QED
      BY <1>2, <1>4, <3>1
  <2>. QED
    BY <2>1
<1>6. x = y
  BY <1>4, <1>5, SeqEqual DEF Symbols
<1>. QED
  BY <1>1, <1>3, <1>6

Places(s, p) == {k \in 1 .. Len(s) + 1 - Len(p) : SubSeq(s, k, k + Len(p) - 1) = p}

LEMMA StrstrIsFirst ==
  ASSUME NEW s \in Symbols, NEW p \in Symbols
  PROVE  /\ Places(s, p) \in SUBSET Nat
         /\ Places(s, p) = {} => strstr(s, p) = 0
         /\ Places(s, p) # {} => /\ strstr(s, p) \in Places(s, p)
                                 /\ \A k \in Places(s, p) : strstr(s, p) <= k
         /\ strstr(s, p) # 0 <=> Places(s, p) # {}
<1>1. Places(s, p) \in SUBSET Nat /\ 0 \notin Places(s, p)
  BY DEF Places, Symbols
<1>2. strstr(s, p) = IF Places(s, p) = {} THEN 0 ELSE Least(Places(s, p))
  BY Zenon DEF strstr, Places
<1>. QED
  BY <1>1, <1>2, LeastIsLeast

(* A search of a beginning finds what a search of the whole finds, if it   *)
(* lies in the beginning.                                                  *)
LEMMA FirstInBeginning ==
  ASSUME NEW s \in Symbols, NEW p \in Symbols, Len(p) >= 1, NEW n \in 0 .. Len(s)
  PROVE  strstr(SubSeq(s, 1, n), p) =
           IF strstr(s, p) # 0 /\ strstr(s, p) + Len(p) - 1 <= n THEN strstr(s, p) ELSE 0
<1>1. PICK b \in Symbols, m \in Nat, l \in Nat :
        b = SubSeq(s, 1, n) /\ m = Len(p) /\ l = Len(s) /\ m >= 1 /\ n \in 0 .. l
  BY FirstOnes, LenProperties DEF Symbols
<1>2. Len(b) = n
  BY <1>1, FirstOnes
<1>3. Places(b, p) = {k \in Places(s, p) : k + m - 1 <= n}
  <2>1. ASSUME NEW k \in Nat, 1 <= k, k + m - 1 <= n
        PROVE  SubSeq(b, k, k + m - 1) = SubSeq(s, k, k + m - 1)
    BY <1>1, <2>1, StretchOfFirst
  <2>2. ASSUME NEW k \in Places(b, p) PROVE k \in Places(s, p) /\ k + m - 1 <= n
    <3>1. k \in 1 .. n + 1 - m /\ SubSeq(b, k, k + m - 1) = p
      BY <1>1, <1>2 DEF Places
    <3>2. k \in Nat /\ 1 <= k /\ k + m - 1 <= n /\ k \in 1 .. l + 1 - m
      BY <1>1, <3>1
    <3>. QED
      BY <1>1, <2>1, <3>1, <3>2 DEF Places
  <2>3. ASSUME NEW k \in Places(s, p), k + m - 1 <= n PROVE k \in Places(b, p)
    <3>1. k \in 1 .. l + 1 - m /\ SubSeq(s, k, k + m - 1) = p
      BY <1>1 DEF Places
    <3>2. k \in Nat /\ 1 <= k /\ k \in 1 .. n + 1 - m
      BY <1>1, <2>3, <3>1
    <3>. QED
      BY <1>1, <1>2, <2>1, <2>3, <3>1, <3>2 DEF Places
  <2>. QED
    BY <2>2, <2>3
<1>4. PICK at, bt : at = strstr(s, p) /\ bt = strstr(b, p)
  OBVIOUS
<1>5. /\ Places(s, p) \in SUBSET Nat
      /\ at # 0 <=> Places(s, p) # {}
      /\ Places(s, p) # {} => at \in Places(s, p) /\ \A k \in Places(s, p) : at <= k
      /\ Places(b, p) \in SUBSET Nat
      /\ bt # 0 <=> Places(b, p) # {}
      /\ Places(b, p) # {} => bt \in Places(b, p) /\ \A k \in Places(b, p) : bt <= k
  BY <1>1, <1>4, StrstrIsFirst
<1>6. CASE at # 0 /\ at + m - 1 <= n
  <2>1. at \in Places(b, p)
    BY <1>3, <1>5, <1>6
  <2>2. bt \in Places(s, p) /\ bt <= at /\ at <= bt /\ at \in Nat /\ bt \in Nat
    BY <1>3, <1>5, <2>1
  <2>. QED
    BY <1>1, <1>4, <1>6, <2>2
<1>7. CASE ~ (at # 0 /\ at + m - 1 <= n)
  <2>1. Places(b, p) = {}
    <3>1. ASSUME NEW k \in Places(b, p) PROVE FALSE
      <4>1. k \in Places(s, p) /\ k + m - 1 <= n /\ k \in Nat
        BY <1>3, <1>5, <3>1
      <4>2. at # 0 /\ at <= k /\ at \in Nat
        BY <1>5, <4>1
      <4>. QED
        BY <1>1, <1>7, <4>1, <4>2
    <3>. QED
      BY <3>1
  <2>. QED
    BY <1>1, <1>4, <1>5, <1>7, <2>1
<1>. QED
  BY <1>6, <1>7

(* Without a NUL the C string is all the rest of the buffer.               *)
LEMMA NoNul ==
  ASSUME NEW s \in Symbols, \A j \in 1 .. Len(s) : s[j] # Nul, NEW k \in Nat, 1 <= k
  PROVE  CString(s, k) = SubSeq(s, k, Len(s))
<1>1. {j \in k .. Len(s) : s[j] = Nul} = {}
  BY LenProperties DEF Symbols
<1>. QED
  BY <1>1, Zenon DEF CString

LEMMA SearchedTexts ==
  /\ HeadersEnd \in Symbols /\ Len(HeadersEnd) = 2
  /\ <<Transfer>> \in Symbols /\ Len(<<Transfer>>) = 1
  /\ <<Chunked>> \in Symbols /\ Len(<<Chunked>>) = 1
<1>1. Crlf \in Symbol /\ Transfer \in Symbol /\ Chunked \in Symbol
  BY DEF Crlf, Transfer, Chunked, Plain, Symbol, Kinds
<1>. QED
  BY <1>1 DEF Symbols, HeadersEnd

-----------------------------------------------------------------------------
(* The framing of a beginning of a response.  s is the text of a response, *)
(* b its first n symbols, h the length of its headers.                     *)

NulFree(s) == \A j \in 1 .. Len(s) : s[j] # Nul

LEMMA WholeIsString ==
  ASSUME NEW s \in Symbols, NulFree(s)
  PROVE  CString(s, 1) = s
<1>1. CString(s, 1) = SubSeq(s, 1, Len(s))
  BY NoNul DEF NulFree
<1>. QED
  BY <1>1, SubSeqFull DEF Symbols

LEMMA BeginningIsString ==
  ASSUME NEW s \in Symbols, NulFree(s), NEW n \in 0 .. Len(s)
  PROVE  /\ NulFree(SubSeq(s, 1, n))
         /\ CString(SubSeq(s, 1, n), 1) = SubSeq(s, 1, n)
<1>1. PICK b \in Symbols : b = SubSeq(s, 1, n)
  BY FirstOnes
<1>2. Len(b) = n /\ NulFree(b)
  BY <1>1, FirstOnes, LenProperties DEF NulFree, Symbols
<1>3. CString(b, 1) = b
  BY <1>2, WholeIsString
<1>. QED
  BY <1>1, <1>2, <1>3

LEMMA HeadersOfBeginning ==
  ASSUME NEW s \in Symbols, NulFree(s), NEW n \in 0 .. Len(s), HeaderBytes(s) > 0
  PROVE  /\ HeaderBytes(s) \in 2 .. Len(s)
         /\ HeaderBytes(SubSeq(s, 1, n)) = IF HeaderBytes(s) <= n THEN HeaderBytes(s) ELSE 0
<1>1. PICK b \in Symbols : b = SubSeq(s, 1, n)
  BY FirstOnes
<1>2. CString(s, 1) = s /\ CString(b, 1) = b
  BY <1>1, WholeIsString, BeginningIsString
<1>3. PICK at, bt : at = strstr(s, HeadersEnd) /\ bt = strstr(b, HeadersEnd)
  OBVIOUS
<1>4. /\ HeaderBytes(s) = IF at = 0 THEN 0 ELSE at + 2 - 1
      /\ HeaderBytes(b) = IF bt = 0 THEN 0 ELSE bt + 2 - 1
  BY <1>2, <1>3, SearchedTexts, Zenon DEF HeaderBytes
<1>5. bt = IF at # 0 /\ at + 2 - 1 <= n THEN at ELSE 0
  <2>1. Len(HeadersEnd) >= 1
    BY SearchedTexts
  <2>. QED
    BY <1>1, <1>3, <2>1, FirstInBeginning, SearchedTexts
<1>6. at # 0
  BY <1>4
<1>7. at \in 1 .. Len(s) - 1
  <2>1. at \in Places(s, HeadersEnd)
    BY <1>3, <1>6, StrstrIsFirst, SearchedTexts
  <2>. QED
    BY <2>1, SearchedTexts, LenProperties DEF Places, Symbols
<1>. QED
  BY <1>1, <1>4, <1>5, <1>6, <1>7, LenProperties DEF Symbols

(* Once the headers are complete, parse_content_length does not change.    *)
LEMMA LengthOfBeginning ==
  ASSUME NEW s \in Symbols, NulFree(s), NEW n \in 0 .. Len(s), NEW h \in Nat, h <= n
  PROVE  parse_content_length(SubSeq(s, 1, n), h) = parse_content_length(s, h)
<1>1. PICK b \in Symbols, l \in Nat : b = SubSeq(s, 1, n) /\ l = Len(s) /\ n \in 0 .. l
  BY FirstOnes, LenProperties DEF Symbols
<1>2. Len(b) = n /\ \A k \in 1 .. n : b[k] = s[k]
  BY <1>1, FirstOnes
<1>3. CString(s, 1) = s /\ CString(b, 1) = b
  BY <1>1, WholeIsString, BeginningIsString
<1>4. PICK S \in SUBSET Nat, B \in SUBSET Nat :
        /\ S = {k \in 1 .. l : s[k].kind = "content-length"}
        /\ B = {k \in 1 .. n : b[k].kind = "content-length"}
  <2>1. /\ {k \in 1 .. l : s[k].kind = "content-length"} \in SUBSET Nat
        /\ {k \in 1 .. n : b[k].kind = "content-length"} \in SUBSET Nat
    OBVIOUS
  <2>. QED
    BY <2>1, Zenon
<1>5. /\ parse_content_length(s, h) =
           IF S # {} /\ Least(S) <= h THEN s[Least(S)].n ELSE NoNumber
      /\ parse_content_length(b, h) =
           IF B # {} /\ Least(B) <= h THEN b[Least(B)].n ELSE NoNumber
  BY <1>1, <1>2, <1>3, <1>4, Zenon DEF parse_content_length
<1>6. B = {k \in S : k <= n}
  BY <1>1, <1>2, <1>4
<1>7. CASE S # {} /\ Least(S) <= h
  <2>1. Least(S) \in S /\ \A j \in S : Least(S) <= j
    BY <1>7, LeastIsLeast
  <2>2. Least(S) \in B /\ \A j \in B : Least(S) <= j
    <3>1. PICK m \in Nat : m = Least(S)
      BY <2>1
    <3>2. m \in S /\ m <= h /\ m <= n /\ \A j \in S : m <= j
      BY <1>1, <1>7, <2>1, <3>1
    <3>3. m \in B /\ \A j \in B : m <= j
      BY <1>6, <3>2
    <3>. QED
      BY <3>1, <3>3
  <2>3. Least(B) = Least(S)
    BY <2>2, LeastIs
  <2>4. b[Least(S)] = s[Least(S)]
    BY <1>2, <1>4, <2>2
  <2>. QED
    BY <1>1, <1>5, <1>7, <2>2, <2>3, <2>4
<1>8. CASE ~ (S # {} /\ Least(S) <= h)
  <2>1. ~ (B # {} /\ Least(B) <= h)
    <3>1. ASSUME B # {}, Least(B) <= h PROVE FALSE
      <4>1. Least(B) \in S
        BY <1>6, <3>1, LeastIsLeast
      <4>2. Least(S) <= Least(B) /\ Least(S) \in Nat /\ Least(B) \in Nat
        BY <4>1, LeastIsLeast
      <4>. QED
        BY <1>8, <3>1, <4>1, <4>2
    <3>. QED
      BY <3>1
  <2>. QED
    BY <1>1, <1>5, <1>8, <2>1
<1>. QED
  BY <1>7, <1>8

(* A text without the header name is not taken for a chunked one.          *)
LEMMA NotChunked ==
  ASSUME NEW s \in Symbols, NulFree(s), NEW n \in 0 .. Len(s),
         \A k \in 1 .. Len(s) : s[k].kind # "transfer-encoding"
  PROVE  ~ is_chunked_transfer(SubSeq(s, 1, n))
<1>1. PICK b \in Symbols : b = SubSeq(s, 1, n)
  BY FirstOnes
<1>2. CString(b, 1) = b
  BY <1>1, BeginningIsString
<1>3. strstr(s, <<Transfer>>) = 0
  <2>1. ASSUME NEW k \in Places(s, <<Transfer>>) PROVE FALSE
    <3>1. PICK l \in Nat : l = Len(s) /\ k \in 1 .. l /\ SubSeq(s, k, k) = <<Transfer>>
      BY SearchedTexts, LenProperties DEF Places, Symbols
    <3>2. SubSeq(s, k, k)[1] = s[k]
      <4>1. \A i \in 1 .. k - k + 1 : SubSeq(s, k, k)[i] = s[k + i - 1]
        <5>1. k \in Int /\ 1 <= k /\ k <= k + 1 /\ k <= Len(s)
          BY <3>1
        <5>. QED
          BY <5>1, Stretch
      <4>2. 1 \in 1 .. k - k + 1 /\ k + 1 - 1 = k
        BY <3>1
      <4>. QED
        BY <4>1, <4>2
    <3>3. s[k] = Transfer
      BY <3>1, <3>2
    <3>. QED
      BY <3>1, <3>3 DEF Transfer, Plain
  <2>. QED
    BY <2>1, StrstrIsFirst, SearchedTexts
<1>4. strstr(b, <<Transfer>>) = 0
  BY <1>1, <1>3, FirstInBeginning, SearchedTexts, SMTT(60)
<1>. QED
  BY <1>1, <1>2, <1>4, Zenon DEF is_chunked_transfer

(* What the headers alone show, they show with a body after them.          *)
LEMMA ChunkedStays ==
  ASSUME NEW s \in Symbols, NulFree(s), NEW n \in 0 .. Len(s), NEW h \in 0 .. n,
         is_chunked_transfer(SubSeq(s, 1, h))
  PROVE  is_chunked_transfer(SubSeq(s, 1, n))
<1>0. PICK l \in Nat : l = Len(s) /\ n \in 0 .. l /\ h \in 0 .. l /\ h <= n
  BY LenProperties DEF Symbols
<1>1. PICK b \in Symbols, t \in Symbols : b = SubSeq(s, 1, n) /\ t = SubSeq(s, 1, h)
  BY <1>0, FirstOnes
<1>2. CString(b, 1) = b /\ CString(t, 1) = t
  BY <1>0, <1>1, BeginningIsString
<1>3. Len(b) = n /\ Len(t) = h /\ t = SubSeq(b, 1, h)
  <2>1. SubSeq(SubSeq(s, 1, n), 1, h) = SubSeq(s, 1, h)
    BY <1>0, StretchOfFirst
  <2>. QED
    BY <1>0, <1>1, <2>1, FirstOnes
<1>4. PICK f, g : f = strstr(t, <<Transfer>>) /\ g = strstr(b, <<Transfer>>)
  OBVIOUS
<1>5. f # 0 /\ strstr(From(t, f), <<Chunked>>) # 0
  BY <1>1, <1>2, <1>4, Zenon DEF is_chunked_transfer
<1>6. f = g
  <2>1. f = IF g # 0 /\ g + 1 - 1 <= h THEN g ELSE 0
    <3>1. h \in 0 .. Len(b) /\ <<Transfer>> \in Symbols /\ Len(<<Transfer>>) >= 1
      BY <1>0, <1>3, SearchedTexts
    <3>2. strstr(SubSeq(b, 1, h), <<Transfer>>) =
            IF strstr(b, <<Transfer>>) # 0 /\ strstr(b, <<Transfer>>) + Len(<<Transfer>>) - 1 <= h
            THEN strstr(b, <<Transfer>>) ELSE 0
      BY <3>1, FirstInBeginning
    <3>. QED
      BY <1>3, <1>4, <3>2, SearchedTexts
  <2>. QED
    BY <1>5, <2>1
<1>7. f \in 1 .. h
  <2>1. f \in Places(t, <<Transfer>>)
    BY <1>4, <1>5, StrstrIsFirst, SearchedTexts
  <2>2. f \in 1 .. Len(t) + 1 - Len(<<Transfer>>)
    BY <2>1 DEF Places
  <2>. QED
    BY <1>0, <1>3, <2>2, SearchedTexts
<1>8. PICK u \in Symbols, v \in Symbols : u = From(b, f) /\ v = From(t, f)
  <2>1. SubSeq(b, f, n) \in Symbols /\ SubSeq(t, f, h) \in Symbols
    <3>1. /\ f \in Int /\ n \in Int /\ h \in Int /\ 1 <= f /\ f <= n + 1 /\ f <= h + 1
          /\ n <= Len(b) /\ h <= Len(t)
      BY <1>0, <1>3, <1>7
    <3>. QED
      BY <3>1, Stretch
  <2>2. From(b, f) \in Symbols /\ From(t, f) \in Symbols
    BY <1>3, <2>1 DEF From
  <2>. QED
    BY <2>2, Zenon
<1>9. Len(u) = n - f + 1 /\ v = SubSeq(u, 1, h - f + 1)
  <2>1. Len(u) = n - f + 1 /\ \A k \in 1 .. n - f + 1 : u[k] = b[f + k - 1]
    BY <1>0, <1>3, <1>7, <1>8, Stretch DEF From
  <2>2. Len(v) = h - f + 1 /\ \A k \in 1 .. h - f + 1 : v[k] = t[f + k - 1]
    BY <1>0, <1>3, <1>7, <1>8, Stretch DEF From
  <2>3. PICK w \in Symbols, m \in Nat : w = SubSeq(u, 1, h - f + 1) /\ m = h - f + 1
    <3>1. h - f + 1 \in 0 .. Len(u) /\ h - f + 1 \in Nat
      BY <1>0, <1>7, <2>1
    <3>2. SubSeq(u, 1, h - f + 1) \in Symbols
      BY <3>1, FirstOnes
    <3>. QED
      BY <3>1, <3>2, Zenon
  <2>4. Len(w) = m /\ \A k \in 1 .. m : w[k] = u[k]
    BY <1>0, <1>7, <2>1, <2>3, FirstOnes
  <2>5. \A k \in 1 .. h : t[k] = b[k]
    BY <1>0, <1>1, FirstOnes
  <2>6. \A k \in 1 .. m : w[k] = v[k]
    <3>1. ASSUME NEW k \in 1 .. m PROVE w[k] = v[k]
      <4>1. k \in 1 .. n - f + 1 /\ k \in 1 .. h - f + 1 /\ f + k - 1 \in 1 .. h
        BY <1>0, <1>7, <2>3
      <4>. QED
        BY <2>1, <2>2, <2>4, <2>5, <4>1
    <3>. QED
      BY <3>1
  <2>7. w = v
    BY <2>2, <2>3, <2>4, <2>6, SeqEqual DEF Symbols
  <2>. QED
    BY <2>1, <2>3, <2>7
<1>10. strstr(u, <<Chunked>>) # 0
  <2>1. h - f + 1 \in 0 .. Len(u)
    BY <1>0, <1>7, <1>9
  <2>2. strstr(v, <<Chunked>>) # 0
    BY <1>5, <1>8
  <2>3. <<Chunked>> \in Symbols /\ Len(<<Chunked>>) >= 1
    BY SearchedTexts
  <2>4. strstr(SubSeq(u, 1, h - f + 1), <<Chunked>>) =
          IF strstr(u, <<Chunked>>) # 0 /\ strstr(u, <<Chunked>>) + Len(<<Chunked>>) - 1 <= h - f + 1
          THEN strstr(u, <<Chunked>>) ELSE 0
    BY <2>1, <2>3, FirstInBeginning
  <2>. QED
    BY <1>9, <2>2, <2>4
<1>. QED
  BY <1>1, <1>2, <1>4, <1>5, <1>6, <1>8, <1>10, Zenon DEF is_chunked_transfer

(* A beginning of a response is framed if and only if it is the whole      *)
(* response and the server marks the end of it.                            *)
LEMMA FramingOfBeginning ==
  ASSUME NEW r \in Response, Unmistakable(r), NEW n \in 0 .. Len(r.text)
  PROVE  Framed(SubSeq(r.text, 1, n)) =
           IF r.framing # "close" /\ SubSeq(r.text, 1, n) = r.text THEN r.framing ELSE "none"
<1>1. PICK s \in Symbols, l \in Nat : s = r.text /\ l = Len(s) /\ n \in 0 .. l
  <2>1. r.text \in Symbols /\ Len(r.text) \in Nat
    BY LenProperties DEF Response, Symbols
  <2>. QED
    BY <2>1, Zenon
<1>2. PICK b \in Symbols : b = SubSeq(s, 1, n)
  BY <1>1, FirstOnes
<1>3. Len(b) = n /\ (b = s <=> n = l)
  <2>1. Len(b) = n
    BY <1>1, <1>2, FirstOnes
  <2>2. SubSeq(s, 1, Len(s)) = s
    BY SubSeqFull DEF Symbols
  <2>. QED
    BY <1>1, <1>2, <2>1, <2>2
<1>4. \A k \in 1 .. l : s[k].kind # "nul"
  BY <1>1, Zenon DEF Unmistakable
<1>5. NulFree(s)
  BY <1>1, <1>4 DEF NulFree, Nul, Plain
<1>6. PICK h \in Nat : h = HeaderBytes(s) /\ h > 0 /\ h <= l
  <2>1. HeaderBytes(s) > 0
    BY <1>1, Zenon DEF Unmistakable
  <2>2. HeaderBytes(s) \in 2 .. Len(s)
    BY <1>1, <1>5, <2>1, HeadersOfBeginning
  <2>. QED
    BY <1>1, <2>1, <2>2
<1>7. HeaderBytes(b) = IF h <= n THEN h ELSE 0
  BY <1>1, <1>2, <1>5, <1>6, HeadersOfBeginning
<1>8. CASE n < h
  <2>1. HeaderBytes(b) = 0 /\ b # s
    BY <1>1, <1>3, <1>6, <1>7, <1>8
  <2>2. Framed(b) = "none"
    BY <2>1 DEF Framed
  <2>. QED
    BY <1>1, <1>2, <2>1, <2>2
<1>9. CASE h <= n
  <2>. DEFINE L == parse_content_length(s, h)
  <2>1. HeaderBytes(b) = h /\ h # 0
    BY <1>6, <1>7, <1>9
  <2>2. parse_content_length(b, h) = L
    BY <1>1, <1>2, <1>5, <1>9, LengthOfBeginning
  <2>3. Framed(b) = IF L # NoNumber /\ Len(b) - h >= L THEN "length"
                    ELSE IF is_chunked_transfer(b) /\ chunked_body_complete(CString(b, h + 1))
                         THEN "chunked"
                    ELSE "none"
    BY <2>1, <2>2 DEF Framed
  <2>. HIDE DEF L
  <2>4. CASE r.framing = "length"
    <3>1. L = l - h /\ \A k \in 1 .. l : s[k].kind # "transfer-encoding"
      BY <1>1, <1>6, <2>4 DEF Unmistakable, L
    <3>2. ~ is_chunked_transfer(b)
      BY <1>1, <1>2, <1>5, <3>1, NotChunked
    <3>3. L # NoNumber /\ (Len(b) - h >= L <=> n = l)
      BY <1>1, <1>3, <1>6, <3>1 DEF NoNumber
    <3>4. Framed(b) = IF n = l THEN "length" ELSE "none"
      BY <2>3, <3>2, <3>3
    <3>. QED
      BY <1>1, <1>2, <1>3, <2>4, <3>4
  <2>5. CASE r.framing = "close"
    <3>1. L = NoNumber /\ \A k \in 1 .. l : s[k].kind # "transfer-encoding"
      BY <1>1, <1>6, <2>5 DEF Unmistakable, L
    <3>2. ~ is_chunked_transfer(b)
      BY <1>1, <1>2, <1>5, <3>1, NotChunked
    <3>. QED
      BY <1>1, <1>2, <2>3, <2>5, <3>1, <3>2
  <2>6. CASE r.framing = "chunked"
    <3>1. /\ L = NoNumber
          /\ is_chunked_transfer(SubSeq(s, 1, h))
          /\ \A k \in h .. l : chunked_body_complete(SubSeq(s, h + 1, k)) <=> k = l
      BY <1>1, <1>6, <2>6 DEF Unmistakable, L
    <3>2. is_chunked_transfer(b)
      BY <1>1, <1>2, <1>5, <1>6, <1>9, <3>1, ChunkedStays
    <3>3. CString(b, h + 1) = SubSeq(s, h + 1, n)
      <4>1. NulFree(b)
        BY <1>1, <1>2, <1>5, BeginningIsString
      <4>2. CString(b, h + 1) = SubSeq(b, h + 1, Len(b))
        BY <4>1, NoNul DEF NulFree
      <4>3. SubSeq(SubSeq(s, 1, n), h + 1, n) = SubSeq(s, h + 1, n)
        <5>1. /\ n \in 0 .. Len(s) /\ h + 1 \in Int /\ n \in Int
              /\ 1 <= h + 1 /\ h + 1 <= n + 1 /\ n <= n
          BY <1>1, <1>6, <1>9
        <5>. QED
          BY <5>1, StretchOfFirst
      <4>. QED
        BY <1>2, <1>3, <4>2, <4>3
    <3>4. chunked_body_complete(CString(b, h + 1)) <=> n = l
      <4>1. n \in h .. l
        BY <1>1, <1>6, <1>9
      <4>2. chunked_body_complete(SubSeq(s, h + 1, n)) <=> n = l
        BY <3>1, <4>1, Zenon
      <4>. QED
        BY <3>3, <4>2, Zenon
    <3>5. Framed(b) = IF n = l THEN "chunked" ELSE "none"
      BY <2>3, <3>1, <3>2, <3>4
    <3>. QED
      BY <1>1, <1>2, <1>3, <2>6, <3>5
  <2>. QED
    BY <2>4, <2>5, <2>6 DEF Response, Framings
<1>. QED
  BY <1>1, <1>6, <1>8, <1>9

-----------------------------------------------------------------------------
(* The verdict of the loop is that of its buffer, and the loop goes on     *)
(* only as long as that is that nothing is complete.                       *)
VerdictInv ==
  /\ response \in Responses
  /\ complete = Framed(buffer)
  /\ reader \in {"idle", "recv", "store", "grow"} => complete = "none"

LEMMA NothingIsFramed == Framed(<<>>) = "none"
<1>1. CString(<<>>, 1) = <<>>
  <2>1. <<>> \in Symbols /\ Len(<<>>) = 0
    BY DEF Symbols
  <2>2. NulFree(<<>>)
    BY <2>1 DEF NulFree
  <2>. QED
    BY <2>1, <2>2, WholeIsString
<1>2. strstr(<<>>, HeadersEnd) = 0
  <2>1. Places(<<>>, HeadersEnd) = {}
    BY NothingAdded, SearchedTexts DEF Places
  <2>. QED
    BY <2>1, NothingAdded, SearchedTexts, StrstrIsFirst
<1>. QED
  BY <1>1, <1>2 DEF Framed, HeaderBytes

LEMMA VerdictStutters ==
  ASSUME VerdictInv,
         UNCHANGED <<response, buffer, complete>>,
         reader' \in {"idle", "recv", "store", "grow"}
           => reader \in {"idle", "recv", "store", "grow"}
  PROVE  VerdictInv'
  BY DEF VerdictInv

LEMMA VerdictNextInv == VerdictInv /\ [ExchangeNext]_exchangeVars => VerdictInv'
<1>. SUFFICES ASSUME VerdictInv, [ExchangeNext]_exchangeVars PROVE VerdictInv'
  OBVIOUS
<1>1. CASE UNCHANGED readerVars
  BY <1>1, VerdictStutters DEF readerVars, peerVars, loopVars
<1>2. CASE receive_response
  <2>1. CASE Store
    BY <2>1 DEF Store, VerdictInv, peerVars
  <2>2. CASE ~ Store
    BY <1>2, <2>2, VerdictStutters
    DEF receive_response, BeginReceive, Recv, RecvTimeout, RecvEnd, RecvError, Grow,
        ReallocFails, peerVars
  <2>. QED
    BY <2>1, <2>2
<1>3. ASSUME NEW n \in 1 .. Len(unsent), Arrive(n) PROVE VerdictInv'
  BY <1>3, VerdictStutters DEF Arrive, loopVars
<1>4. ASSUME NEW how \in {"closed", "reset"}, PeerEnds(how) PROVE VerdictInv'
  BY <1>4, VerdictStutters DEF PeerEnds, loopVars
<1>5. \/ UNCHANGED readerVars
      \/ receive_response
      \/ \E n \in 1 .. Len(unsent) : Arrive(n)
      \/ \E how \in {"closed", "reset"} : PeerEnds(how)
  BY DEF ExchangeNext, Client, send_all, Send, SendFails, show_packet_headers_snapshot, Capture,
         Receive, ServerAnswers, ServerEnds, OtherTraffic, exchangeVars
<1>. QED
  BY <1>1, <1>2, <1>3, <1>4, <1>5

(* receive_response: however a response is cut into pieces, the loop takes *)
(* it for complete exactly when all of it is stored and its end is marked, *)
(* for every response that none of the searches can mistake, of every      *)
(* length, and for every size of the chunk and of the first buffer.        *)
THEOREM CompleteMeansWhole == ExchangeSpec => []VerdictIsRight
<1>1. ExchangeInit => VerdictInv
  BY NothingIsFramed DEF ExchangeInit, ReaderInit, VerdictInv
<1>2. ExchangeInv /\ VerdictInv => VerdictIsRight
  <2>. SUFFICES ASSUME ExchangeInv, VerdictInv, reader \in {"recv", "received"},
                       response \in Responses, Unmistakable(response)
                PROVE  IF response.framing # "close" /\ buffer = response.text
                       THEN complete = response.framing /\ reader = "received"
                       ELSE complete = "none"
    BY DEF VerdictIsRight
  <2>1. PICK n \in 0 .. Len(response.text) : buffer = SubSeq(response.text, 1, n)
    <3>1. PICK rest \in Symbols : Got \o rest = response.text
      BY DEF ExchangeInv, ReaderInv
    <3>2. /\ buffer \in Symbols /\ chunk \in Symbols /\ queue \in Symbols
          /\ chunk \o (queue \o rest) \in Symbols /\ queue \o rest \in Symbols
      BY Joined DEF ExchangeInv, ReaderInv
    <3>3. Got \o rest = buffer \o (chunk \o (queue \o rest))
      <4>1. Got \o rest = (buffer \o chunk) \o (queue \o rest)
        BY <3>2, Joined, Regrouped, SMTT(60) DEF Got
      <4>2. (buffer \o chunk) \o (queue \o rest) = buffer \o (chunk \o (queue \o rest))
        BY <3>2, Regrouped, SMTT(60)
      <4>. QED
        BY <4>1, <4>2
    <3>4. /\ Len(buffer) <= Len(response.text)
          /\ buffer = SubSeq(response.text, 1, Len(buffer))
      BY <3>1, <3>2, <3>3, BeginningOfWhole
    <3>5. Len(buffer) \in Nat /\ Len(response.text) \in Nat
      BY <3>2, LenProperties DEF ExchangeInv, ReaderInv, Symbols
    <3>6. Len(buffer) \in 0 .. Len(response.text)
      BY <3>4, <3>5
    <3>. QED
      BY <3>4, <3>6
  <2>2. response \in Response
    BY ReaderAssumption
  <2>3. complete = IF response.framing # "close" /\ buffer = response.text
                   THEN response.framing ELSE "none"
    BY <2>1, <2>2, FramingOfBeginning DEF VerdictInv
  <2>. QED
    BY <2>2, <2>3 DEF VerdictInv, Response, Framings
<1>. QED
  BY <1>1, <1>2, VerdictNextInv, ExchangeInvariant, PTL DEF ExchangeSpec
=============================================================================
