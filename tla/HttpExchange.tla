---------------------------- MODULE HttpExchange ----------------------------
(***************************************************************************)
(* HTTP_Request_flow.c from stage 6 on: the client sends its request,      *)
(* looks at packets for a while, and only then receives the response,      *)
(* which its server and the network deliver meanwhile.                     *)
(***************************************************************************)
EXTENDS ResponseReader, PacketCapture

CONSTANTS
  REQ_LEN,     \* strlen(http_request), in pieces that send() can be cut at
  MaxTapped    \* bound: frames while the raw socket is open

ASSUME ExchangeAssumption == REQ_LEN \in Nat \ {0} /\ MaxTapped \in Nat

VARIABLES
  stage,        \* "send", "snapshot", "capture", "receive", "done" or "exited"
  sent_total,
  taken         \* history: the pieces that the kernel has accepted

exchangeVars == <<readerVars, captureVars, stage, sent_total, taken>>

http_request == [k \in 1 .. REQ_LEN |-> k]

ExchangeInit ==
  /\ ReaderInit
  /\ CaptureInit
  /\ stage = "send"
  /\ sent_total = 0
  /\ taken = <<>>

-----------------------------------------------------------------------------
(* Mutant: the rest of the request is sent from its beginning. *)
SendFromStart(n) ==
  /\ stage = "send" /\ sent_total < REQ_LEN /\ peer # "reset"
  /\ n \in 1 .. REQ_LEN - sent_total
  /\ taken' = taken \o SubSeq(http_request, 1, n)
  /\ sent_total' = sent_total + n
  /\ stage' = IF sent_total' = REQ_LEN THEN "snapshot" ELSE "send"
  /\ OnWire(<<ToServer>>)
  /\ UNCHANGED readerVars

(* send() accepts n of the bytes from data + sent_total on. *)
Send(n) ==
  /\ stage = "send" /\ sent_total < REQ_LEN /\ peer # "reset"
  /\ n \in 1 .. REQ_LEN - sent_total
  /\ taken' = taken \o SubSeq(http_request, sent_total + 1, sent_total + n)
  /\ sent_total' = sent_total + n
  /\ stage' = IF sent_total' = REQ_LEN THEN "snapshot" ELSE "send"
  /\ OnWire(<<ToServer>>)
  /\ UNCHANGED readerVars

(* send() fails or returns 0: perror, exit; or SIGPIPE ends the process.   *)
SendFails ==
  /\ stage = "send" /\ peer # "open"
  /\ stage' = "exited"
  /\ UNCHANGED <<readerVars, captureVars, sent_total, taken>>

send_all == SendFails \/ \E n \in 1 .. REQ_LEN : Send(n)

(* libpcap's snapshot, or tcpdump's without libpcap.  It ends by a packet  *)
(* count or a timeout of its own and fails without consequence; traffic    *)
(* goes on meanwhile.                                                      *)
show_packet_headers_snapshot ==
  /\ stage = "snapshot"
  /\ stage' = "capture"
  /\ UNCHANGED <<readerVars, captureVars, sent_total, taken>>

Capture ==
  /\ stage = "capture"
  /\ \/ capture_raw_headers_for_flow /\ UNCHANGED stage
     \/ capture = "over" /\ stage' = "receive" /\ UNCHANGED captureVars
  /\ UNCHANGED <<readerVars, sent_total, taken>>

Receive ==
  /\ stage = "receive"
  /\ \/ receive_response /\ UNCHANGED stage
     \/ /\ reader \in {"received", "exited"}
        /\ stage' = IF reader = "received" THEN "done" ELSE "exited"
        /\ UNCHANGED readerVars
  /\ UNCHANGED <<captureVars, sent_total, taken>>

Client == send_all \/ show_packet_headers_snapshot \/ Capture \/ Receive

-----------------------------------------------------------------------------
(* The environment.  A server answers the request once it has all of it;   *)
(* the client's kernel may acknowledge at once or later.                   *)
Untapped(n) == raw # "open" \/ Len(tapped) + n <= MaxTapped

ServerAnswers ==
  /\ Len(taken) = REQ_LEN
  /\ \E n \in 1 .. Len(unsent) : Arrive(n)
  /\ \E fs \in {<<ToClient>>, <<ToClient, ToServer>>} : Untapped(Len(fs)) /\ OnWire(fs)
  /\ UNCHANGED <<stage, sent_total, taken>>

ServerEnds ==
  /\ \E how \in {"closed", "reset"} : PeerEnds(how)
  /\ Untapped(1) /\ OnWire(<<ToClient>>)
  /\ UNCHANGED <<stage, sent_total, taken>>

OtherTraffic ==
  /\ raw = "open" /\ Untapped(1)
  /\ \E f \in Frames : ~ OfTheFlow(f) /\ OnWire(<<f>>)
  /\ UNCHANGED <<readerVars, stage, sent_total, taken>>

ExchangeNext == Client \/ ServerAnswers \/ ServerEnds \/ OtherTraffic

ExchangeSpec == ExchangeInit /\ [][ExchangeNext]_exchangeVars

(* The client's thread runs, and its system calls return: send() because a *)
(* request is far smaller than an empty send buffer, the others by their   *)
(* timeouts.  Nothing makes the server answer or hang up.                  *)
FairExchangeSpec == ExchangeSpec /\ WF_exchangeVars(Client)

-----------------------------------------------------------------------------
(* Whatever pieces send() accepts, the server is sent the request in its   *)
(* order, none of it twice, and the client goes on only when all of it is  *)
(* accepted.                                                               *)
RequestSentOnce ==
  /\ taken = SubSeq(http_request, 1, Len(taken))
  /\ stage \notin {"send", "exited"} => taken = http_request

(* README.md: without the permission for a raw socket the application      *)
(* continues.  With or without it, whether the server answers, is silent,  *)
(* closes or resets, the client gets past its stages or exits.             *)
ExchangeEnds == <>(stage \in {"done", "exited"})
=============================================================================
