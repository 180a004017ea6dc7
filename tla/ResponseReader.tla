--------------------------- MODULE ResponseReader ---------------------------
(***************************************************************************)
(* HTTP_Request_flow.c, receive_response: the loop that receives a         *)
(* response in whatever pieces TCP delivers it, in a buffer that grows,    *)
(* until a framing says that it is complete, the peer closes, or nothing   *)
(* comes for the time that connect_socket has set with SO_RCVTIMEO.        *)
(* recv() is interrupted by signals too; the loop then calls it again,     *)
(* which is a stuttering step.                                             *)
(***************************************************************************)
EXTENDS HttpFraming

CONSTANTS
  Responses,          \* what the server may answer
  CHUNK_SIZE,         \* sizeof(chunk): 4096
  INITIAL_CAPACITY    \* 16384

(* A response and the way in which its server has marked its end. *)
Framings == {"length", "chunked", "close"}
Response == [text : Seq(Symbol), framing : Framings]

ASSUME ReaderAssumption ==
  /\ \A r \in Responses : r \in Response
  /\ CHUNK_SIZE \in Nat \ {0}
  /\ INITIAL_CAPACITY \in Nat \ {0}

VARIABLES
  response,      \* what this server answers
  peer,          \* its end of the connection: "open", "closed" or "reset"
  unsent,        \* what it has still to send
  queue,         \* the receive queue of the client's socket
  reader,        \* where receive_response is
  chunk,         \* what recv() returned last, as long as it is not stored
  buffer,        \* what is stored; total is its length
  capacity,
  complete,      \* response_complete, with the framing that said so
  used_timeout

peerVars == <<response, peer, unsent>>
loopVars == <<reader, chunk, buffer, capacity, complete, used_timeout>>
readerVars == <<peerVars, queue, loopVars>>

ReaderInit ==
  /\ response \in Responses
  /\ peer = "open"
  /\ unsent = response.text
  /\ queue = <<>>
  /\ reader = "idle"
  /\ chunk = <<>>
  /\ buffer = <<>>
  /\ capacity = INITIAL_CAPACITY
  /\ complete = "none"
  /\ used_timeout = FALSE

-----------------------------------------------------------------------------
(* The server, and the network between.                                    *)

(* The next n symbols reach the client's socket. *)
Arrive(n) ==
  /\ peer = "open"
  /\ n \in 1 .. Len(unsent)
  /\ queue' = queue \o SubSeq(unsent, 1, n)
  /\ unsent' = From(unsent, n + 1)
  /\ UNCHANGED <<response, peer, loopVars>>

(* The server ends the connection, with or without a reset, after its      *)
(* response or in the middle of it.  A reset discards nothing that is      *)
(* queued: recv() still returns it first.                                  *)
PeerEnds(how) ==
  /\ peer = "open"
  /\ peer' = how
  /\ unsent' = <<>>
  /\ UNCHANGED <<response, queue, loopVars>>

Peer == (\E n \in 1 .. Len(unsent) : Arrive(n))
        \/ (\E how \in {"closed", "reset"} : PeerEnds(how))

-----------------------------------------------------------------------------
(* malloc fails, or the loop begins. *)
BeginReceive ==
  /\ reader = "idle"
  /\ reader' \in {"recv", "exited"}
  /\ UNCHANGED <<peerVars, queue, chunk, buffer, capacity, complete, used_timeout>>

(* recv() returns what is queued, as far as it fits into the chunk. *)
Recv ==
  /\ reader = "recv" /\ queue # <<>>
  /\ LET n == IF Len(queue) <= CHUNK_SIZE THEN Len(queue) ELSE CHUNK_SIZE
     IN  /\ chunk' = SubSeq(queue, 1, n)
         /\ queue' = From(queue, n + 1)
  /\ reader' = "store"
  /\ UNCHANGED <<peerVars, buffer, capacity, complete, used_timeout>>

(* Mutant: a timeout is handled like an interrupted call. *)
RecvAgain ==
  /\ reader = "recv" /\ queue = <<>> /\ peer = "open"
  /\ UNCHANGED readerVars

RecvTimeout ==
  /\ reader = "recv" /\ queue = <<>> /\ peer = "open"
  /\ used_timeout' = TRUE
  /\ reader' = "received"
  /\ UNCHANGED <<peerVars, queue, chunk, buffer, capacity, complete>>

(* recv() returns 0. *)
RecvEnd ==
  /\ reader = "recv" /\ queue = <<>> /\ peer = "closed"
  /\ reader' = "received"
  /\ UNCHANGED <<peerVars, queue, chunk, buffer, capacity, complete, used_timeout>>

(* perror("recv"); exit(EXIT_FAILURE) *)
RecvError ==
  /\ reader = "recv" /\ queue = <<>> /\ peer = "reset"
  /\ reader' = "exited"
  /\ UNCHANGED <<peerVars, queue, chunk, buffer, capacity, complete, used_timeout>>

(* Mutant: no room is left for the NUL. *)
FitsWithoutNul(n) == n <= capacity

(* The chunk and a NUL after it. *)
Fits(n) == n + 1 <= capacity

(* while (total + bytes + 1 > capacity) capacity *= 2;                     *)
Grow ==
  /\ reader \in {"store", "grow"}
  /\ ~ Fits(Len(buffer) + Len(chunk))
  /\ capacity' = 2 * capacity
  /\ reader' = "grow"
  /\ UNCHANGED <<peerVars, queue, chunk, buffer, complete, used_timeout>>

(* Mutant: the new chunk alone is searched. *)
StoreSearchingChunk ==
  /\ reader \in {"store", "grow"}
  /\ Fits(Len(buffer) + Len(chunk))
  /\ buffer' = buffer \o chunk
  /\ chunk' = <<>>
  /\ complete' = Framed(chunk)
  /\ reader' = IF complete' = "none" THEN "recv" ELSE "received"
  /\ UNCHANGED <<peerVars, queue, capacity, used_timeout>>

(* memcpy, the NUL, and the search for the end of the response; before it, *)
(* the realloc if the capacity was too small.                              *)
Store ==
  /\ reader \in {"store", "grow"}
  /\ Fits(Len(buffer) + Len(chunk))
  /\ buffer' = buffer \o chunk
  /\ chunk' = <<>>
  /\ complete' = Framed(buffer')
  /\ reader' = IF complete' = "none" THEN "recv" ELSE "received"
  /\ UNCHANGED <<peerVars, queue, capacity, used_timeout>>

(* perror("realloc"); exit(EXIT_FAILURE) *)
ReallocFails ==
  /\ reader = "grow"
  /\ Fits(Len(buffer) + Len(chunk))
  /\ reader' = "exited"
  /\ UNCHANGED <<peerVars, queue, chunk, buffer, capacity, complete, used_timeout>>

receive_response ==
  \/ BeginReceive
  \/ Recv \/ RecvTimeout \/ RecvEnd \/ RecvError
  \/ Grow \/ Store \/ ReallocFails

ReaderNext == Peer \/ receive_response

ReaderSpec == ReaderInit /\ [][ReaderNext]_readerVars

-----------------------------------------------------------------------------
(* Every write lies inside the allocation, the terminating NUL included,   *)
(* and what is stored, queued and still unsent is the response in its      *)
(* order, as long as the server does not break off.                        *)
BufferFits ==
  /\ Len(buffer) < capacity
  /\ LET got == buffer \o chunk \o queue
     IN  /\ Len(got) <= Len(response.text)
         /\ got = SubSeq(response.text, 1, Len(got))

(* The bytes of a text that none of the searches can mistake: no NUL, the  *)
(* two header names only in the headers and only for the framing in use,   *)
(* and the end of a chunked body only at its end.                          *)
Unmistakable(r) ==
  LET s == r.text
      h == HeaderBytes(s)
      kinds == {s[k].kind : k \in 1 .. Len(s)}
  IN  /\ h > 0
      /\ "nul" \notin kinds
      /\ CASE r.framing = "length" ->
                /\ parse_content_length(s, h) = Len(s) - h
                /\ "transfer-encoding" \notin kinds
           [] r.framing = "chunked" ->
                /\ parse_content_length(s, h) = NoNumber
                /\ is_chunked_transfer(SubSeq(s, 1, h))
                /\ \A k \in h .. Len(s) :
                     chunked_body_complete(SubSeq(s, h + 1, k)) <=> k = Len(s)
           [] OTHER ->
                /\ parse_content_length(s, h) = NoNumber
                /\ "transfer-encoding" \notin kinds

(* However TCP cuts the response into pieces: the loop says that it is     *)
(* complete exactly when all of it is in the buffer and the server marked  *)
(* its end, so it neither returns a part as a whole nor waits for the      *)
(* timeout when nothing is missing.                                        *)
VerdictIsRight ==
  /\ reader \in {"recv", "received"}
  /\ response \in {r \in Responses : Unmistakable(r)}
  => IF response.framing # "close" /\ buffer = response.text
     THEN complete = response.framing /\ reader = "received"
     ELSE complete = "none"
=============================================================================
