---------------------------- MODULE HttpFraming ----------------------------
(***************************************************************************)
(* HTTP_Request_flow.c: how the client finds out where a response ends.    *)
(* It searches the bytes received so far, as a C string, for the end of    *)
(* the headers, two header names and the end of a chunked body.            *)
(*                                                                         *)
(* A response is a sequence of symbols: the texts that a search can find,  *)
(* a NUL byte, and Text for all the rest.  A text that is cut in two by    *)
(* recv() is not found by any search, like one that is still to come, so   *)
(* responses are cut between symbols only.                                 *)
(***************************************************************************)
EXTENDS Integers, Sequences

Kinds == {"text", "crlf", "content-length", "transfer-encoding", "chunked",
          "zero", "nul"}

(* n is the number after "Content-Length:", or NoNumber; 0 elsewhere.      *)
Symbol == [kind : Kinds, n : Int]
NoNumber == -1

Plain(kind) == [kind |-> kind, n |-> 0]
Text     == Plain("text")
Crlf     == Plain("crlf")
Transfer == Plain("transfer-encoding")   \* "Transfer-Encoding:"
Chunked  == Plain("chunked")
Zero     == Plain("zero")                \* "0"
Nul      == Plain("nul")
ContentLength(n) == [kind |-> "content-length", n |-> n]

HeadersEnd == <<Crlf, Crlf>>
LastChunk  == <<Zero, Crlf, Crlf>>

Least(S) == CHOOSE k \in S : \A j \in S : k <= j

From(s, k) == SubSeq(s, k, Len(s))

(* The string that begins in the buffer at position k: up to the first NUL.*)
CString(s, k) ==
  LET nuls == {j \in k .. Len(s) : s[j] = Nul}
  IN  SubSeq(s, k, IF nuls = {} THEN Len(s) ELSE Least(nuls) - 1)

(* strstr: where p occurs first in a string, 0 for NULL.                   *)
strstr(s, p) ==
  LET places == {k \in 1 .. Len(s) + 1 - Len(p) : SubSeq(s, k, k + Len(p) - 1) = p}
  IN  IF places = {} THEN 0 ELSE Least(places)

(* header_bytes, 0 as long as the headers have not ended.                  *)
HeaderBytes(buffer) ==
  LET at == strstr(CString(buffer, 1), HeadersEnd)
  IN  IF at = 0 THEN 0 ELSE at + Len(HeadersEnd) - 1

(* The first "Content-Length:" counts if it is in the headers and a number *)
(* follows; NoNumber stands for a result of 0.                             *)
parse_content_length(buffer, headers_len) ==
  LET s == CString(buffer, 1)
      found == {k \in 1 .. Len(s) : s[k].kind = "content-length"}
  IN  IF found # {} /\ Least(found) <= headers_len THEN s[Least(found)].n
      ELSE NoNumber

(* Searches the whole buffer, body included. *)
is_chunked_transfer(buffer) ==
  LET s == CString(buffer, 1)
      found == strstr(s, <<Transfer>>)
  IN  found # 0 /\ strstr(From(s, found), <<Chunked>>) # 0

chunked_body_complete(body) ==
  \/ strstr(body, LastChunk) = 1
  \/ strstr(body, <<Crlf>> \o LastChunk) # 0

(* Which of the two framings, if any, says that the response is complete.  *)
(* has_content_length, content_length and uses_chunked are what a search   *)
(* of the present buffer gives: once found they are found again in every   *)
(* longer buffer.                                                          *)
Framed(buffer) ==
  LET h == HeaderBytes(buffer)
      length == parse_content_length(buffer, h)
  IN  IF h = 0 THEN "none"
      ELSE IF length # NoNumber /\ Len(buffer) - h >= length THEN "length"
      ELSE IF is_chunked_transfer(buffer) /\ chunked_body_complete(CString(buffer, h + 1))
           THEN "chunked"
      ELSE "none"
=============================================================================
