-------------------------- MODULE MC_HttpExchange --------------------------
(***************************************************************************)
(* One response of every kind that the loop tells apart, and of those that *)
(* mislead it; a server that may break off anywhere; one frame of another  *)
(* connection to the same server and one that is not TCP.                  *)
(***************************************************************************)
EXTENDS HttpExchange

CONSTANTS client, browser, server

MCFrames == {[proto |-> "tcp", src |-> browser, dst |-> server],
             [proto |-> "other", src |-> client, dst |-> server]}

Answer(headers, body, framing) ==
  [text |-> <<Text, Crlf>> \o headers \o <<Crlf>> \o body, framing |-> framing]

Te == <<Transfer, Chunked, Crlf>>
Chunk(data) == <<Text, Crlf>> \o data \o <<Crlf>>

MCResponses ==
  { Answer(<<ContentLength(2), Crlf>>, <<Text, Crlf>>, "length"),
    Answer(<<ContentLength(0), Crlf>>, <<>>, "length"),
    Answer(<<ContentLength(3), Crlf>>, <<ContentLength(1), Zero, Text>>, "length"),
    Answer(<<ContentLength(NoNumber), Crlf>>, <<Text>>, "close"),
    Answer(<<>>, <<Text, ContentLength(0)>>, "close"),
    Answer(Te, LastChunk, "chunked"),
    Answer(Te, Chunk(<<Text>>) \o LastChunk, "chunked"),
    Answer(Te, Chunk(<<Zero>>) \o LastChunk, "chunked"),
    (* Responses that mislead the searches. *)
    Answer(Te, Chunk(<<Zero, Crlf>>) \o LastChunk, "chunked"),
    Answer(Te, Chunk(<<Nul>>) \o LastChunk, "chunked"),
    Answer(<<ContentLength(7), Crlf>>, Te \o LastChunk \o <<Text>>, "length") }
=============================================================================
