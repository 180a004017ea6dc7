--------------------------- MODULE PacketCapture ---------------------------
(***************************************************************************)
(* HTTP_Request_flow.c, capture_raw_headers_for_flow: a raw socket that    *)
(* sees every frame of the machine from the moment it is open, of which    *)
(* the client decodes the first few of its own connection.                 *)
(*                                                                         *)
(* A frame is its protocol and two endpoints.  Frames that are too short,  *)
(* not IP or not TCP are "other"; they are skipped like those of another   *)
(* connection.                                                             *)
(***************************************************************************)
EXTENDS Integers, Sequences

CONSTANTS
  Local, Remote,   \* the connection: getsockname, getpeername
  Frames,          \* what may be on the wire
  MAX_SHOWN        \* 6

ASSUME CaptureAssumption ==
  /\ Local # Remote
  /\ MAX_SHOWN \in Nat \ {0}
  /\ \A f \in Frames : /\ f = [proto |-> f.proto, src |-> f.src, dst |-> f.dst]
                        /\ f.proto \in {"tcp", "other"}

VARIABLES
  capture,     \* "before", "capturing" or "over"
  raw,         \* the raw socket: "none", "open" or "closed"
  raw_queue,   \* its receive queue
  rows,        \* the lines of the table: a frame and the direction shown
  tapped       \* history: the frames since the raw socket was opened

captureVars == <<capture, raw, raw_queue, rows, tapped>>

ToServer == [proto |-> "tcp", src |-> Local, dst |-> Remote]
ToClient == [proto |-> "tcp", src |-> Remote, dst |-> Local]

(* Mutant: the ports of the server's frames are compared the wrong way.    *)
DirectionOneWay(f) == IF f.src = Local \/ f.dst = Remote THEN 1
                      ELSE IF f = ToClient THEN -1 ELSE 0

(* 1 for the client's frames, -1 for the server's, 0 for all others.       *)
flow_direction(f) ==
  CASE f.src = Local /\ f.dst = Remote -> 1
    [] f.src = Remote /\ f.dst = Local -> -1
    [] OTHER -> 0

CaptureInit ==
  /\ capture = "before"
  /\ raw = "none"
  /\ raw_queue = <<>>
  /\ rows = <<>>
  /\ tapped = <<>>

(* Frames pass; an open raw socket gets a copy. *)
OnWire(fs) ==
  /\ \/ /\ raw = "open"
        /\ raw_queue' = raw_queue \o fs
        /\ tapped' = tapped \o fs
     \/ /\ raw # "open"
        /\ UNCHANGED <<raw_queue, tapped>>
  /\ UNCHANGED <<capture, raw, rows>>

(* getsockname, getpeername or socket(AF_PACKET) fails, the last for want  *)
(* of permission; or SO_RCVTIMEO does, and the raw socket is closed again. *)
CaptureFails ==
  /\ capture = "before"
  /\ capture' = "over"
  /\ raw' \in {"none", "closed"}
  /\ UNCHANGED <<raw_queue, rows, tapped>>

OpenRawSocket ==
  /\ capture = "before"
  /\ capture' = "capturing"
  /\ raw' = "open"
  /\ UNCHANGED <<raw_queue, rows, tapped>>

(* recvfrom returns a frame, which is skipped or shown. *)
ShowFrame ==
  /\ capture = "capturing" /\ Len(rows) < MAX_SHOWN
  /\ raw_queue # <<>>
  /\ raw_queue' = Tail(raw_queue)
  /\ LET f == Head(raw_queue)
         shown == f.proto = "tcp" /\ flow_direction(f) # 0
     IN  rows' = IF shown THEN Append(rows, <<f, flow_direction(f)>>) ELSE rows
  /\ UNCHANGED <<capture, raw, tapped>>

(* Enough is shown, or nothing comes for 8 seconds, or recvfrom fails: the *)
(* socket is closed, and nobody looks at the printed rows again.           *)
EndCapture ==
  /\ capture = "capturing"
  /\ Len(rows) = MAX_SHOWN \/ raw_queue = <<>>
  /\ capture' = "over" /\ raw' = "closed"
  /\ raw_queue' = <<>> /\ rows' = <<>> /\ tapped' = <<>>

capture_raw_headers_for_flow ==
  CaptureFails \/ OpenRawSocket \/ ShowFrame \/ EndCapture

-----------------------------------------------------------------------------
OfTheFlow(f) == f \in {ToServer, ToClient}

(* The frames of the flow among the first k, for every k; and all of them. *)
Keep(kept, f) == IF OfTheFlow(f) THEN Append(kept, f) ELSE kept

Kept(fs) ==
  LET kept[k \in 0 .. Len(fs)] == IF k = 0 THEN <<>> ELSE Keep(kept[k - 1], fs[k])
  IN  kept

Flow(fs) == Kept(fs)[Len(fs)]

Shown == [k \in 1 .. Len(rows) |-> rows[k][1]]

(* The table shows the connection as it was on the wire: in order, without *)
(* a gap or a foreign frame, each with the side that sent it, from the     *)
(* first frame after the raw socket was opened until enough are shown; and *)
(* however the capture ends, its socket is closed.                         *)
RowsAreTheFlow ==
  /\ Len(rows) <= MAX_SHOWN
  /\ Flow(tapped) = Shown \o Flow(raw_queue)
  /\ \A k \in 1 .. Len(rows) : rows[k][2] = IF rows[k][1].src = Local THEN 1 ELSE -1
  /\ raw = "open" <=> capture = "capturing"
=============================================================================
