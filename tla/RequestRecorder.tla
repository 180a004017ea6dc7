-------------------------- MODULE RequestRecorder --------------------------
(***************************************************************************)
(* What collector/timeline.h promises of a timeline: per connection, a     *)
(* recording that a received segment opens, that events extend and that a  *)
(* transmission closes and publishes.  Two limits of the program belong to *)
(* the promise: Capacity connections are known at most, and MaxEvents      *)
(* events of one request are kept.                                         *)
(***************************************************************************)
EXTENDS Naturals, Sequences, FiniteSets

CONSTANTS
  Inputs,
  NoSocket,
  Capacity,
  MaxEvents,
  MinSteps,        \* shorter recordings are discarded
  JournalMayFail   \* TRUE when a finished recording may fail to be published

VARIABLES
  recording,   \* known socket -> the events recorded; <<>> when not recording
  published    \* the finished recordings, in the order they finished

recVars == <<recording, published>>

Known == DOMAIN recording

Keep(events, e) == IF Len(events) < MaxEvents THEN Append(events, e) ELSE events

Record(s, events) ==
  recording' = [t \in Known \cup {s} |-> IF t = s THEN events ELSE recording[t]]

Recording(s) == s \in Known /\ recording[s] # <<>>

RecorderInit == recording = <<>> /\ published = <<>>

(* Opening discards an unfinished recording of the same connection. *)
Open(s, e) ==
  /\ s \in Known \/ Cardinality(Known) < Capacity
  /\ Record(s, <<e>>)
  /\ UNCHANGED published

Note(s, e) ==
  /\ Recording(s)
  /\ Record(s, Keep(recording[s], e))
  /\ UNCHANGED published

Close(s, e) ==
  /\ Recording(s)
  /\ Record(s, <<>>)
  /\ LET events == Keep(recording[s], e)
     IN  \/ /\ Len(events) >= MinSteps
            /\ published' = Append(published, [socket |-> s, events |-> events])
         \/ /\ Len(events) < MinSteps \/ JournalMayFail
            /\ UNCHANGED published

(* The recorder is restarted and forgets everything. *)
Forget ==
  /\ recording' = <<>>
  /\ published' = <<>> \/ (JournalMayFail /\ UNCHANGED published)

RecorderNext ==
  \/ \E e \in Inputs :
       /\ e.socket_ptr # NoSocket
       /\ \/ e.event = "EVENT_TCP_V4_RCV" /\ Open(e.socket_ptr, e)
          \/ e.event = "EVENT_TCP_SENDMSG" /\ Close(e.socket_ptr, e)
          \/ /\ e.event \notin {"EVENT_TCP_V4_RCV", "EVENT_TCP_SENDMSG"}
             /\ Note(e.socket_ptr, e)
  \/ Forget

RecorderSpec == RecorderInit /\ [][RecorderNext]_recVars
=============================================================================
