----------------------------- MODULE EventQueue -----------------------------
(***************************************************************************)
(* collector/event_queue.c: a ring of EVENT_QUEUE_SIZE events with a head, *)
(* a tail and a count.  It is single-threaded: every call runs on the      *)
(* collector's only thread, so each call is one atomic action.             *)
(***************************************************************************)
EXTENDS Naturals, Sequences

CONSTANTS
  Items,              \* the events that may be pushed
  ZeroItem,           \* what memset leaves in a buffer cell
  EVENT_QUEUE_SIZE

ASSUME QueueSizeAssumption == EVENT_QUEUE_SIZE \in Nat \ {0}

VARIABLES
  queue,    \* struct event_queue
  popped    \* the event that the latest successful pop copied to its caller

queueVars == <<queue, popped>>

Cells == 0 .. EVENT_QUEUE_SIZE - 1

Queue == [buffer : [Cells -> Items \cup {ZeroItem}],
          head   : Cells,
          tail   : Cells,
          count  : 0 .. EVENT_QUEUE_SIZE]

EmptyQueue == [buffer |-> [c \in Cells |-> ZeroItem],
               head |-> 0, tail |-> 0, count |-> 0]

QueueInit == queue = EmptyQueue /\ popped = ZeroItem

is_empty == queue.count = 0

(* Mutant: off by one. *)
is_full_late == queue.count > EVENT_QUEUE_SIZE

is_full == queue.count >= EVENT_QUEUE_SIZE

(* head++ and tail++ with the reset to 0 at the end of the buffer. *)
Advance(c) == IF c + 1 = EVENT_QUEUE_SIZE THEN 0 ELSE c + 1

(* Mutant: a full queue makes room. *)
push_overwriting(e) ==
  queue' = [queue EXCEPT !.buffer[queue.tail] = e,
                         !.tail = Advance(@),
                         !.head = IF is_full THEN Advance(@) ELSE @,
                         !.count = IF is_full THEN @ ELSE @ + 1]

(* event_queue_push: a full queue returns false and is left as it was. *)
event_queue_push(e) ==
  \/ /\ is_full
     /\ UNCHANGED queue
  \/ /\ ~ is_full
     /\ queue' = [queue EXCEPT !.buffer[queue.tail] = e,
                               !.tail = Advance(@),
                               !.count = @ + 1]

(* event_queue_pop on a non-empty queue; on an empty one it returns false. *)
event_queue_pop ==
  /\ ~ is_empty
  /\ popped' = queue.buffer[queue.head]
  /\ queue' = [queue EXCEPT !.head = Advance(@), !.count = @ - 1]

(* Mutant: clear leaves the tail where it is. *)
clear_keeping_tail == queue' = [EmptyQueue EXCEPT !.tail = queue.tail]

event_queue_clear == queue' = EmptyQueue

QueueNext == \/ \E e \in Items : event_queue_push(e) /\ UNCHANGED popped
             \/ event_queue_pop
             \/ event_queue_clear /\ UNCHANGED popped

QueueSpec == QueueInit /\ [][QueueNext]_queueVars

-----------------------------------------------------------------------------
(* Type invariant of struct event_queue. *)
QueueTypeOK == queue \in Queue /\ popped \in Items \cup {ZeroItem}

(* The cell k places after the head, and the events between head and tail. *)
CellAt(k) == IF queue.head + k >= EVENT_QUEUE_SIZE
             THEN queue.head + k - EVENT_QUEUE_SIZE
             ELSE queue.head + k

Contents == [k \in 1 .. queue.count |-> queue.buffer[CellAt(k - 1)]]

(* The tail is always count cells after the head, full and empty queue    *)
(* (where head = tail) included: the three fields that event_queue_push,   *)
(* _pop and _clear update separately never disagree.                       *)
RingConsistent ==
  queue.tail = IF queue.count = EVENT_QUEUE_SIZE THEN queue.head
                                                 ELSE CellAt(queue.count)

(* No queued cell is one that memset left behind: what a pop copies out    *)
(* was pushed by somebody.                                                 *)
QueuedWerePushed ==
  \A k \in 1 .. queue.count : queue.buffer[CellAt(k - 1)] \in Items

Fifo == INSTANCE BoundedFifo WITH fifo <- Contents, Capacity <- EVENT_QUEUE_SIZE

(* The ring implements a bounded first-in first-out queue across every    *)
(* wrap-around of head and tail.                                           *)
ImplementsFifo == Fifo!FifoSpec
=============================================================================
