------------------------- MODULE EventQueue_proofs -------------------------
(***************************************************************************)
(* The ring of collector/event_queue.c is consistent and implements a      *)
(* bounded first-in first-out queue, for every size and every set of items.*)
(***************************************************************************)
EXTENDS EventQueue, SequenceTheorems, TLAPS

(* The inductive invariant.  RingConsistent alone is enough for head, tail *)
(* and count; QueuedWerePushed is inductive only with it, because a push   *)
(* extends the queued cells by the one under the tail.                     *)
QueueInv == QueueTypeOK /\ RingConsistent /\ QueuedWerePushed

USE QueueSizeAssumption

LEMMA QueueInitInv == QueueInit => QueueInv
  BY DEF QueueInit, QueueInv, QueueTypeOK, RingConsistent, QueuedWerePushed,
         EmptyQueue, Queue, Cells, CellAt

(* What the invariant says of the fields, as plain arithmetic.             *)
LEMMA QueueFields ==
  ASSUME QueueInv
  PROVE  /\ EVENT_QUEUE_SIZE \in Nat /\ EVENT_QUEUE_SIZE > 0
         /\ queue.head \in Nat /\ queue.head < EVENT_QUEUE_SIZE
         /\ queue.tail \in Nat /\ queue.tail < EVENT_QUEUE_SIZE
         /\ queue.count \in Nat /\ queue.count <= EVENT_QUEUE_SIZE
         /\ queue.buffer \in [Cells -> Items \cup {ZeroItem}]
         /\ queue.tail = IF queue.count = EVENT_QUEUE_SIZE THEN queue.head
                         ELSE IF queue.head + queue.count >= EVENT_QUEUE_SIZE
                              THEN queue.head + queue.count - EVENT_QUEUE_SIZE
                              ELSE queue.head + queue.count
  BY DEF QueueInv, QueueTypeOK, RingConsistent, CellAt, Queue, Cells

(* A successful push, written field by field.                              *)
LEMMA PushEffect ==
  ASSUME QueueInv, NEW e \in Items, event_queue_push(e), ~ is_full
  PROVE  /\ queue' \in Queue
         /\ queue'.head = queue.head
         /\ queue'.tail = Advance(queue.tail)
         /\ queue'.count = queue.count + 1
         /\ queue'.buffer = [queue.buffer EXCEPT ![queue.tail] = e]
<1>1. queue' = [queue EXCEPT !.buffer[queue.tail] = e,
                             !.tail = Advance(@),
                             !.count = @ + 1]
  BY DEF event_queue_push
<1>2. /\ queue \in Queue
      /\ queue.buffer \in [Cells -> Items \cup {ZeroItem}]
      /\ queue.head \in Cells /\ queue.tail \in Cells
      /\ queue.count \in 0 .. EVENT_QUEUE_SIZE
      /\ queue.count # EVENT_QUEUE_SIZE
  BY DEF QueueInv, QueueTypeOK, Queue, is_full
<1>3. queue' = [buffer |-> [queue.buffer EXCEPT ![queue.tail] = e],
                head |-> queue.head,
                tail |-> Advance(queue.tail),
                count |-> queue.count + 1]
  BY <1>1, <1>2 DEF Queue
<1>4. Advance(queue.tail) \in Cells
  BY <1>2 DEF Advance, Cells
<1>5. queue' \in Queue
  BY <1>2, <1>3, <1>4 DEF Queue
<1>. QED
  BY <1>1, <1>3, <1>5

(* A pop, written field by field.                                          *)
LEMMA PopEffect ==
  ASSUME QueueInv, event_queue_pop
  PROVE  /\ queue.count > 0
         /\ queue' \in Queue
         /\ queue'.head = Advance(queue.head)
         /\ queue'.tail = queue.tail
         /\ queue'.count = queue.count - 1
         /\ queue'.buffer = queue.buffer
         /\ popped' = queue.buffer[queue.head]
<1>1. /\ queue' = [queue EXCEPT !.head = Advance(@), !.count = @ - 1]
      /\ popped' = queue.buffer[queue.head]
      /\ queue.count # 0
  BY DEF event_queue_pop, is_empty
<1>2. /\ queue \in Queue
      /\ queue.buffer \in [Cells -> Items \cup {ZeroItem}]
      /\ queue.head \in Cells /\ queue.tail \in Cells
      /\ queue.count \in 0 .. EVENT_QUEUE_SIZE
  BY DEF QueueInv, QueueTypeOK, Queue
<1>3. queue' = [buffer |-> queue.buffer,
                head |-> Advance(queue.head),
                tail |-> queue.tail,
                count |-> queue.count - 1]
  BY <1>1, <1>2 DEF Queue
<1>4. Advance(queue.head) \in Cells
  BY <1>2 DEF Advance, Cells
<1>5. queue' \in Queue
  BY <1>1, <1>2, <1>3, <1>4 DEF Queue
<1>. QED
  BY <1>1, <1>2, <1>3, <1>5

LEMMA QueueNextInv == QueueInv /\ [QueueNext]_queueVars => QueueInv'
<1>. SUFFICES ASSUME QueueInv, [QueueNext]_queueVars PROVE QueueInv'
  OBVIOUS
<1>1. ASSUME NEW e \in Items, event_queue_push(e), popped' = popped
      PROVE  QueueInv'
  <2>1. CASE is_full
    BY <1>1, <2>1 DEF QueueInv, QueueTypeOK, RingConsistent, QueuedWerePushed,
                      CellAt, event_queue_push, queueVars
  <2>2. CASE ~ is_full
    <3>1. QueueTypeOK'
      BY <1>1, <2>2, PushEffect DEF QueueInv, QueueTypeOK
    <3>2. RingConsistent'
      <4>1. /\ queue'.head = queue.head
            /\ queue'.tail = Advance(queue.tail)
            /\ queue'.count = queue.count + 1
        BY <1>1, <2>2, PushEffect
      <4>2. queue.count < EVENT_QUEUE_SIZE
        BY <2>2, QueueFields DEF is_full
      <4>. QED
        BY <4>1, <4>2, QueueFields DEF RingConsistent, CellAt, Advance
    <3>3. QueuedWerePushed'
      <4>. SUFFICES ASSUME NEW k \in 1 .. queue'.count
                    PROVE  queue'.buffer[CellAt(k - 1)'] \in Items
        BY DEF QueuedWerePushed
      <4>0. CellAt(k - 1)' = CellAt(k - 1)
        BY <1>1, <2>2, PushEffect DEF CellAt
      <4>1. CASE k = queue.count + 1
        <5>1. CellAt(k - 1) = queue.tail
          BY <4>1, <2>2, QueueFields DEF CellAt, is_full
        <5>2. queue.tail \in Cells
          BY QueueFields DEF Cells
        <5>3. queue'.buffer = [queue.buffer EXCEPT ![queue.tail] = e]
          BY <1>1, <2>2, PushEffect
        <5>. QED
          BY <4>0, <5>1, <5>2, <5>3, QueueFields
      <4>2. CASE k \in 1 .. queue.count
        <5>1. CellAt(k - 1) # queue.tail /\ CellAt(k - 1) \in Cells
          BY <4>2, <2>2, QueueFields DEF CellAt, Cells, is_full
        <5>. QED
          BY <4>0, <4>2, <5>1, <1>1, <2>2, PushEffect, QueueFields
             DEF QueueInv, QueuedWerePushed
      <4>. QED
        <5>1. queue'.count = queue.count + 1
          BY <1>1, <2>2, PushEffect
        <5>. QED
          BY <4>1, <4>2, <5>1, QueueFields
    <3>. QED
      BY <3>1, <3>2, <3>3 DEF QueueInv
  <2>. QED
    BY <2>1, <2>2
<1>2. ASSUME event_queue_pop PROVE QueueInv'
  <2>1. QueueTypeOK'
    BY <1>2, PopEffect
       DEF QueueInv, QueueTypeOK, QueuedWerePushed, CellAt, Queue, Cells
  <2>2. RingConsistent'
    BY <1>2, PopEffect, QueueFields DEF RingConsistent, CellAt, Advance
  <2>3. QueuedWerePushed'
    <3>. SUFFICES ASSUME NEW k \in 1 .. queue'.count
                  PROVE  queue'.buffer[CellAt(k - 1)'] \in Items
      BY DEF QueuedWerePushed
    <3>1. k + 1 \in 1 .. queue.count /\ CellAt(k - 1)' = CellAt((k + 1) - 1)
      BY <1>2, PopEffect, QueueFields DEF CellAt, Advance
    <3>. QED
      BY <3>1, <1>2, PopEffect DEF QueueInv, QueuedWerePushed
  <2>. QED
    BY <2>1, <2>2, <2>3 DEF QueueInv
<1>3. ASSUME event_queue_clear, popped' = popped PROVE QueueInv'
  BY <1>3 DEF event_queue_clear, QueueInv, QueueTypeOK, RingConsistent,
              QueuedWerePushed, EmptyQueue, Queue, Cells, CellAt
<1>4. ASSUME UNCHANGED queueVars PROVE QueueInv'
  BY <1>4 DEF queueVars, QueueInv, QueueTypeOK, RingConsistent,
              QueuedWerePushed, CellAt
<1>. QED
  BY <1>1, <1>2, <1>3, <1>4 DEF QueueNext

(* The struct keeps its types: no index leaves the buffer and the count    *)
(* never exceeds EVENT_QUEUE_SIZE, in whatever order the queue is used.    *)
THEOREM QueueTypeCorrect == QueueSpec => []QueueTypeOK
<1>1. QueueInv => QueueTypeOK
  BY DEF QueueInv
<1>. QED
  BY QueueInitInv, QueueNextInv, <1>1, PTL DEF QueueSpec

(* head, tail and count of the ring always agree.                          *)
THEOREM QueueRingConsistent == QueueSpec => []RingConsistent
<1>1. QueueInv => RingConsistent
  BY DEF QueueInv
<1>. QED
  BY QueueInitInv, QueueNextInv, <1>1, PTL DEF QueueSpec

(* Every cell between head and tail holds an event that was pushed.        *)
THEOREM QueueHoldsPushed == QueueSpec => []QueuedWerePushed
<1>1. QueueInv => QueuedWerePushed
  BY DEF QueueInv
<1>. QED
  BY QueueInitInv, QueueNextInv, <1>1, PTL DEF QueueSpec

-----------------------------------------------------------------------------
(* The refinement mapping: the cells from head on, as a sequence.          *)
ContentsSeq ==
  /\ Contents \in Seq(Items)
  /\ Len(Contents) = queue.count
  /\ \A k \in 1 .. queue.count : Contents[k] = queue.buffer[CellAt(k - 1)]

LEMMA ContentsAreSeq == QueueInv => ContentsSeq
<1>. SUFFICES ASSUME QueueInv PROVE ContentsSeq
  OBVIOUS
<1>1. Contents \in [1 .. queue.count -> Items]
  BY DEF Contents, QueueInv, QueuedWerePushed
<1>2. queue.count \in Nat
  BY QueueFields
<1>3. Contents \in Seq(Items)
  BY <1>1, <1>2, SeqDef, Zenon
<1>4. Len(Contents) = queue.count
  BY <1>1, <1>2, <1>3, LenProperties
<1>. QED
  BY <1>3, <1>4 DEF Contents, ContentsSeq

(* A push that is not refused appends to the contents.                     *)
LEMMA PushAppends ==
  ASSUME QueueInv, QueueInv', NEW e \in Items, event_queue_push(e), ~ is_full
  PROVE  Contents' = Append(Contents, e)
<1>1. /\ queue'.head = queue.head
      /\ queue'.count = queue.count + 1
      /\ queue'.buffer = [queue.buffer EXCEPT ![queue.tail] = e]
      /\ queue.count < EVENT_QUEUE_SIZE
  BY PushEffect, QueueFields DEF is_full
<1>2. ContentsSeq /\ ContentsSeq'
  BY ContentsAreSeq, PTL
<1>3. /\ Contents' \in Seq(Items)
      /\ Append(Contents, e) \in Seq(Items)
      /\ Len(Contents') = queue.count + 1
      /\ Len(Append(Contents, e)) = queue.count + 1
  BY <1>1, <1>2, QueueFields DEF ContentsSeq
<1>4. ASSUME NEW k \in 1 .. queue.count + 1
      PROVE  Contents'[k] = Append(Contents, e)[k]
  <2>. DEFINE c == CellAt(k - 1)
  <2>1. CellAt(k - 1)' = c
    BY <1>1 DEF CellAt
  <2>2. Contents'[k] = queue'.buffer[CellAt(k - 1)']
    BY <1>1, <1>2 DEF ContentsSeq
  <2>3. Contents'[k] = [queue.buffer EXCEPT ![queue.tail] = e][c]
    BY <1>1, <2>1, <2>2
  <2>4. c \in Cells /\ (c = queue.tail <=> k = queue.count + 1)
    <3>1. queue.count < EVENT_QUEUE_SIZE
      BY <1>1
    <3>2. c \in Cells
      BY <3>1, QueueFields, SMTT(60) DEF CellAt, Cells
    <3>3. CASE k = queue.count + 1
      BY <3>1, <3>2, <3>3, QueueFields DEF CellAt
    <3>4. CASE k \in 1 .. queue.count
      BY <3>1, <3>2, <3>4, QueueFields DEF CellAt
    <3>. QED
      BY <3>2, <3>3, <3>4, QueueFields
  <2>5. k \in 1 .. queue.count => Contents[k] = queue.buffer[c]
    BY <1>2 DEF ContentsSeq
  <2>. HIDE DEF c
  <2>6. Contents'[k] = IF k = queue.count + 1 THEN e ELSE queue.buffer[c]
    BY <2>3, <2>4, QueueFields
  <2>. QED
    BY <2>5, <2>6, <1>2, QueueFields DEF ContentsSeq
<1>. QED
  BY <1>3, <1>4, SeqEqual

(* A pop hands out the first of the contents and leaves the rest.          *)
LEMMA PopTakesHead ==
  ASSUME QueueInv, QueueInv', event_queue_pop
  PROVE  /\ Contents # <<>>
         /\ popped' = Head(Contents)
         /\ Contents' = Tail(Contents)
<1>1. /\ queue.count > 0
      /\ queue'.head = Advance(queue.head)
      /\ queue'.count = queue.count - 1
      /\ queue'.buffer = queue.buffer
      /\ popped' = queue.buffer[queue.head]
  BY PopEffect
<1>2. ContentsSeq /\ ContentsSeq'
  BY ContentsAreSeq, PTL
<1>3. /\ Contents # <<>>
      /\ Head(Contents) = Contents[1]
      /\ Tail(Contents) \in Seq(Items)
      /\ Len(Tail(Contents)) = queue.count - 1
      /\ \A k \in 1 .. queue.count - 1 : Tail(Contents)[k] = Contents[k + 1]
  <2>1. Contents # <<>>
    BY <1>1, <1>2, EmptySeq, QueueFields DEF ContentsSeq
  <2>. QED
    BY <2>1, <1>2, HeadTailProperties, QueueFields DEF ContentsSeq
<1>4. Contents' \in Seq(Items) /\ Len(Contents') = queue.count - 1
  BY <1>1, <1>2 DEF ContentsSeq
<1>5. ASSUME NEW k \in 1 .. queue.count - 1
      PROVE  Contents'[k] = Tail(Contents)[k]
  <2>1. CellAt(k - 1)' = CellAt((k + 1) - 1)
    BY <1>1, QueueFields DEF CellAt, Advance
  <2>2. Contents'[k] = queue.buffer[CellAt(k - 1)']
    BY <1>1, <1>2 DEF ContentsSeq
  <2>3. k + 1 \in 1 .. queue.count
    BY QueueFields
  <2>4. Contents[k + 1] = queue.buffer[CellAt((k + 1) - 1)]
    BY <1>2, <2>3 DEF ContentsSeq
  <2>. QED
    BY <1>3, <2>1, <2>2, <2>4
<1>6. Contents' = Tail(Contents)
  BY <1>3, <1>4, <1>5, SeqEqual
<1>7. Contents[1] = queue.buffer[queue.head]
  <2>1. CellAt(1 - 1) = queue.head
    BY QueueFields DEF CellAt
  <2>2. 1 \in 1 .. queue.count
    BY <1>1, QueueFields
  <2>. QED
    BY <1>2, <2>1, <2>2 DEF ContentsSeq
<1>. QED
  BY <1>1, <1>3, <1>6, <1>7

(* The ring implements the bounded first-in first-out queue: whatever the  *)
(* number of wrap-arounds, event_queue_pop returns events in the order in  *)
(* which event_queue_push accepted them.                                   *)
THEOREM QueueImplementsFifo == QueueSpec => ImplementsFifo
<1>1. QueueInit => Fifo!FifoInit
  BY DEF QueueInit, EmptyQueue, Fifo!FifoInit, Contents
<1>2. QueueInv /\ QueueInv' /\ [QueueNext]_queueVars
        => [Fifo!FifoNext]_(Fifo!fifoVars)
  <2>. SUFFICES ASSUME QueueInv, QueueInv', [QueueNext]_queueVars
                PROVE  [Fifo!FifoNext]_(Fifo!fifoVars)
    OBVIOUS
  <2>1. ASSUME NEW e \in Items, event_queue_push(e), popped' = popped
        PROVE  [Fifo!FifoNext]_(Fifo!fifoVars)
    <3>1. CASE is_full
      BY <2>1, <3>1 DEF event_queue_push, queueVars, Fifo!fifoVars, Contents, CellAt
    <3>2. CASE ~ is_full
      <4>1. Len(Contents) < EVENT_QUEUE_SIZE
        BY <3>2, ContentsAreSeq, QueueFields DEF is_full, ContentsSeq
      <4>2. Contents' = Append(Contents, e)
        BY <2>1, <3>2, PushAppends
      <4>. QED
        BY <2>1, <4>1, <4>2 DEF Fifo!FifoNext, Fifo!Push
    <3>. QED
      BY <3>1, <3>2
  <2>2. ASSUME event_queue_pop PROVE [Fifo!FifoNext]_(Fifo!fifoVars)
    BY <2>2, PopTakesHead DEF Fifo!FifoNext, Fifo!Pop
  <2>3. ASSUME event_queue_clear, popped' = popped PROVE [Fifo!FifoNext]_(Fifo!fifoVars)
    BY <2>3 DEF event_queue_clear, EmptyQueue, Contents, Fifo!FifoNext, Fifo!Clear
  <2>4. ASSUME UNCHANGED queueVars PROVE [Fifo!FifoNext]_(Fifo!fifoVars)
    BY <2>4 DEF queueVars, Fifo!fifoVars, Contents, CellAt
  <2>. QED
    BY <2>1, <2>2, <2>3, <2>4 DEF QueueNext
<1>. QED
  BY QueueInitInv, QueueNextInv, <1>1, <1>2, PTL
     DEF QueueSpec, ImplementsFifo, Fifo!FifoSpec
=============================================================================
