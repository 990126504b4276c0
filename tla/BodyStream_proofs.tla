-------------------------- MODULE BodyStream_proofs --------------------------
(***************************************************************************)
(* Proofs about BodyStream for every set of chunks and every bound: the    *)
(* inductive invariant, the safety properties that follow from it, and     *)
(* that the stream implements BodyPipe.                                    *)
(***************************************************************************)
EXTENDS BodyStream, SequenceTheorems, TLAPS

(* What each method of the queue does to each of its fields. *)
LEMMA PutFields ==
    ASSUME NEW q \in QueueType, NEW item \in Item
    PROVE  /\ Put(q, item) \in QueueType
           /\ Put(q, item).items = Append(q.items, item)
           /\ Put(q, item).event = (q.event \/ q.waiting)
           /\ Put(q, item).waiting = q.waiting
           /\ Put(q, item).dirty = TRUE
           /\ Put(q, item).finished = q.finished
  <1>1. q.items \in Seq(Item)
    BY DEF QueueType
  <1>2. Append(q.items, item) \in Seq(Item)
    BY <1>1, AppendProperties
  <1>3. (q.event \/ q.waiting) \in BOOLEAN
    OBVIOUS
  <1>. HIDE DEF Item
  <1>. QED BY <1>2, <1>3 DEF Put, QueueType

(* end() queues the marker exactly when a reader waits.                    *)
LEMMA EndFields ==
    ASSUME NEW q \in QueueType
    PROVE  /\ End(q) \in QueueType
           /\ End(q).items =
                IF q.waiting THEN Append(q.items, None) ELSE q.items
           /\ End(q).event = (q.event \/ q.waiting)
           /\ End(q).waiting = q.waiting
           /\ End(q).dirty = (q.dirty \/ q.waiting)
           /\ End(q).finished = TRUE
  <1>1. None \in Item
    BY DEF Item
  <1>2. CASE q.waiting
    <2>1. Put(q, None) \in QueueType
      BY <1>1, PutFields
    <2>. QED BY <1>1, <1>2, <2>1, PutFields DEF End, QueueType
  <1>3. CASE ~q.waiting
    BY <1>3 DEF End, QueueType
  <1>. QED BY <1>2, <1>3

(* clear() empties a queue that was marked dirty.                          *)
LEMMA ClearFields ==
    ASSUME NEW q \in QueueType
    PROVE  /\ Clear(q) \in QueueType
           /\ Clear(q).items = IF q.dirty THEN <<>> ELSE q.items
           /\ Clear(q).dirty = FALSE
           /\ Clear(q).finished = FALSE
  <1>1. <<>> \in Seq(Item)
    BY EmptySeq
  <1>. QED BY <1>1 DEF Clear, QueueType

(* get() takes the head of a queue that is not empty.                      *)
LEMMA PopFields ==
    ASSUME NEW q \in QueueType, q.items # <<>>
    PROVE  /\ Pop(q) \in QueueType
           /\ Pop(q).items = Tail(q.items)
           /\ Pop(q).waiting = q.waiting
           /\ Pop(q).dirty = q.dirty
           /\ Pop(q).finished = q.finished
  <1>1. Tail(q.items) \in Seq(Item)
    BY HeadTailProperties DEF QueueType
  <1>. QED BY <1>1 DEF Pop, QueueType

(* So does get() after event.wait().                                       *)
LEMMA ResumeFields ==
    ASSUME NEW q \in QueueType, q.items # <<>>
    PROVE  /\ Resume(q) \in QueueType
           /\ Resume(q).items = Tail(q.items)
           /\ Resume(q).dirty = q.dirty
           /\ Resume(q).finished = q.finished
  <1>1. Tail(q.items) \in Seq(Item)
    BY HeadTailProperties DEF QueueType
  <1>. QED BY <1>1 DEF Resume, QueueType

(* A reader that begins to wait leaves the items alone.                    *)
LEMMA BeginWaitFields ==
    ASSUME NEW q \in QueueType
    PROVE  /\ BeginWait(q) \in QueueType
           /\ BeginWait(q).items = q.items
           /\ BeginWait(q).waiting = TRUE
           /\ BeginWait(q).dirty = q.dirty
           /\ BeginWait(q).finished = q.finished
  BY DEF BeginWait, QueueType
-----------------------------------------------------------------------------
(* Facts about sequences in the form the steps below need. *)
LEMMA TailFacts ==
    ASSUME NEW s \in Seq(Item), s # <<>>
    PROVE  /\ Len(s) \in Nat /\ 1 \in 1..Len(s) /\ Len(s) \in 1..Len(s)
           /\ Head(s) = s[1] /\ s[1] \in Item
           /\ Tail(s) \in Seq(Item)
           /\ Len(Tail(s)) = Len(s) - 1
           /\ \A i \in 1..Len(Tail(s)) : Tail(s)[i] = s[i + 1]
  BY HeadTailProperties, EmptySeq

(* Length and elements of a sequence that was appended to.                 *)
LEMMA AppendFacts ==
    ASSUME NEW S, NEW s \in Seq(S), NEW x \in S
    PROVE  /\ Append(s, x) \in Seq(S)
           /\ Append(s, x) # <<>>
           /\ Len(s) \in Nat
           /\ Len(Append(s, x)) = Len(s) + 1
           /\ Append(s, x)[Len(s) + 1] = x
           /\ \A i \in 1..Len(s) : Append(s, x)[i] = s[i]
  BY AppendProperties

(* Delivering the first chunk of the queue. *)
LEMMA TailKeepsOrder ==
    ASSUME NEW s \in Seq(Item), s # <<>>, s[1] # None,
           NEW b \in Seq(Chunk), NEW n \in Nat,
           Ordered(s, b, n), Complete(s, b, n)
    PROVE  /\ Ordered(Tail(s), b, n + 1) /\ Complete(Tail(s), b, n + 1)
           /\ Marked(Tail(s)) => Marked(s)
           /\ n < Len(b)
  <1>. DEFINE t == Tail(s)
  <1>1. /\ t \in Seq(Item) /\ Len(s) \in Nat /\ Len(t) \in Nat
        /\ Len(t) = Len(s) - 1 /\ Len(b) \in Nat
        /\ \A i \in 1..Len(t) : t[i] = s[i + 1]
    BY TailFacts
  <1>. HIDE DEF t
  <1>2. Ordered(t, b, n + 1)
    <2>. SUFFICES ASSUME NEW i \in 1..Len(t)
                  PROVE  IF t[i] = None THEN i = Len(t)
                                        ELSE t[i] = b[(n + 1) + i]
      BY DEF Ordered
    <2>1. i + 1 \in 1..Len(s) /\ t[i] = s[i + 1]
      BY <1>1
    <2>2. n + (i + 1) = (n + 1) + i
      BY <1>1
    <2>. QED BY <2>1, <2>2, <1>1 DEF Ordered
  <1>3. Marked(t) <=> Marked(s)
    <2>1. CASE t = <<>>
      <3>1. Len(s) = 1
        BY <2>1, <1>1, EmptySeq
      <3>. QED BY <3>1, <2>1 DEF Marked
    <2>2. CASE t # <<>>
      <3>1. Len(t) \in 1..Len(t)
        BY <2>2, <1>1, EmptySeq
      <3>2. t[Len(t)] = s[Len(s)]
        BY <3>1, <1>1
      <3>. QED BY <3>2, <2>2 DEF Marked
    <2>. QED BY <2>1, <2>2
  <1>4. Complete(t, b, n + 1)
    BY <1>1, <1>3 DEF Complete
  <1>5. n < Len(b)
    <2>1. CASE Marked(s)
      <3>1. Len(s) # 1
        BY <2>1 DEF Marked
      <3>2. Len(s) # 0
        BY EmptySeq
      <3>. QED BY <2>1, <3>1, <3>2, <1>1 DEF Complete
    <2>2. CASE ~Marked(s)
      <3>1. Len(s) # 0
        BY EmptySeq
      <3>. QED BY <2>2, <3>1, <1>1 DEF Complete
    <2>. QED BY <2>1, <2>2
  <1>. QED BY <1>2, <1>3, <1>4, <1>5 DEF t

(* The end marker comes to the head only after the last chunk. *)
LEMMA HeadMarker ==
    ASSUME NEW s \in Seq(Item), s # <<>>, s[1] = None,
           NEW b \in Seq(Chunk), NEW n \in Nat,
           Ordered(s, b, n), Complete(s, b, n)
    PROVE  Tail(s) = <<>> /\ Marked(s) /\ n = Len(b)
  <1>1. Len(s) = 1
    BY TailFacts DEF Ordered
  <1>2. Tail(s) \in Seq(Item) /\ Len(Tail(s)) = 0
    BY <1>1, TailFacts
  <1>3. Tail(s) = <<>>
    BY <1>2, EmptySeq
  <1>. QED BY <1>1, <1>3 DEF Marked, Complete

(* A queue that does not end in the marker holds chunks only. *)
LEMMA NoMarker ==
    ASSUME NEW s \in Seq(Item), NEW b, NEW n, Ordered(s, b, n), ~Marked(s)
    PROVE  \A i \in 1..Len(s) : s[i] \in Chunk
  <1>. SUFFICES ASSUME NEW i \in 1..Len(s) PROVE s[i] \in Chunk
    OBVIOUS
  <1>1. s # <<>>
    BY EmptySeq
  <1>2. s[i] # None
    BY <1>1 DEF Ordered, Marked
  <1>. QED BY <1>2, ElementOfSeq DEF Item

(* on_body queues a chunk. *)
LEMMA AppendChunkKeepsOrder ==
    ASSUME NEW s \in Seq(Item), NEW b \in Seq(Chunk), NEW n \in Nat,
           NEW c \in Chunk, ~Marked(s), Ordered(s, b, n), Complete(s, b, n)
    PROVE  /\ Ordered(Append(s, c), Append(b, c), n)
           /\ Complete(Append(s, c), Append(b, c), n)
           /\ ~Marked(Append(s, c))
  <1>. DEFINE t == Append(s, c)
              d == Append(b, c)
  <1>1. c \in Item /\ c # None
    BY NoneAssumption DEF Item
  <1>2. /\ t \in Seq(Item) /\ t # <<>> /\ Len(s) \in Nat
        /\ Len(t) = Len(s) + 1 /\ t[Len(s) + 1] = c
        /\ \A i \in 1..Len(s) : t[i] = s[i]
    BY <1>1, AppendFacts
  <1>3. /\ d \in Seq(Chunk) /\ Len(b) \in Nat
        /\ Len(d) = Len(b) + 1 /\ d[Len(b) + 1] = c
        /\ \A i \in 1..Len(b) : d[i] = b[i]
    BY AppendFacts
  <1>. HIDE DEF t, d
  <1>4. n + Len(s) = Len(b)
    BY <1>2, <1>3 DEF Complete
  <1>5. n + (Len(s) + 1) = Len(b) + 1
    <2>1. Len(s) \in Nat /\ Len(b) \in Nat
      OBVIOUS
    <2>. QED BY <1>4, <2>1
  <1>6. ~Marked(t)
    BY <1>1, <1>2 DEF Marked
  <1>7. Ordered(t, d, n)
    <2>. SUFFICES ASSUME NEW i \in 1..Len(t)
                  PROVE  t[i] # None /\ t[i] = d[n + i]
      BY DEF Ordered
    <2>1. CASE i = Len(s) + 1
      BY <2>1, <1>1, <1>2, <1>3, <1>5
    <2>2. CASE i # Len(s) + 1
      <3>1. i \in 1..Len(s) /\ n + i \in 1..Len(b)
        BY <2>2, <1>2, <1>3, <1>4
      <3>2. s[i] \in Chunk
        BY <3>1, NoMarker
      <3>. QED BY <3>1, <3>2, <1>2, <1>3, NoneAssumption DEF Ordered
    <2>. QED BY <2>1, <2>2
  <1>8. Complete(t, d, n)
    BY <1>2, <1>3, <1>5, <1>6 DEF Complete
  <1>. QED BY <1>7, <1>8, <1>6 DEF t, d

(* end() queues the marker. *)
LEMMA AppendMarkerKeepsOrder ==
    ASSUME NEW s \in Seq(Item), NEW b \in Seq(Chunk), NEW n \in Nat,
           ~Marked(s), Ordered(s, b, n), Complete(s, b, n)
    PROVE  /\ Ordered(Append(s, None), b, n)
           /\ Complete(Append(s, None), b, n)
  <1>. DEFINE t == Append(s, None)
  <1>1. /\ t \in Seq(Item) /\ t # <<>> /\ Len(s) \in Nat
        /\ Len(t) = Len(s) + 1 /\ t[Len(s) + 1] = None
        /\ \A i \in 1..Len(s) : t[i] = s[i]
    BY AppendFacts DEF Item
  <1>. HIDE DEF t
  <1>2. Marked(t)
    BY <1>1 DEF Marked
  <1>3. Ordered(t, b, n)
    <2>. SUFFICES ASSUME NEW i \in 1..Len(t), i # Len(t)
                  PROVE  t[i] # None /\ t[i] = b[n + i]
      BY <1>1 DEF Ordered
    <2>1. i \in 1..Len(s)
      BY <1>1
    <2>2. s[i] \in Chunk
      BY <2>1, NoMarker
    <2>. QED BY <2>1, <2>2, <1>1, NoneAssumption DEF Ordered
  <1>4. Complete(t, b, n)
    BY <1>1, <1>2 DEF Complete
  <1>. QED BY <1>3, <1>4 DEF t
-----------------------------------------------------------------------------
(* The inductive invariant holds of a connection just made.                *)
LEMMA InitIInv == Init => IInv
  <1>1. EmptyQueue \in QueueType /\ EmptyQueue.items = <<>>
    BY EmptySeq DEF EmptyQueue, QueueType
  <1>2. <<>> \in Seq(Chunk) /\ Len(<<>>) = 0
    BY EmptySeq
  <1>3. Ordered(<<>>, <<>>, 0) /\ Complete(<<>>, <<>>, 0) /\ ~Marked(<<>>)
    BY <1>2 DEF Ordered, Complete, Marked
  <1>4. ASSUME Init
        PROVE  IInv
    <2>1. /\ queue.items = <<>> /\ queue.finished = FALSE
          /\ received = <<>> /\ delivered = <<>>
      BY <1>1, <1>4 DEF Init, EmptyQueue
    <2>2. QueueHoldsTheRest
      BY <1>2, <1>3, <2>1 DEF QueueHoldsTheRest
    <2>3. Backpressure
      BY <1>2, <2>1 DEF Backpressure
    <2>4. TypeOK
      BY <1>1, <1>2, <1>4 DEF Init, TypeOK
    <2>. QED
      BY <1>4, <2>1, <2>2, <2>3, <2>4
      DEF Init, IInv, Flags, Idle, NoLostWakeup, WokenHasItem
  <1>. QED BY <1>4

(* Taking the first item off the queue, by ReadQueued or ReadResumes.      *)
LEMMA TakeItem ==
    ASSUME IInv, message # "none", queue.items # <<>>,
           queue' \in QueueType,
           queue'.items = Tail(queue.items),
           queue'.dirty = queue.dirty, queue'.finished = queue.finished,
           Got(Head(queue.items)), message' = message, received' = received,
           feeding' = feeding, reader' = "running", ~consumed
    PROVE  IInv'
  <1>. USE DEF IInv, TypeOK
  <1>. DEFINE items == queue.items
              n == Len(delivered)
  <1>1. /\ items \in Seq(Item) /\ n \in Nat
        /\ Ordered(items, received, n) /\ Complete(items, received, n)
    BY DEF QueueType, QueueHoldsTheRest
  <1>2. Head(items) = items[1] /\ items[1] \in Item
    BY <1>1, TailFacts
  <1>3. CASE items[1] = None
    <2>1. Tail(items) = <<>> /\ Marked(items) /\ n = Len(received)
      BY <1>1, <1>3, HeadMarker
    <2>2. consumed' = TRUE /\ readable' = TRUE /\ delivered' = delivered
      BY <1>2, <1>3 DEF Got
    <2>3. message = "complete"
      BY <2>1 DEF QueueHoldsTheRest
    <2>4. queue'.items = <<>> /\ Len(queue'.items) = 0 /\ ~Marked(queue'.items)
      BY <2>1, EmptySeq DEF Marked
    <2>5. QueueHoldsTheRest'
      BY <2>1, <2>2, <2>3, <2>4, <1>1
      DEF QueueHoldsTheRest, Ordered, Complete
    <2>. QED
      BY <2>1, <2>2, <2>3, <2>4, <2>5
      DEF Flags, Idle, NoLostWakeup, WokenHasItem, Backpressure
  <1>4. CASE items[1] # None
    <2>1. /\ delivered' = Append(delivered, items[1])
          /\ readable' = FALSE /\ consumed' = consumed
      BY <1>2, <1>4 DEF Got
    <2>2. items[1] \in Chunk
      BY <1>2, <1>4 DEF Item
    <2>3. delivered' \in Seq(Chunk) /\ Len(delivered') = n + 1
      BY <2>1, <2>2, AppendFacts
    <2>4. /\ Ordered(Tail(items), received, n + 1)
          /\ Complete(Tail(items), received, n + 1)
          /\ Marked(Tail(items)) => Marked(items)
      BY <1>1, <1>4, TailKeepsOrder
    <2>5. QueueHoldsTheRest'
      BY <2>3, <2>4 DEF QueueHoldsTheRest
    <2>. QED
      BY <2>1, <2>3, <2>5
      DEF Flags, Idle, NoLostWakeup, WokenHasItem, Backpressure
  <1>. QED BY <1>3, <1>4

(* Every callback and every step of the handler keeps it.                  *)
LEMMA NextIInv == IInv /\ [Next]_vars => IInv'
  <1>. SUFFICES ASSUME IInv, [Next]_vars
                PROVE  IInv'
    OBVIOUS
  <1>. USE DEF IInv, TypeOK
  <1>. DEFINE items == queue.items
              n == Len(delivered)
  <1>0. /\ items \in Seq(Item) /\ n \in Nat
        /\ Ordered(items, received, n) /\ Complete(items, received, n)
        /\ Marked(items) => message = "complete"
    BY DEF QueueType, QueueHoldsTheRest
  <1>1. CASE DataReceived
    BY <1>1 DEF DataReceived, QueueHoldsTheRest, Flags, Idle,
                NoLostWakeup, WokenHasItem, Backpressure
  <1>2. CASE DataReceivedReturns
    BY <1>2 DEF DataReceivedReturns, QueueHoldsTheRest, Flags, Idle,
                NoLostWakeup, WokenHasItem, Backpressure
  <1>3. CASE OnHeadersComplete
    BY <1>3 DEF OnHeadersComplete, QueueHoldsTheRest, Flags, Idle,
                NoLostWakeup, WokenHasItem, Backpressure
  <1>4. ASSUME NEW c \in Chunk, OnBody(c)
        PROVE  IInv'
    <2>. USE <1>4 DEF OnBody
    <2>1. /\ queue' \in QueueType
          /\ queue'.items = Append(items, c)
          /\ queue'.event = (queue.event \/ queue.waiting)
          /\ queue'.waiting = queue.waiting
          /\ queue'.dirty /\ queue'.finished = queue.finished
      BY PutFields DEF Item
    <2>2. queue'.items # <<>> /\ received' \in Seq(Chunk)
      BY SMTT(20), <1>0, <2>1, AppendFacts DEF Item
    <2>3. ~Marked(items)
      BY <1>0
    <2>4. /\ Ordered(Append(items, c), Append(received, c), n)
          /\ Complete(Append(items, c), Append(received, c), n)
          /\ ~Marked(Append(items, c))
      BY <1>0, <2>3, AppendChunkKeepsOrder
    <2>5. QueueHoldsTheRest'
      BY <2>1, <2>4 DEF QueueHoldsTheRest
    <2>6. reader' \in {"none", "running", "woken"} /\ reader' # "blocked"
      BY <2>1 DEF Wakened, NoLostWakeup
    <2>. QED
      BY <2>1, <2>2, <2>5, <2>6
      DEF Flags, Idle, NoLostWakeup, WokenHasItem, Backpressure
  <1>5. CASE OnMessageComplete
    <2>. USE <1>5 DEF OnMessageComplete
    <2>1. /\ queue' \in QueueType
          /\ queue'.items =
                IF queue.waiting THEN Append(items, None) ELSE items
          /\ queue'.event = (queue.event \/ queue.waiting)
          /\ queue'.dirty = (queue.dirty \/ queue.waiting)
          /\ queue'.finished
      BY EndFields
    <2>2. ~Marked(items)
      BY <1>0
    <2>3. Ordered(items, received, n)
      BY <1>0
    <2>4. CASE queue.waiting
      <3>1. /\ queue'.items = Append(items, None) /\ queue'.items # <<>>
            /\ Len(queue'.items) = Len(items) + 1
            /\ queue'.items[Len(items) + 1] = None
            /\ \A i \in 1..Len(items) : queue'.items[i] = items[i]
        <4>1. None \in Item
          BY DEF Item
        <4>2. queue'.items = Append(items, None)
          BY <2>1, <2>4
        <4>3. /\ Append(items, None) # <<>>
              /\ Len(Append(items, None)) = Len(items) + 1
              /\ Append(items, None)[Len(items) + 1] = None
              /\ \A i \in 1..Len(items) : Append(items, None)[i] = items[i]
          BY <1>0, <4>1, AppendFacts
        <4>. QED BY <4>2, <4>3
      <3>2. /\ Ordered(Append(items, None), received, n)
            /\ Complete(Append(items, None), received, n)
        BY <1>0, <2>2, AppendMarkerKeepsOrder
      <3>3. QueueHoldsTheRest'
        BY <3>1, <3>2 DEF QueueHoldsTheRest
      <3>4. Backpressure'
        <4>1. SUFFICES ASSUME readable, NEW i \in 1..(Len(items) + 1)
                       PROVE  queue'.items[i] = None
          BY <3>1 DEF Backpressure
        <4>2. Len(items) \in Nat
          BY <1>0
        <4>3. CASE i = Len(items) + 1
          BY <4>3, <3>1
        <4>4. CASE i # Len(items) + 1
          <5>1. i \in 1..Len(items)
            BY <4>2, <4>4
          <5>. QED BY <4>1, <5>1, <3>1 DEF Backpressure
        <4>. QED BY <4>3, <4>4
      <3>5. reader' \in {"none", "running", "woken"} /\ reader' # "blocked"
        BY <2>1, <2>4 DEF Wakened
      <3>. QED
        BY <3>1, <3>3, <3>4, <3>5, <2>1, <2>4
        DEF Flags, Idle, NoLostWakeup, WokenHasItem
    <2>5. CASE ~queue.waiting
      <3>1. reader # "blocked" /\ reader' = reader
        BY <2>5 DEF NoLostWakeup, Wakened
      <3>2. queue'.items = items /\ queue'.dirty = queue.dirty
        BY <2>1, <2>5 DEF QueueType
      <3>. QED
        BY <3>1, <3>2, <1>0, <2>1
        DEF QueueHoldsTheRest, Flags, Idle, NoLostWakeup, WokenHasItem,
            Backpressure
    <2>. QED BY <2>4, <2>5
  <1>6. CASE ReadQueued
    <2>1. /\ Pop(queue) \in QueueType
          /\ Pop(queue).items = Tail(items)
          /\ Pop(queue).dirty = queue.dirty
          /\ Pop(queue).finished = queue.finished
      BY <1>6, PopFields DEF ReadQueued
    <2>2. message # "none" /\ reader' = "running"
      BY <1>6 DEF ReadQueued, Idle
    <2>. QED BY <1>6, <2>1, <2>2, TakeItem DEF ReadQueued
  <1>7. CASE ReadFinished
    <2>1. /\ items = <<>> /\ Len(items) = 0 /\ ~Marked(items)
          /\ message = "complete"
      BY <1>7, EmptySeq DEF ReadFinished, Marked, Flags
    <2>2. n = Len(received)
      BY <1>0, <2>1 DEF Complete
    <2>. QED
      BY <1>7, <2>1, <2>2 DEF ReadFinished, QueueHoldsTheRest, Flags, Idle,
              NoLostWakeup, WokenHasItem, Backpressure
  <1>8. CASE ReadBlocks
    <2>1. /\ BeginWait(queue) \in QueueType
          /\ BeginWait(queue).items = items
          /\ BeginWait(queue).waiting
          /\ BeginWait(queue).dirty = queue.dirty
          /\ BeginWait(queue).finished = queue.finished
      BY BeginWaitFields
    <2>2. message = "body" /\ Len(items) = 0
      BY <1>8, EmptySeq DEF ReadBlocks, Idle, Flags
    <2>. QED
      BY <1>8, <2>1, <2>2 DEF ReadBlocks, QueueHoldsTheRest, Flags, Idle,
              NoLostWakeup, WokenHasItem, Backpressure
  <1>9. CASE ReadResumes
    <2>1. /\ Resume(queue) \in QueueType
          /\ Resume(queue).items = Tail(items)
          /\ Resume(queue).dirty = queue.dirty
          /\ Resume(queue).finished = queue.finished
      BY <1>9, ResumeFields DEF ReadResumes
    <2>2. message # "none" /\ ~consumed /\ reader' = "running"
      BY <1>9 DEF ReadResumes, Idle, Flags
    <2>. QED BY <1>9, <2>1, <2>2, TakeItem DEF ReadResumes
  <1>10. CASE CancelRequest
    BY <1>10 DEF CancelRequest, QueueHoldsTheRest, Flags, Idle, NoLostWakeup,
                 WokenHasItem, Backpressure
  <1>11. CASE AfterResponse
    <2>1. /\ queue' \in QueueType /\ queue'.items = <<>>
          /\ queue'.dirty = FALSE /\ queue'.finished = FALSE
      BY <1>11, ClearFields DEF AfterResponse, Flags
    <2>2. /\ received' = <<>> /\ delivered' = <<>>
          /\ <<>> \in Seq(Chunk) /\ Len(<<>>) = 0
      BY <1>11, EmptySeq DEF AfterResponse
    <2>3. Ordered(<<>>, <<>>, 0) /\ Complete(<<>>, <<>>, 0) /\ ~Marked(<<>>)
      BY <2>2 DEF Ordered, Complete, Marked
    <2>4. QueueHoldsTheRest'
      BY <2>1, <2>2, <2>3 DEF QueueHoldsTheRest
    <2>5. Backpressure'
      BY <2>1, <2>2 DEF Backpressure
    <2>. QED
      BY <1>11, <2>1, <2>2, <2>4, <2>5
      DEF AfterResponse, Flags, Idle, NoLostWakeup, WokenHasItem
  <1>12. CASE UNCHANGED vars
    BY <1>12 DEF vars, QueueHoldsTheRest, Flags, Idle, NoLostWakeup,
                 WokenHasItem, Backpressure
  <1>. QED
    BY <1>1, <1>2, <1>3, <1>4, <1>5, <1>6, <1>7, <1>8, <1>9, <1>10, <1>11,
       <1>12 DEF Next
-----------------------------------------------------------------------------
(* IInv holds in every reachable state. *)
THEOREM Invariance == Spec => []IInv
  BY InitIInv, NextIInv, PTL DEF Spec

(* Every variable of the stream keeps its type. *)
THEOREM TypeCorrect == Spec => []TypeOK
  <1>1. IInv => TypeOK
    BY DEF IInv
  <1>. QED BY <1>1, Invariance, PTL

(* A handler blocked on the body is never one the parser or the transport  *)
(* has forgotten: StreamQueue.get, put and end lose no wakeup.             *)
THEOREM WakeupsAreNotLost == Spec => [](NoLostWakeup /\ WokenHasItem)
  <1>1. IInv => NoLostWakeup /\ WokenHasItem
    BY DEF IInv
  <1>. QED BY <1>1, Invariance, PTL

(* Flow control of Connection.on_body, Stream.__aiter__ and                *)
(* Connection.after_response together: the socket is read only when no     *)
(* body data waits in memory.                                              *)
THEOREM BackpressureHolds == Spec => []Backpressure
  <1>1. IInv => Backpressure
    BY DEF IInv
  <1>. QED BY <1>1, Invariance, PTL

(* StreamQueue.clear and Stream.clear leave nothing of one request to the  *)
(* next one.                                                               *)
THEOREM NothingIsCarriedOver == Spec => []NothingCarriedOver
  <1>1. IInv => NothingCarriedOver
    BY DEF IInv, Idle, Flags, NothingCarriedOver
  <1>. QED BY <1>1, Invariance, PTL

(* A connection just made has an empty pipe.                               *)
LEMMA InitRefines == Init => Pipe!Init
  BY DEF Init, Pipe!Init

(* Taking an item is the pipe's Read, or its ReadEof for the marker.       *)
LEMMA TakeRefines ==
    ASSUME IInv, queue.items # <<>>, ~consumed, Got(Head(queue.items)),
           message' = message, received' = received
    PROVE  Pipe!Read \/ Pipe!ReadEof
  <1>. DEFINE items == queue.items
              n == Len(delivered)
  <1>1. /\ items \in Seq(Item) /\ n \in Nat /\ received \in Seq(Chunk)
        /\ Ordered(items, received, n) /\ Complete(items, received, n)
        /\ Marked(items) => message = "complete"
    BY DEF IInv, TypeOK, QueueType, QueueHoldsTheRest
  <1>2. Head(items) = items[1] /\ 1 \in 1..Len(items)
    BY <1>1, TailFacts
  <1>3. CASE items[1] = None
    <2>1. message = "complete" /\ n = Len(received)
      BY <1>1, <1>3, HeadMarker
    <2>2. consumed' = TRUE /\ delivered' = delivered
      BY <1>2, <1>3 DEF Got
    <2>. QED BY <2>1, <2>2 DEF Pipe!ReadEof
  <1>4. CASE items[1] # None
    <2>1. items[1] = received[n + 1]
      BY <1>1, <1>2, <1>4 DEF Ordered
    <2>2. n < Len(received)
      BY <1>1, <1>4, TailKeepsOrder
    <2>3. delivered' = Append(delivered, items[1]) /\ consumed' = consumed
      BY <1>2, <1>4 DEF Got
    <2>. QED BY <2>1, <2>2, <2>3 DEF Pipe!Read
  <1>. QED BY <1>3, <1>4

(* Every step is a step of the pipe, or does not touch it.                 *)
LEMMA NextRefines == IInv /\ [Next]_vars => [Pipe!Next]_(Pipe!vars)
  <1>. SUFFICES ASSUME IInv, [Next]_vars
                PROVE  Pipe!Next \/ UNCHANGED Pipe!vars
    OBVIOUS
  <1>1. CASE DataReceived \/ DataReceivedReturns \/ OnHeadersComplete
              \/ ReadBlocks
    BY <1>1 DEF DataReceived, DataReceivedReturns, OnHeadersComplete,
                ReadBlocks, Pipe!vars
  <1>2. ASSUME NEW c \in Chunk, OnBody(c)
        PROVE  Pipe!Write(c)
    BY <1>2 DEF OnBody, Pipe!Write
  <1>3. CASE OnMessageComplete
    <2>1. Pipe!Finish
      BY <1>3 DEF OnMessageComplete, Pipe!Finish
    <2>. QED BY <2>1 DEF Pipe!Next
  <1>4. CASE ReadQueued
    <2>1. Pipe!Read \/ Pipe!ReadEof
      BY <1>4, TakeRefines DEF ReadQueued
    <2>. QED BY <2>1 DEF Pipe!Next
  <1>5. CASE ReadResumes
    <2>1. ~consumed
      BY <1>5 DEF ReadResumes, IInv, Flags
    <2>2. Pipe!Read \/ Pipe!ReadEof
      BY <1>5, <2>1, TakeRefines DEF ReadResumes
    <2>. QED BY <2>2 DEF Pipe!Next
  <1>6. CASE ReadFinished
    <2>1. message = "complete" /\ Len(queue.items) = 0 /\ ~Marked(queue.items)
      BY <1>6, EmptySeq DEF ReadFinished, IInv, Flags, Marked
    <2>2. Len(delivered) = Len(received)
      BY <2>1 DEF IInv, TypeOK, QueueHoldsTheRest, Complete
    <2>3. Pipe!ReadEof
      BY <1>6, <2>1, <2>2 DEF ReadFinished, Pipe!ReadEof
    <2>. QED BY <2>3 DEF Pipe!Next
  <1>7. CASE CancelRequest
    BY <1>7 DEF CancelRequest, Pipe!vars
  <1>8. CASE AfterResponse
    <2>1. Pipe!Reset
      BY <1>8 DEF AfterResponse, Pipe!Reset
    <2>. QED BY <2>1 DEF Pipe!Next
  <1>9. CASE UNCHANGED vars
    BY <1>9 DEF vars, Pipe!vars
  <1>. QED
    BY <1>1, <1>2, <1>3, <1>4, <1>5, <1>6, <1>7, <1>8, <1>9
    DEF Next, Pipe!Next

(* request.stream gives a handler the body of its own request: every chunk *)
(* once, in order, and the end only after the last one.                    *)
THEOREM Refinement == Spec => PipeSpec
  BY InitRefines, NextRefines, Invariance, PTL DEF Spec, PipeSpec, Pipe!Spec
=============================================================================
