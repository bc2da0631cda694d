--------------------------- MODULE Delivery_proofs ---------------------------
(***************************************************************************)
(* Proofs about the way of an alarm event to the broker (AlarmDelivery),   *)
(* about the ring on flash that keeps it meanwhile (OfflineBuffer), and    *)
(* about the cooldowns of what is told to people (Alerting): for queues,   *)
(* rings, batches, events and producers of any number.                     *)
(***************************************************************************)
EXTENDS AlarmDelivery, OfflineBuffer, Alerting, SequenceTheorems, TLAPS

-----------------------------------------------------------------------------
(* What a sequence holds after an Append or a Tail.                        *)
LEMMA AppendRange ==
  ASSUME NEW S, NEW s \in Seq(S), NEW x \in S
  PROVE  /\ Append(s, x) \in Seq(S)
         /\ Range(Append(s, x)) = Range(s) \cup {x}
<1>1. /\ Append(s, x) \in Seq(S) /\ Len(s) \in Nat
      /\ Len(Append(s, x)) = Len(s) + 1
      /\ \A i \in 1..Len(s) : Append(s, x)[i] = s[i]
      /\ Append(s, x)[Len(s) + 1] = x
  OBVIOUS
<1>2. /\ Range(s) = {s[i] : i \in 1..Len(s)}
      /\ Range(Append(s, x)) = {Append(s, x)[i] : i \in 1..(Len(s) + 1)}
  BY <1>1 DEF Range
<1>3. 1..(Len(s) + 1) = 1..Len(s) \cup {Len(s) + 1}
  BY <1>1
<1>4. QED
  BY <1>1, <1>2, <1>3

LEMMA TailRange ==
  ASSUME NEW S, NEW s \in Seq(S), s # <<>>
  PROVE  /\ Head(s) \in S
         /\ Tail(s) \in Seq(S)
         /\ Range(s) = Range(Tail(s)) \cup {Head(s)}
<1> DEFINE t == Tail(s)
<1>1. /\ Head(s) \in S /\ t \in Seq(S) /\ Len(s) \in Nat \ {0}
      /\ Len(t) = Len(s) - 1 /\ Head(s) = s[1]
      /\ \A i \in 1..Len(t) : t[i] = s[i + 1]
      /\ DOMAIN s = 1..Len(s) /\ DOMAIN t = 1..Len(t)
  OBVIOUS
<1> HIDE DEF t
<1>2. /\ Range(s) = {s[i] : i \in 1..Len(s)}
      /\ Range(t) = {t[i] : i \in 1..Len(t)}
  BY <1>1 DEF Range
<1>3. Range(s) \subseteq Range(t) \cup {Head(s)}
  <2> SUFFICES ASSUME NEW i \in 1..Len(s) PROVE s[i] \in Range(t) \cup {Head(s)}
    BY <1>2
  <2>1. CASE i # 1
    <3>1. i - 1 \in 1..Len(t) /\ s[i] = t[i - 1]
      BY <1>1, <2>1
    <3>2. QED
      BY <1>2, <3>1
  <2>2. QED
    BY <1>1, <2>1
<1>4. Range(t) \cup {Head(s)} \subseteq Range(s)
  <2>1. \A i \in 1..Len(t) : i + 1 \in 1..Len(s) /\ t[i] = s[i + 1]
    BY <1>1
  <2>2. 1 \in 1..Len(s)
    BY <1>1
  <2>3. QED
    BY <1>1, <1>2, <2>1, <2>2
<1>5. QED
  BY <1>1, <1>3, <1>4 DEF t

-----------------------------------------------------------------------------
(* AlarmDelivery.                                                          *)

(* The types that matter here, without the bounds that only a run needs. *)
QueueTyped ==
  /\ queue \in Seq(Nat) /\ buffer \in Seq(Nat) /\ delivered \in Seq(Nat)
  /\ event \in Nat /\ repeats \in Nat

(* What loop() is about to consume is somewhere else, too. *)
PublishedIsKept ==
  published => /\ queue # <<>>
               /\ Head(queue) \in Range(delivered) \cup Range(buffer)

KeptInv == QueueTyped /\ PublishedIsKept /\ NoSilentLoss

(* Where publishResult() puts the oldest event. *)
LEMMA PublishCases ==
  ASSUME Publish, QueueTyped
  PROVE  /\ ~published /\ queue # <<>>
         /\ UNCHANGED <<slotLength, queue, ota, event, dropped, forgotten, repeats>>
         /\ \/ /\ PublishResult = "PUBLISHED" /\ published' = TRUE
               /\ delivered' = Append(delivered, Head(queue)) /\ buffer' = buffer
            \/ /\ PublishResult = "QUEUED_OFFLINE" /\ published' = TRUE /\ Storable
               /\ delivered' = delivered /\ buffer' = Stored(Head(queue))
            \/ /\ PublishResult = "FAILED" /\ published' = FALSE
               /\ delivered' = delivered /\ buffer' = buffer
<1>1. \/ PublishResult = "PUBLISHED"
      \/ PublishResult = "QUEUED_OFFLINE" /\ Storable
      \/ PublishResult = "FAILED"
  BY DEF PublishResult, QueueTyped
<1>2. QED
  BY <1>1 DEF Publish, Consumes

(* The buffer after an event was stored. *)
LEMMA StoredRange ==
  ASSUME buffer \in Seq(Nat), NEW id \in Nat
  PROVE  /\ Stored(id) \in Seq(Nat)
         /\ Range(Stored(id)) = Range(buffer) \cup {id}
BY AppendRange DEF Stored

LEMMA KeptInit == Init => KeptInv
<1> SUFFICES ASSUME Init PROVE KeptInv
  OBVIOUS
<1>1. QueueTyped
  BY DeliveryAssumption DEF Init, QueueTyped
<1>2. PublishedIsKept
  BY DEF Init, PublishedIsKept
<1>3. NoSilentLoss
  BY DEF Init, NoSilentLoss
<1>4. QED
  BY <1>1, <1>2, <1>3 DEF KeptInv

(* What a restart brings back of the buffer. *)
LEMMA SurvivorsTyped ==
  ASSUME QueueTyped, NEW b \in Survivors
  PROVE  b \in Seq(Nat) /\ (buffer = <<>> => b = <<>>)
<1>1. PICK n \in 0..Len(buffer) : b = SubSeq(buffer, 1, n)
  BY DEF Survivors
<1>2. buffer \in Seq(Nat)
  BY DEF QueueTyped
<1>3. b \in Seq(Nat) /\ Len(b) = n
  BY <1>1, <1>2
<1>4. QED
  BY <1>1, <1>2, <1>3

LEMMA QueueTypedStep ==
  ASSUME QueueTyped, PublishedIsKept, [Next]_vars
  PROVE  QueueTyped'
<1> USE DEF QueueTyped
<1>1. CASE EnqueueAlarmEvent
  <2>1. event' \in Nat /\ UNCHANGED <<buffer, delivered, repeats>>
    BY <1>1 DEF EnqueueAlarmEvent
  <2>2. queue' \in Seq(Nat)
    BY <1>1, <2>1 DEF EnqueueAlarmEvent, Queued
  <2>3. QED
    BY <2>1, <2>2
<1>2. CASE Publish
  <2>1. Head(queue) \in Nat
    BY <1>2 DEF Publish
  <2>2. Append(delivered, Head(queue)) \in Seq(Nat) /\ Stored(Head(queue)) \in Seq(Nat)
    BY <2>1, AppendRange, StoredRange
  <2>3. delivered' \in Seq(Nat) /\ buffer' \in Seq(Nat)
    BY <1>2, <2>2, PublishCases
  <2>4. QED
    BY <1>2, <2>3, PublishCases
<1>3. CASE ConsumeAlarmEvent
  <2>1. Tail(queue) \in Seq(Nat)
    BY <1>3, TailRange DEF ConsumeAlarmEvent, PublishedIsKept
  <2>2. repeats' \in Nat
    BY <1>3 DEF ConsumeAlarmEvent
  <2>3. QED
    BY <1>3, <2>1, <2>2 DEF ConsumeAlarmEvent
<1>4. CASE Replay
  BY <1>4 DEF Replay
<1>5. CASE Connect
  BY <1>5 DEF Connect
<1>6. CASE LinkFails
  BY <1>6 DEF LinkFails
<1>7. CASE Update
  BY <1>7 DEF Update
<1>8. CASE Restart
  BY <1>8, SurvivorsTyped DEF Restart
<1>9. CASE UNCHANGED vars
  BY <1>9 DEF vars
<1>10. QED
  BY <1>1, <1>2, <1>3, <1>4, <1>5, <1>6, <1>7, <1>8, <1>9 DEF Next

(* What loop() has published is in front of the queue until it is consumed. *)
LEMMA PublishedIsKeptStep ==
  ASSUME QueueTyped, PublishedIsKept, [Next]_vars
  PROVE  PublishedIsKept'
<1> USE DEF QueueTyped, PublishedIsKept
<1>1. CASE EnqueueAlarmEvent
  <2>1. UNCHANGED <<published, delivered, buffer>>
    BY <1>1 DEF EnqueueAlarmEvent
  <2>2. queue # <<>> => queue' # <<>> /\ Head(queue') = Head(queue)
    BY <1>1, QueueTypedStep DEF EnqueueAlarmEvent, Queued
  <2>3. QED
    BY <2>1, <2>2
<1>2. CASE Publish
  <2>1. Head(queue) \in Nat /\ queue # <<>> /\ queue' = queue
    BY <1>2, PublishCases, TailRange
  <2>2. Range(Stored(Head(queue))) = Range(buffer) \cup {Head(queue)}
    BY <2>1, StoredRange
  <2>3. Range(Append(delivered, Head(queue))) = Range(delivered) \cup {Head(queue)}
    BY <2>1, AppendRange
  <2>4. QED
    BY <1>2, <2>1, <2>2, <2>3, PublishCases
<1>3. CASE ConsumeAlarmEvent
  BY <1>3 DEF ConsumeAlarmEvent
<1>4. CASE Replay
  BY <1>4 DEF Replay
<1>5. CASE Connect
  BY <1>5 DEF Connect
<1>6. CASE LinkFails
  BY <1>6 DEF LinkFails
<1>7. CASE Update
  BY <1>7 DEF Update
<1>8. CASE Restart
  BY <1>8 DEF Restart
<1>9. CASE UNCHANGED vars
  BY <1>9 DEF vars
<1>10. QED
  BY <1>1, <1>2, <1>3, <1>4, <1>5, <1>6, <1>7, <1>8, <1>9 DEF Next

(* Where an event may be. *)
Somewhere ==
  Range(delivered) \cup Range(buffer) \cup Range(queue) \cup dropped \cup forgotten

(* An event may move, but stays somewhere. *)
LEMMA SomewhereStep ==
  ASSUME QueueTyped, PublishedIsKept, [Next]_vars
  PROVE  /\ Somewhere \subseteq Somewhere'
         /\ event' # event => event' = event + 1 /\ event' \in Somewhere'
<1> USE DEF QueueTyped, Somewhere
<1>1. CASE EnqueueAlarmEvent
  <2>1. /\ event' = event + 1 /\ event' \in Nat
        /\ UNCHANGED <<delivered, buffer, forgotten>>
    BY <1>1 DEF EnqueueAlarmEvent
  <2>2. CASE Full
    BY <1>1, <2>1, <2>2 DEF EnqueueAlarmEvent, Queued
  <2>3. CASE ~Full
    <3>1. queue' = Append(queue, event') /\ dropped' = dropped
      BY <1>1, <2>3 DEF EnqueueAlarmEvent, Queued
    <3>2. Range(queue') = Range(queue) \cup {event'}
      BY <2>1, <3>1, AppendRange
    <3>3. QED
      BY <2>1, <3>1, <3>2, SMTT(30)
  <2>4. QED
    BY <2>2, <2>3
<1>2. CASE Publish
  <2>1. Head(queue) \in Nat
    BY <1>2, PublishCases, TailRange
  <2>2. Range(Stored(Head(queue))) = Range(buffer) \cup {Head(queue)}
    BY <2>1, StoredRange
  <2>3. Range(Append(delivered, Head(queue))) = Range(delivered) \cup {Head(queue)}
    BY <2>1, AppendRange
  <2>4. QED
    BY <1>2, <2>2, <2>3, PublishCases
<1>3. CASE ConsumeAlarmEvent
  <2>1. UNCHANGED <<event, delivered, buffer, dropped, forgotten>>
    BY <1>3 DEF ConsumeAlarmEvent
  <2>2. queue # <<>> /\ Head(queue) \in Range(delivered) \cup Range(buffer)
    BY <1>3 DEF ConsumeAlarmEvent, PublishedIsKept
  <2>3. Range(queue) = Range(Tail(queue)) \cup {Head(queue)}
    BY <2>2, TailRange
  <2>4. queue' \in {queue, Tail(queue)}
    BY <1>3 DEF ConsumeAlarmEvent
  <2>5. QED
    BY <2>1, <2>2, <2>3, <2>4
<1>4. CASE Replay
  <2>1. /\ buffer # <<>> /\ buffer' = Tail(buffer) /\ delivered' = Append(delivered, Head(buffer))
        /\ UNCHANGED <<event, queue, dropped, forgotten>>
    BY <1>4 DEF Replay
  <2>2. Head(buffer) \in Nat /\ Range(buffer) = Range(Tail(buffer)) \cup {Head(buffer)}
    BY <2>1, TailRange
  <2>3. Range(delivered') = Range(delivered) \cup {Head(buffer)}
    BY <2>1, <2>2, AppendRange
  <2>4. QED
    BY <2>1, <2>2, <2>3
<1>5. CASE Connect
  BY <1>5 DEF Connect
<1>6. CASE LinkFails
  BY <1>6 DEF LinkFails
<1>7. CASE Update
  BY <1>7 DEF Update
<1>8. CASE Restart
  <2>1. /\ forgotten' = forgotten \cup
             ((Range(queue) \cup (Range(buffer) \ Range(buffer'))) \ Range(delivered))
        /\ UNCHANGED <<event, delivered, dropped>>
    BY <1>8 DEF Restart
  <2>2. QED
    BY <2>1
<1>9. CASE UNCHANGED vars
  BY <1>9 DEF vars
<1>10. QED
  BY <1>1, <1>2, <1>3, <1>4, <1>5, <1>6, <1>7, <1>8, <1>9 DEF Next

(* Whatever the link, an update or another task does between the publish   *)
(* and the consume of an event: it is not lost unless the queue was full   *)
(* or the device restarted (the order of the two in loop()).               *)
THEOREM NothingIsLostSilently == Spec => []NoSilentLoss
<1>1. Init => KeptInv
  BY KeptInit
<1>2. KeptInv /\ [Next]_vars => KeptInv'
  <2> SUFFICES ASSUME KeptInv, [Next]_vars PROVE KeptInv'
    OBVIOUS
  <2>1. QueueTyped' /\ PublishedIsKept'
    BY QueueTypedStep, PublishedIsKeptStep DEF KeptInv
  <2>2. \A id \in 1..event : id \in Somewhere
    BY DEF KeptInv, NoSilentLoss, Somewhere
  <2>3. /\ Somewhere \subseteq Somewhere'
        /\ event' # event => event' = event + 1 /\ event' \in Somewhere'
    BY SomewhereStep DEF KeptInv
  <2>4. \A id \in 1..event' : id \in 1..event \/ (id = event' /\ event' # event)
    <3>1. event \in Nat /\ (event' = event \/ event' = event + 1)
      BY <2>3 DEF KeptInv, QueueTyped
    <3>2. QED
      BY <3>1
  <2>5. \A id \in 1..event' : id \in Somewhere'
    BY <2>2, <2>3, <2>4
  <2>6. NoSilentLoss'
    BY <2>5 DEF NoSilentLoss, Somewhere
  <2>7. QED
    BY <2>1, <2>6 DEF KeptInv
<1>3. KeptInv => NoSilentLoss
  BY DEF KeptInv
<1>4. QED
  BY <1>1, <1>2, <1>3, PTL DEF Spec

-----------------------------------------------------------------------------
(* The order of events, while the slots are too short to store any.        *)

LastOf(s) == s[Len(s)]

(* The queue is in order, the broker has nothing newer than what waits,    *)
(* and the same only between a publish and its consume, or after one that  *)
(* gave up.                                                                *)
Waiting ==
  /\ \A i \in 1..(Len(queue) - 1) : queue[i] < queue[i + 1]
  /\ \A i \in 1..Len(queue) : queue[i] <= event
NotAhead ==
  /\ \A i \in 1..Len(delivered) : delivered[i] <= event
  /\ queue # <<>> /\ delivered # <<>> =>
       \/ LastOf(delivered) < queue[1]
       \/ LastOf(delivered) = queue[1] /\ (published \/ repeats > 0)
OrderInv ==
  /\ QueueTyped /\ PublishedIsKept
  /\ ~Storable => buffer = <<>> /\ Waiting /\ NotAhead
  /\ InOrder

(* The slots are never changed. *)
LEMMA StorableStep == [Next]_vars => (Storable' <=> Storable)
<1> SUFFICES ASSUME [Next]_vars PROVE slotLength' = slotLength
  BY DEF Storable
<1> QED
  BY DEF Next, vars, EnqueueAlarmEvent, Publish, ConsumeAlarmEvent, Replay, Connect,
         LinkFails, Update, Restart

LEMMA BufferStaysEmpty ==
  ASSUME QueueTyped, buffer = <<>>, ~Storable, [Next]_vars
  PROVE  buffer' = <<>>
<1>1. CASE Publish
  BY <1>1, PublishCases
<1>2. CASE Restart
  BY <1>2, SurvivorsTyped DEF Restart
<1>3. QED
  BY <1>1, <1>2 DEF Next, vars, EnqueueAlarmEvent, ConsumeAlarmEvent, Replay, Connect, LinkFails,
                   Update

(* What an Append and a Tail do to an order. *)
LEMMA AppendOrder ==
  ASSUME NEW s \in Seq(Nat), NEW x \in Nat
  PROVE  /\ Append(s, x) \in Seq(Nat) /\ Len(Append(s, x)) = Len(s) + 1
         /\ \A i \in 1..Len(s) : Append(s, x)[i] = s[i]
         /\ Append(s, x)[Len(s) + 1] = x
         /\ LastOf(Append(s, x)) = x
BY DEF LastOf

LEMMA TailOrder ==
  ASSUME NEW s \in Seq(Nat), s # <<>>
  PROVE  /\ Tail(s) \in Seq(Nat) /\ Len(Tail(s)) = Len(s) - 1 /\ Len(s) \in Nat \ {0}
         /\ \A i \in 1..(Len(s) - 1) : Tail(s)[i] = s[i + 1]
         /\ Head(s) = s[1]
OBVIOUS

LEMMA WaitingStep ==
  ASSUME QueueTyped, PublishedIsKept, Waiting, [Next]_vars
  PROVE  Waiting' /\ event <= event'
<1> USE DEF QueueTyped, Waiting
<1>1. CASE EnqueueAlarmEvent
  <2>1. event' = event + 1
    BY <1>1 DEF EnqueueAlarmEvent
  <2>2. CASE queue' = queue
    BY <2>1, <2>2
  <2>3. CASE queue' = Append(queue, event')
    <3>1. /\ Len(queue') = Len(queue) + 1 /\ Len(queue) \in Nat
          /\ \A i \in 1..Len(queue) : queue'[i] = queue[i]
          /\ queue'[Len(queue) + 1] = event + 1
      BY <2>1, <2>3, AppendOrder
    <3>2. /\ \A i \in 1..Len(queue) : queue[i] \in Nat /\ queue[i] <= event
          /\ \A i \in 1..(Len(queue) - 1) : queue[i] < queue[i + 1]
          /\ event \in Nat
      OBVIOUS
    <3>3. ASSUME NEW i \in 1..Len(queue') PROVE queue'[i] <= event'
      <4>1. CASE i \in 1..Len(queue)
        <5>1. queue'[i] = queue[i] /\ queue[i] \in Nat /\ queue[i] <= event
          BY <3>1, <3>2, <4>1
        <5>2. QED
          BY <2>1, <3>2, <5>1
      <4>2. CASE i = Len(queue) + 1
        BY <2>1, <3>1, <4>2
      <4>3. QED
        BY <3>1, <4>1, <4>2
    <3>4. ASSUME NEW i \in 1..(Len(queue') - 1) PROVE queue'[i] < queue'[i + 1]
      <4>1. i \in 1..Len(queue) /\ queue'[i] = queue[i]
        BY <3>1
      <4>2. CASE i < Len(queue)
        <5>1. i \in 1..(Len(queue) - 1) /\ i + 1 \in 1..Len(queue)
          BY <3>1, <4>1, <4>2
        <5>2. queue[i] < queue[i + 1] /\ queue'[i + 1] = queue[i + 1]
          BY <3>1, <3>2, <5>1
        <5>3. QED
          BY <4>1, <5>2
      <4>3. CASE i = Len(queue)
        BY <3>1, <3>2, <4>1, <4>3
      <4>4. QED
        BY <3>1, <4>1, <4>2, <4>3
    <3>5. QED
      BY <2>1, <3>3, <3>4
  <2>4. QED
    BY <1>1, <2>2, <2>3 DEF EnqueueAlarmEvent, Queued
<1>2. CASE Publish
  BY <1>2, PublishCases
<1>3. CASE ConsumeAlarmEvent
  <2>1. event' = event /\ queue # <<>> /\ queue' \in {queue, Tail(queue)}
    BY <1>3 DEF ConsumeAlarmEvent, PublishedIsKept
  <2>2. CASE queue' = queue
    BY <2>1, <2>2
  <2>3. CASE queue' = Tail(queue)
    BY <2>1, <2>3, TailOrder
  <2>4. QED
    BY <2>1, <2>2, <2>3
<1>4. CASE Replay
  BY <1>4 DEF Replay
<1>5. CASE Connect
  BY <1>5 DEF Connect
<1>6. CASE LinkFails
  BY <1>6 DEF LinkFails
<1>7. CASE Update
  BY <1>7 DEF Update
<1>8. CASE Restart
  BY <1>8 DEF Restart
<1>9. CASE UNCHANGED vars
  BY <1>9 DEF vars
<1>10. QED
  BY <1>1, <1>2, <1>3, <1>4, <1>5, <1>6, <1>7, <1>8, <1>9 DEF Next

LEMMA NotAheadStep ==
  ASSUME QueueTyped, PublishedIsKept, ~Storable, buffer = <<>>, Waiting, NotAhead, [Next]_vars
  PROVE  NotAhead'
<1>1. /\ queue \in Seq(Nat) /\ delivered \in Seq(Nat) /\ event \in Nat /\ repeats \in Nat
      /\ \A i \in 1..Len(queue) : queue[i] \in Nat /\ queue[i] <= event
      /\ \A i \in 1..(Len(queue) - 1) : queue[i] < queue[i + 1]
      /\ \A i \in 1..Len(delivered) : delivered[i] \in Nat /\ delivered[i] <= event
  BY DEF QueueTyped, Waiting, NotAhead
<1>2. delivered # <<>> => LastOf(delivered) \in Nat /\ LastOf(delivered) <= event
  BY <1>1 DEF LastOf
<1>3. queue # <<>> => queue[1] \in Nat /\ queue[1] <= event
  BY <1>1
<1>4. queue # <<>> /\ delivered # <<>> => LastOf(delivered) <= queue[1]
  BY <1>2, <1>3 DEF NotAhead
<1>5. CASE EnqueueAlarmEvent
  <2>1. /\ event' = event + 1 /\ queue' \in {queue, Append(queue, event')}
        /\ UNCHANGED <<delivered, published, repeats>>
    BY <1>5 DEF EnqueueAlarmEvent, Queued
  <2>2. \A i \in 1..Len(delivered') : delivered'[i] <= event'
    BY <1>1, <2>1
  <2>3. CASE queue # <<>>
    <3>1. queue'[1] = queue[1] /\ 1 \in 1..Len(queue)
      BY <1>1, <2>1, <2>3, AppendOrder, SMTT(30)
    <3>2. QED
      BY <2>1, <2>2, <2>3, <3>1, SMTT(30) DEF NotAhead, LastOf
  <2>4. CASE queue = <<>>
    <3>1. queue' = <<>> \/ queue'[1] = event + 1
      BY <1>1, <2>1, <2>4, AppendOrder
    <3>2. delivered # <<>> => LastOf(delivered) < event + 1
      BY <1>1, <1>2
    <3>3. queue' # <<>> /\ delivered' # <<>> => LastOf(delivered') < queue'[1]
      BY <2>1, <3>1, <3>2 DEF LastOf
    <3>4. QED
      BY <2>2, <3>3 DEF NotAhead
  <2>5. QED
    BY <2>3, <2>4
<1>6. CASE Publish
  <2>1. queue # <<>> /\ queue' = queue /\ event' = event /\ repeats' = repeats /\ ~published
    BY <1>6, PublishCases
  <2>2. CASE delivered' = Append(delivered, Head(queue)) /\ published' = TRUE
    <3>1. Head(queue) = queue[1]
      BY <1>1, <2>1
    <3>2. LastOf(delivered') = queue'[1]
      BY <1>1, <1>3, <2>1, <2>2, <3>1, AppendOrder
    <3>3. /\ Len(delivered') = Len(delivered) + 1 /\ Len(delivered) \in Nat
          /\ \A i \in 1..Len(delivered) : delivered'[i] = delivered[i]
          /\ delivered'[Len(delivered) + 1] = queue[1]
      BY <1>1, <1>3, <2>1, <2>2, <3>1, AppendOrder
    <3>4. ASSUME NEW i \in 1..Len(delivered') PROVE delivered'[i] <= event'
      <4>1. CASE i \in 1..Len(delivered)
        BY <1>1, <2>1, <3>3, <4>1
      <4>2. CASE i = Len(delivered) + 1
        BY <1>3, <2>1, <3>3, <4>2
      <4>3. QED
        BY <3>3, <4>1, <4>2
    <3>5. QED
      BY <2>2, <3>2, <3>4 DEF NotAhead
  <2>3. CASE delivered' = delivered /\ published' = FALSE
    BY <2>1, <2>3 DEF NotAhead, LastOf
  <2>4. QED
    BY <1>6, <2>2, <2>3, PublishCases
<1>7. CASE ConsumeAlarmEvent
  <2>1. event' = event /\ delivered' = delivered /\ queue # <<>>
    BY <1>7 DEF ConsumeAlarmEvent, PublishedIsKept
  <2>2. \A i \in 1..Len(delivered') : delivered'[i] <= event'
    BY <1>1, <2>1
  <2>3. CASE queue' = queue /\ repeats' = repeats + 1
    <3>1. repeats' > 0
      BY <1>1, <2>3
    <3>2. delivered' # <<>> => LastOf(delivered') < queue'[1] \/ LastOf(delivered') = queue'[1]
      BY <1>2, <1>3, <1>4, <2>1, <2>3 DEF LastOf
    <3>3. QED
      BY <2>2, <3>1, <3>2 DEF NotAhead
  <2>4. CASE queue' = Tail(queue)
    <3>1. Len(queue) \in Nat \ {0} /\ Len(queue') = Len(queue) - 1 /\ queue' \in Seq(Nat)
      BY <1>1, <2>1, <2>4, TailOrder
    <3>2. queue' # <<>> => 1 \in 1..(Len(queue) - 1) /\ queue'[1] = queue[2]
      BY <1>1, <2>1, <2>4, <3>1, TailOrder
    <3>3. queue' # <<>> => queue[1] < queue'[1] /\ queue'[1] \in Nat
      BY <1>1, <3>1, <3>2
    <3>4. queue' # <<>> /\ delivered' # <<>> => LastOf(delivered') < queue'[1]
      BY <1>2, <1>3, <1>4, <2>1, <3>3 DEF LastOf
    <3>5. QED
      BY <2>2, <3>4 DEF NotAhead
  <2>5. QED
    BY <1>7, <2>3, <2>4 DEF ConsumeAlarmEvent
<1>8. CASE Replay
  BY <1>8 DEF Replay
<1>9. CASE Connect
  BY <1>9 DEF Connect, NotAhead, LastOf
<1>10. CASE LinkFails
  BY <1>10 DEF LinkFails, NotAhead, LastOf
<1>11. CASE Update
  BY <1>11 DEF Update, NotAhead, LastOf
<1>12. CASE Restart
  BY <1>12 DEF Restart, NotAhead
<1>13. CASE UNCHANGED vars
  BY <1>13 DEF vars, NotAhead, LastOf
<1>14. QED
  BY <1>5, <1>6, <1>7, <1>8, <1>9, <1>10, <1>11, <1>12, <1>13 DEF Next

LEMMA InOrderStep ==
  ASSUME QueueTyped, ~Storable, buffer = <<>>, Waiting, NotAhead, InOrder, [Next]_vars
  PROVE  InOrder'
<1>1. /\ delivered \in Seq(Nat) /\ queue \in Seq(Nat) /\ repeats \in Nat
      /\ \A i \in 1..(Len(delivered) - 1) :
           \/ delivered[i] < delivered[i + 1]
           \/ repeats > 0 /\ delivered[i] = delivered[i + 1]
  BY DEF InOrder, QueueTyped
<1>2. CASE delivered' = delivered /\ (repeats' = repeats \/ repeats' = repeats + 1)
  BY <1>1, <1>2 DEF InOrder
<1>3. CASE /\ delivered' = Append(delivered, Head(queue)) /\ ~published
           /\ queue # <<>> /\ repeats' = repeats
  <2>1. Head(queue) = queue[1] /\ queue[1] \in Nat
    BY <1>1, <1>3
  <2>2. /\ Len(delivered') = Len(delivered) + 1 /\ Len(delivered) \in Nat
        /\ \A i \in 1..Len(delivered) : delivered'[i] = delivered[i]
        /\ delivered'[Len(delivered) + 1] = queue[1]
    BY <1>1, <1>3, <2>1, AppendOrder
  <2>3. ASSUME NEW i \in 1..(Len(delivered') - 1)
        PROVE  \/ delivered'[i] < delivered'[i + 1]
               \/ repeats' > 0 /\ delivered'[i] = delivered'[i + 1]
    <3>1. i \in 1..Len(delivered) /\ delivered'[i] = delivered[i] /\ delivered # <<>>
      BY <1>1, <2>2
    <3>2. CASE i < Len(delivered)
      <4>1. i \in 1..(Len(delivered) - 1) /\ i + 1 \in 1..Len(delivered)
        BY <2>2, <3>1, <3>2
      <4>2. QED
        BY <1>1, <1>3, <2>2, <3>1, <4>1
    <3>3. CASE i = Len(delivered)
      <4>1. \/ delivered[i] < queue[1]
            \/ delivered[i] = queue[1] /\ repeats > 0
        BY <1>3, <3>1, <3>3 DEF NotAhead, LastOf
      <4>2. QED
        BY <1>3, <2>2, <3>1, <3>3, <4>1
    <3>4. QED
      BY <2>2, <3>1, <3>2, <3>3
  <2>4. QED
    BY <2>3 DEF InOrder
<1>4. CASE Publish
  BY <1>2, <1>3, <1>4, PublishCases
<1>5. CASE ConsumeAlarmEvent
  BY <1>2, <1>5 DEF ConsumeAlarmEvent
<1>6. CASE ~Publish /\ ~ConsumeAlarmEvent
  <2>1. delivered' = delivered /\ repeats' = repeats
    BY <1>6 DEF Next, vars, EnqueueAlarmEvent, Replay, Connect, LinkFails, Update, Restart
  <2>2. QED
    BY <1>2, <2>1
<1>7. QED
  BY <1>4, <1>5, <1>6

(* The broker gets the events in their order, each once unless a consume   *)
(* gave up, whatever becomes of the link, of updates and of the device, as *)
(* long as the slots are too short for them (peekAlarmEvent()).            *)
THEOREM EventsArriveInOrder == Spec => []InOrder
<1>1. Init => OrderInv
  <2> SUFFICES ASSUME Init PROVE OrderInv
    OBVIOUS
  <2>1. QueueTyped /\ PublishedIsKept
    BY KeptInit DEF KeptInv
  <2>2. buffer = <<>> /\ queue = <<>> /\ delivered = <<>>
    BY DEF Init
  <2>3. Waiting /\ NotAhead /\ InOrder
    BY <2>2 DEF Waiting, NotAhead, InOrder
  <2>4. QED
    BY <2>1, <2>2, <2>3 DEF OrderInv
<1>2. OrderInv /\ [Next]_vars => OrderInv'
  <2> SUFFICES ASSUME OrderInv, [Next]_vars PROVE OrderInv'
    OBVIOUS
  <2>1. QueueTyped' /\ PublishedIsKept'
    BY QueueTypedStep, PublishedIsKeptStep DEF OrderInv
  <2>2. CASE Storable
    <3>1. Storable'
      BY <2>2, StorableStep
    <3>2. InOrder'
      BY <3>1 DEF InOrder
    <3>3. QED
      BY <2>1, <3>1, <3>2 DEF OrderInv
  <2>3. CASE ~Storable
    <3>1. QueueTyped /\ PublishedIsKept /\ buffer = <<>> /\ Waiting /\ NotAhead /\ InOrder
      BY <2>3 DEF OrderInv
    <3>2. buffer' = <<>> /\ Waiting' /\ NotAhead' /\ InOrder'
      BY <2>3, <3>1, BufferStaysEmpty, WaitingStep, NotAheadStep, InOrderStep
    <3>3. QED
      BY <2>1, <3>2 DEF OrderInv
  <2>4. QED
    BY <2>2, <2>3
<1>3. OrderInv => InOrder
  BY DEF OrderInv
<1>4. QED
  BY <1>1, <1>2, <1>3, PTL DEF Spec

-----------------------------------------------------------------------------
(* OfflineBuffer: positions in the ring.                                   *)

LEMMA ModOnce ==
  ASSUME NEW n \in Nat \ {0}, NEW x \in 0..(2 * n - 1)
  PROVE  x % n = IF x < n THEN x ELSE x - n
<1>1. CASE x < n
  BY <1>1
<1>2. CASE x >= n
  <2>1. x - n \in 0..(n - 1)
    BY <1>2
  <2>2. x % n = (x - n) % n
    BY <1>2
  <2>3. QED
    BY <1>2, <2>1, <2>2
<1>3. QED
  BY <1>1, <1>2

LEMMA PhysicalIs ==
  ASSUME NEW r \in Rings, NEW i \in 0..Capacity
  PROVE  /\ Physical(r, i) = IF r.head + i < Capacity THEN r.head + i ELSE r.head + i - Capacity
         /\ Physical(r, i) \in 0..(Capacity - 1)
<1>1. r.head \in 0..(Capacity - 1) /\ Capacity \in Nat \ {0}
  BY BufferAssumption DEF Rings
<1> DEFINE x == r.head + i
<1>2. x \in 0..(2 * Capacity - 1)
  BY <1>1
<1>3. x % Capacity = IF x < Capacity THEN x ELSE x - Capacity
  <2> HIDE DEF x
  <2> QED
    BY <1>1, <1>2, ModOnce
<1>4. QED
  BY <1>1, <1>3 DEF Physical

(* No two of the ring's messages share a slot, and a full ring uses all.   *)
LEMMA PhysicalDiffers ==
  ASSUME NEW r \in Rings, NEW i \in 0..(Capacity - 1), NEW j \in 0..(Capacity - 1), i # j
  PROVE  Physical(r, i) # Physical(r, j)
<1>1. r.head \in 0..(Capacity - 1) /\ Capacity \in Nat \ {0}
  BY BufferAssumption DEF Rings
<1>2. i \in 0..Capacity /\ j \in 0..Capacity
  BY <1>1
<1>3. QED
  BY <1>1, <1>2, PhysicalIs

LEMMA FullRingHasAll ==
  ASSUME NEW r \in Rings, NEW p \in 0..(Capacity - 1)
  PROVE  \E i \in 0..(Capacity - 1) : Physical(r, i) = p
<1>1. r.head \in 0..(Capacity - 1) /\ Capacity \in Nat \ {0}
  BY BufferAssumption DEF Rings
<1>2. CASE p >= r.head
  <2>1. p - r.head \in 0..(Capacity - 1) /\ p - r.head \in 0..Capacity
    BY <1>1, <1>2
  <2>2. Physical(r, p - r.head) = p
    BY <1>1, <2>1, PhysicalIs
  <2>3. QED
    BY <2>1, <2>2
<1>3. CASE p < r.head
  <2>1. p - r.head + Capacity \in 0..(Capacity - 1) /\ p - r.head + Capacity \in 0..Capacity
    BY <1>1, <1>3
  <2>2. Physical(r, p - r.head + Capacity) = p
    BY <1>1, <2>1, PhysicalIs
  <2>3. QED
    BY <2>1, <2>2
<1>4. QED
  BY <1>1, <1>2, <1>3

(* Dropping messages leaves the others where they are. *)
LEMMA DropPositions ==
  ASSUME NEW r \in Rings, NEW n \in 0..r.count
  PROVE  /\ Drop(r, n) \in Rings
         /\ Drop(r, n).count = r.count - n
         /\ \A i \in 0..(r.count - n - 1) : Physical(Drop(r, n), i) = Physical(r, n + i)
<1>1. /\ r.head \in 0..(Capacity - 1) /\ Capacity \in Nat \ {0}
      /\ r.count \in 0..Capacity /\ n \in 0..Capacity
  BY BufferAssumption DEF Rings
<1>2. /\ Drop(r, n).head = Physical(r, n) /\ Physical(r, n) \in 0..(Capacity - 1)
      /\ Drop(r, n).count = r.count - n
      /\ Drop(r, n) = [head |-> Physical(r, n), count |-> r.count - n]
  BY <1>1, PhysicalIs DEF Drop, Physical
<1>3. r.count - n \in 0..Capacity
  BY <1>1
<1>4. Drop(r, n) \in Rings
  BY <1>2, <1>3 DEF Rings
<1>5. ASSUME NEW i \in 0..(r.count - n - 1)
      PROVE  Physical(Drop(r, n), i) = Physical(r, n + i)
  <2>1. i \in 0..Capacity /\ n + i \in 0..Capacity
    BY <1>1
  <2>2. Physical(Drop(r, n), i) = IF Physical(r, n) + i < Capacity
          THEN Physical(r, n) + i ELSE Physical(r, n) + i - Capacity
    BY <1>2, <1>4, <2>1, PhysicalIs
  <2>3. Physical(r, n) = IF r.head + n < Capacity THEN r.head + n ELSE r.head + n - Capacity
    BY <1>1, PhysicalIs
  <2>4. Physical(r, n + i) = IF r.head + (n + i) < Capacity
          THEN r.head + (n + i) ELSE r.head + (n + i) - Capacity
    BY <2>1, PhysicalIs
  <2>5. QED
    BY <1>1, <2>1, <2>2, <2>3, <2>4
<1>6. QED
  BY <1>2, <1>4, <1>5

(* Growing: the new message comes last, all others stay, but for the first *)
(* of a full ring, whose place it takes.                                   *)
Shift(r) == IF RingFull(r) THEN 1 ELSE 0

LEMMA GrowPositions ==
  ASSUME NEW r \in Rings
  PROVE  /\ Grow(r) \in Rings /\ Grow(r).count \in 1..Capacity
         /\ WriteIndex(r) \in 0..(Capacity - 1)
         /\ Shift(r) \in {0, 1} /\ Grow(r).count = r.count + 1 - Shift(r)
         /\ Physical(Grow(r), Grow(r).count - 1) = WriteIndex(r)
         /\ \A i \in 0..(Grow(r).count - 2) :
              /\ i + Shift(r) \in 0..(r.count - 1)
              /\ Physical(Grow(r), i) = Physical(r, i + Shift(r))
              /\ Physical(r, i + Shift(r)) # WriteIndex(r)
<1>1. /\ r.head \in 0..(Capacity - 1) /\ Capacity \in Nat \ {0}
      /\ r.count \in 0..Capacity
  BY BufferAssumption DEF Rings
<1>2. CASE RingFull(r)
  <2>1. r.count = Capacity
    BY <1>1, <1>2 DEF RingFull
  <2>a. 1 \in 0..Capacity /\ Physical(r, 1) \in 0..(Capacity - 1)
    BY <1>1, PhysicalIs
  <2>2. /\ Grow(r) = [head |-> Physical(r, 1), count |-> Capacity]
        /\ 1 \in 0..Capacity /\ Physical(r, 1) \in 0..(Capacity - 1)
        /\ WriteIndex(r) = r.head /\ Shift(r) = 1
    BY <1>1, <1>2, <2>1, <2>a DEF Grow, Physical, Rings, WriteIndex, Shift
  <2>3. Grow(r) \in Rings /\ Grow(r).count = Capacity /\ Grow(r).head = Physical(r, 1)
    BY <1>1, <2>2 DEF Rings
  <2>4. ASSUME NEW i \in 0..(Capacity - 1)
        PROVE  Physical(Grow(r), i) = IF i = Capacity - 1 THEN r.head ELSE Physical(r, i + 1)
    <3>1. i \in 0..Capacity /\ i + 1 \in 0..Capacity
      BY <1>1
    <3>2. Physical(Grow(r), i) = IF Physical(r, 1) + i < Capacity
            THEN Physical(r, 1) + i ELSE Physical(r, 1) + i - Capacity
      BY <2>3, <3>1, PhysicalIs
    <3>3. Physical(r, 1) = IF r.head + 1 < Capacity THEN r.head + 1 ELSE r.head + 1 - Capacity
      BY <2>a, PhysicalIs
    <3>4. Physical(r, i + 1) = IF r.head + (i + 1) < Capacity
            THEN r.head + (i + 1) ELSE r.head + (i + 1) - Capacity
      BY <3>1, PhysicalIs
    <3>5. QED
      BY <1>1, <3>1, <3>2, <3>3, <3>4
  <2>5. ASSUME NEW i \in 0..(Capacity - 2)
        PROVE  /\ i + 1 \in 0..(Capacity - 1)
               /\ Physical(Grow(r), i) = Physical(r, i + 1)
               /\ Physical(r, i + 1) # r.head
    <3>1. /\ i + 1 \in 0..(Capacity - 1) /\ 0 \in 0..(Capacity - 1) /\ i + 1 # 0
          /\ i \in 0..(Capacity - 1) /\ i # Capacity - 1 /\ 0 \in 0..Capacity
      BY <1>1
    <3>2. Physical(r, 0) = r.head
      BY <1>1, <3>1, PhysicalIs
    <3>3. QED
      BY <2>4, <3>1, <3>2, PhysicalDiffers
  <2>6. Capacity - 1 \in 0..(Capacity - 1) /\ Capacity \in 1..Capacity
    BY <1>1
  <2>7. QED
    BY <1>1, <2>1, <2>2, <2>3, <2>4, <2>5, <2>6
<1>3. CASE ~RingFull(r)
  <2>1. r.count < Capacity
    BY <1>1, <1>3 DEF RingFull
  <2>2. /\ Grow(r) = [head |-> r.head, count |-> r.count + 1]
        /\ WriteIndex(r) = Physical(r, r.count) /\ Shift(r) = 0
        /\ r.count + 1 \in 1..Capacity /\ r.count \in 0..(Capacity - 1)
    BY <1>1, <1>3, <2>1 DEF Grow, Rings, WriteIndex, Shift
  <2>3. Grow(r) \in Rings /\ \A i : Physical(Grow(r), i) = Physical(r, i)
    BY <1>1, <2>2 DEF Rings, Physical
  <2>4. Physical(r, r.count) \in 0..(Capacity - 1)
    BY <1>1, PhysicalIs
  <2>5. ASSUME NEW i \in 0..(r.count - 1)
        PROVE  Physical(r, i) # Physical(r, r.count)
    <3>1. i \in 0..(Capacity - 1) /\ i # r.count
      BY <1>1, <2>1
    <3>2. QED
      BY <2>2, <3>1, PhysicalDiffers
  <2>6. Grow(r).count = r.count + 1
    BY <2>2
  <2>7. /\ \A i \in 0..(Grow(r).count - 2) : i \in 0..(r.count - 1) /\ i + Shift(r) = i
        /\ Grow(r).count - 1 = r.count
    BY <1>1, <2>2, <2>6
  <2>8. QED
    BY <1>1, <2>2, <2>3, <2>4, <2>5, <2>6, <2>7
<1>4. QED
  BY <1>2, <1>3

(* The slots a ring uses. *)
Places(r) == {Physical(r, i) : i \in 0..(r.count - 1)}

LEMMA PlacesAre ==
  ASSUME NEW r \in Rings
  PROVE  /\ Places(r) \subseteq 0..(Capacity - 1)
         /\ Content(r) = {slot[p] : p \in Places(r)}
<1>1. r.count \in 0..Capacity /\ Capacity \in Nat \ {0}
  BY BufferAssumption DEF Rings
<1>2. \A i \in 0..(r.count - 1) : i \in 0..Capacity
  BY <1>1
<1>3. QED
  BY <1>2, PhysicalIs DEF Places, Content

(* What a replay leaves is in its place, and what it does not is in front. *)
LEMMA DropPlaces ==
  ASSUME NEW r \in Rings, NEW n \in 0..r.count
  PROVE  /\ Places(Drop(r, n)) \subseteq Places(r)
         /\ Places(r) \subseteq Places(Drop(r, n)) \cup {Physical(r, i) : i \in 0..(n - 1)}
<1>1. r.count \in Nat /\ n \in Nat
  BY BufferAssumption DEF Rings
<1>2. /\ Drop(r, n).count = r.count - n
      /\ \A i \in 0..(r.count - n - 1) : Physical(Drop(r, n), i) = Physical(r, n + i)
  BY DropPositions
<1>3. ASSUME NEW i \in 0..(r.count - n - 1)
      PROVE  n + i \in 0..(r.count - 1) /\ Physical(Drop(r, n), i) = Physical(r, n + i)
  BY <1>1, <1>2
<1>4. Places(Drop(r, n)) \subseteq Places(r)
  BY <1>2, <1>3 DEF Places
<1>5. ASSUME NEW i \in 0..(r.count - 1)
      PROVE  Physical(r, i) \in Places(Drop(r, n)) \cup {Physical(r, j) : j \in 0..(n - 1)}
  <2>1. CASE i < n
    <3>1. i \in 0..(n - 1)
      BY <1>1, <2>1
    <3>2. QED
      BY <3>1
  <2>2. CASE i >= n
    <3>1. i - n \in 0..(r.count - n - 1) /\ n + (i - n) = i
      BY <1>1, <2>2
    <3>2. Physical(Drop(r, n), i - n) = Physical(r, i)
      BY <1>2, <3>1
    <3>3. QED
      BY <1>2, <3>1, <3>2 DEF Places
  <2>3. QED
    BY <1>1, <2>1, <2>2
<1>6. QED
  BY <1>4, <1>5 DEF Places

(* A ring that grows keeps its slots, and adds the one written. *)
LEMMA GrowPlaces ==
  ASSUME NEW r \in Rings
  PROVE  Places(r) \cup {WriteIndex(r)} \subseteq Places(Grow(r))
<1>1. r.count \in 0..Capacity /\ Capacity \in Nat \ {0}
  BY BufferAssumption DEF Rings
<1>2. /\ Grow(r) \in Rings /\ Grow(r).count \in 1..Capacity
      /\ Grow(r).count = r.count + 1 - Shift(r)
      /\ Physical(Grow(r), Grow(r).count - 1) = WriteIndex(r)
      /\ \A i \in 0..(Grow(r).count - 2) : Physical(Grow(r), i) = Physical(r, i + Shift(r))
  BY GrowPositions
<1>3. WriteIndex(r) \in Places(Grow(r))
  <2>1. Grow(r).count - 1 \in 0..(Grow(r).count - 1)
    BY <1>1, <1>2
  <2>2. QED
    BY <1>2, <2>1 DEF Places
<1>4. ASSUME NEW i \in 0..(r.count - 1)
      PROVE  Physical(r, i) \in Places(Grow(r))
  <2>1. CASE RingFull(r)
    <3>1. Grow(r).count = Capacity
      BY <1>1, <1>2, <2>1 DEF RingFull, Shift
    <3>2. Physical(r, i) \in 0..(Capacity - 1)
      BY PlacesAre DEF Places
    <3>3. PICK j \in 0..(Capacity - 1) : Physical(Grow(r), j) = Physical(r, i)
      BY <1>2, <3>2, FullRingHasAll
    <3>4. QED
      BY <3>1, <3>3 DEF Places
  <2>2. CASE ~RingFull(r)
    <3>1. Shift(r) = 0 /\ i \in 0..(Grow(r).count - 2) /\ i \in 0..(Grow(r).count - 1)
      BY <1>1, <1>2, <2>2 DEF Shift
    <3>2. Physical(Grow(r), i) = Physical(r, i + Shift(r)) /\ i + Shift(r) = i
      BY <1>1, <1>2, <3>1
    <3>3. QED
      BY <3>1, <3>2 DEF Places
  <2>3. QED
    BY <2>1, <2>2
<1>5. QED
  BY <1>3, <1>4 DEF Places

(* A ring with room writes where it holds nothing. *)
LEMMA WritePlace ==
  ASSUME NEW r \in Rings
  PROVE  /\ WriteIndex(r) \in 0..(Capacity - 1)
         /\ ~RingFull(r) => WriteIndex(r) \notin Places(r)
<1>1. r.count \in 0..Capacity /\ Capacity \in Nat \ {0}
  BY BufferAssumption DEF Rings
<1>2. WriteIndex(r) \in 0..(Capacity - 1)
  BY GrowPositions
<1>3. ASSUME ~RingFull(r), NEW i \in 0..(r.count - 1)
      PROVE  WriteIndex(r) # Physical(r, i)
  <2>1. r.count \in 0..(Capacity - 1) /\ WriteIndex(r) = Physical(r, r.count)
    BY <1>1, <1>3 DEF RingFull, WriteIndex
  <2>2. i \in 0..(Capacity - 1) /\ i # r.count
    BY <1>1
  <2>3. QED
    BY <2>1, <2>2, PhysicalDiffers
<1>4. QED
  BY <1>2, <1>3 DEF Places

-----------------------------------------------------------------------------
(* OfflineBuffer: what was accepted is kept.                               *)

RingTyped ==
  /\ slot \in [0..(Capacity - 1) -> Nat]
  /\ header \in Rings /\ ring \in Rings
  /\ op \in [name : {"none", "store", "replay"}, sent : Nat] /\ next \in Nat
  /\ replayed \in Seq(Nat)

(* The header tells of every slot the ring uses, unless one was missed.    *)
HeaderCovers == missed = {} => Places(ring) \subseteq Places(header)

(* What a replay has sent is in front of the ring, and a store that has    *)
(* written its slot has written it where the ring will grow.               *)
SentIsReplayed ==
  op.name = "replay" =>
    /\ op.sent <= ring.count
    /\ \A i \in 0..(op.sent - 1) : slot[Physical(ring, i)] \in Range(replayed)
WrittenIsNext == op.name = "store" => slot[WriteIndex(ring)] = next

(* What the broker got, what was given up, and what the ring has, or what  *)
(* both the ring and the header have.                                      *)
Safe == Range(replayed) \cup lost \cup Content(ring)
Shared == {slot[p] : p \in Places(ring) \cap Places(header)}
Durable == Range(replayed) \cup lost \cup Shared

RingInv ==
  /\ RingTyped /\ HeaderCovers /\ SentIsReplayed /\ WrittenIsNext
  /\ accepted \subseteq Safe
  /\ accepted \ missed \subseteq Durable

(* A file made anew holds nothing. *)
LEMMA EmptyPlaces == Empty \in Rings /\ Empty.count = 0 /\ Places(Empty) = {}
<1>1. Capacity \in Nat \ {0} /\ 0 \in 0..(Capacity - 1) /\ 0 \in 0..Capacity
  BY BufferAssumption
<1>2. Empty \in Rings /\ Empty.count = 0
  BY <1>1 DEF Empty, Rings
<1>3. 0..(Empty.count - 1) = {}
  BY <1>2
<1>4. QED
  BY <1>2, <1>3 DEF Places

LEMMA RingInvInit == BufferInit => RingInv
<1> SUFFICES ASSUME BufferInit PROVE RingInv
  OBVIOUS
<1>1. RingTyped
  BY EmptyPlaces DEF BufferInit, RingTyped, Idle, Blank
<1>2. HeaderCovers
  BY DEF BufferInit, HeaderCovers
<1>3. SentIsReplayed /\ WrittenIsNext /\ accepted = {}
  BY DEF BufferInit, Idle, SentIsReplayed, WrittenIsNext
<1>4. QED
  BY <1>1, <1>2, <1>3 DEF RingInv

(* A step that writes no slot leaves a ring with what it has. *)
LEMMA SameSlots ==
  ASSUME slot' = slot, NEW r
  PROVE  Content(r)' = Content(r) /\ Places(r)' = Places(r)
BY DEF Content, Places, Physical

(* How far a replay has come when it ends. *)
LEMMA SentInRing ==
  ASSUME RingTyped, SentIsReplayed, op.name = "replay"
  PROVE  op.sent \in 0..ring.count
<1>1. op.sent \in Nat /\ ring.count \in 0..Capacity /\ op.sent <= ring.count
  BY DEF RingTyped, Rings, SentIsReplayed
<1>2. QED
  BY <1>1, BufferAssumption

(* The ways for head and count to change. *)
LEMMA RingChanges ==
  ASSUME RingTyped, SentIsReplayed, [BufferNext]_bufferVars
  PROVE  \/ UNCHANGED <<ring, header, missed>>
         \/ StoreDuplicate /\ UNCHANGED <<ring, header>> /\ (missed' = {} => missed = {})
         \/ /\ StoreHeader /\ op.name = "store" /\ ring' = Grow(ring)
            /\ header' = ring' \/ (header' = header /\ missed' # {})
         \/ /\ op.name = "replay"
            /\ \E n \in 0..ring.count : ring' = Drop(ring, n)
            /\ header' = ring' \/ UNCHANGED <<header, missed>>
         \/ PowerCut /\ header' = ring' /\ ring' \in {header, Empty}
<1>1. CASE StoreHeader
  BY <1>1 DEF StoreHeader, HeaderWritten, HeaderFails
<1>2. CASE ReplayEnd
  <2>1. op.sent \in 0..ring.count
    BY <1>2, SentInRing DEF ReplayEnd
  <2>2. QED
    BY <1>2, <2>1 DEF ReplayEnd, Finish, HeaderWritten, HeaderFails
<1>3. CASE ReplayUnreadable
  <2>1. op.name = "replay" /\ op.sent \in 0..ring.count /\ op.sent + 1 \in 0..ring.count
    BY <1>3, SentInRing DEF ReplayUnreadable, AtMessage, RingTyped, Rings
  <2>2. QED
    BY <1>3, <2>1 DEF ReplayUnreadable, Finish, HeaderWritten, HeaderFails
<1>4. CASE PowerCut
  BY <1>4 DEF PowerCut, LoadHeader, Recreate
<1>5. CASE StoreDuplicate
  BY <1>5 DEF StoreDuplicate
<1>6. QED
  BY <1>1, <1>2, <1>3, <1>4, <1>5
     DEF BufferNext, bufferVars, StoreSlot, ReplayBegin, ReplayPublish

LEMMA RingTypedStep ==
  ASSUME RingTyped, SentIsReplayed, [BufferNext]_bufferVars
  PROVE  RingTyped'
<1>1. ring' \in Rings /\ header' \in Rings
  <2>1. Grow(ring) \in Rings /\ \A n \in 0..ring.count : Drop(ring, n) \in Rings
    BY GrowPositions, DropPositions DEF RingTyped
  <2>2. QED
    BY <2>1, RingChanges, EmptyPlaces DEF RingTyped
<1>2. slot' \in [0..(Capacity - 1) -> Nat]
  <2>1. CASE StoreSlot
    BY <2>1, GrowPositions DEF StoreSlot, RingTyped
  <2>2. CASE PowerCut
    BY <2>2 DEF PowerCut, LoadHeader, Recreate, Blank, RingTyped
  <2>3. CASE ~StoreSlot /\ ~PowerCut
    BY <2>3 DEF RingTyped, BufferNext, bufferVars, StoreDuplicate, StoreHeader, ReplayBegin,
                ReplayPublish, ReplayEnd, ReplayUnreadable, Finish
  <2>4. QED
    BY <2>1, <2>2, <2>3
<1>3. op' \in [name : {"none", "store", "replay"}, sent : Nat]
  <2>1. Idle \in [name : {"none", "store", "replay"}, sent : Nat]
    BY DEF Idle
  <2>2. QED
    BY <2>1 DEF RingTyped, BufferNext, bufferVars, StoreDuplicate, StoreSlot, StoreHeader,
                ReplayBegin, ReplayPublish, ReplayEnd, ReplayUnreadable, PowerCut, Finish
<1>4. next' \in Nat
  <2>1. next' \in {next, next + 1}
    BY DEF BufferNext, bufferVars, StoreDuplicate, StoreSlot, StoreHeader,
           ReplayBegin, ReplayPublish, ReplayEnd, ReplayUnreadable, PowerCut, Finish
  <2>2. QED
    BY <2>1 DEF RingTyped
<1>5. replayed' \in Seq(Nat)
  <2>1. CASE ReplayPublish
    <3>1. op.sent \in 0..Capacity
      BY <2>1, BufferAssumption DEF ReplayPublish, AtMessage, RingTyped, Rings
    <3>2. Physical(ring, op.sent) \in 0..(Capacity - 1)
      BY <3>1, PhysicalIs DEF RingTyped
    <3>3. slot[Physical(ring, op.sent)] \in Nat
      BY <3>2 DEF RingTyped
    <3>4. QED
      BY <2>1, <3>3, AppendRange DEF ReplayPublish, RingTyped
  <2>2. CASE ~ReplayPublish
    BY <2>2 DEF RingTyped, BufferNext, bufferVars, StoreDuplicate, StoreSlot, StoreHeader,
                ReplayBegin, ReplayEnd, ReplayUnreadable, PowerCut, Finish
  <2>3. QED
    BY <2>1, <2>2
<1>6. QED
  BY <1>1, <1>2, <1>3, <1>4, <1>5 DEF RingTyped

LEMMA HeaderCoversStep ==
  ASSUME RingTyped, HeaderCovers, SentIsReplayed, [BufferNext]_bufferVars
  PROVE  HeaderCovers'
<1>1. \A r : Places(r)' = Places(r)
  BY DEF Places, Physical
<1>2. CASE UNCHANGED <<ring, header>> /\ (missed' = {} => missed = {})
  BY <1>1, <1>2 DEF HeaderCovers
<1>3. CASE header' = ring' \/ missed' # {}
  BY <1>1, <1>3 DEF HeaderCovers
<1>4. CASE UNCHANGED <<header, missed>> /\ \E n \in 0..ring.count : ring' = Drop(ring, n)
  BY <1>1, <1>4, DropPlaces DEF HeaderCovers, RingTyped
<1>5. QED
  BY <1>2, <1>3, <1>4, RingChanges

LEMMA SentIsReplayedStep ==
  ASSUME RingTyped, SentIsReplayed, [BufferNext]_bufferVars
  PROVE  SentIsReplayed'
<1>1. CASE UNCHANGED <<op, slot, ring, replayed>>
  BY <1>1 DEF SentIsReplayed, Physical
<1>2. CASE op'.name # "replay"
  BY <1>2 DEF SentIsReplayed
<1>3. CASE ReplayBegin
  <2>1. op'.sent = 0 /\ ring' = ring /\ ring.count \in Nat
    BY <1>3 DEF ReplayBegin, RingTyped, Rings
  <2>2. op'.sent <= ring'.count /\ \A i \in 0..(op'.sent - 1) : FALSE
    BY <2>1
  <2>3. QED
    BY <2>2 DEF SentIsReplayed
<1>4. CASE ReplayPublish
  <2>1. /\ op.name = "replay" /\ op.sent < ring.count /\ op.sent \in Nat /\ ring.count \in Nat
        /\ op'.sent = op.sent + 1 /\ UNCHANGED <<slot, ring>>
        /\ replayed' = Append(replayed, slot[Physical(ring, op.sent)])
    BY <1>4 DEF ReplayPublish, AtMessage, RingTyped, Rings
  <2>2. slot[Physical(ring, op.sent)] \in Nat
    <3>1. op.sent \in 0..Capacity
      BY <2>1, BufferAssumption DEF RingTyped, Rings
    <3>2. QED
      BY <3>1, PhysicalIs DEF RingTyped
  <2>3. Range(replayed') = Range(replayed) \cup {slot[Physical(ring, op.sent)]}
    BY <2>1, <2>2, AppendRange DEF RingTyped
  <2>4. ASSUME NEW i \in 0..op.sent
        PROVE  slot[Physical(ring, i)] \in Range(replayed')
    <3>1. i = op.sent \/ i \in 0..(op.sent - 1)
      BY <2>1
    <3>2. QED
      BY <2>1, <2>3, <3>1 DEF SentIsReplayed
  <2>5. op'.sent <= ring'.count /\ op'.sent - 1 = op.sent
    BY <2>1
  <2>6. \A i : Physical(ring', i) = Physical(ring, i) /\ slot' = slot
    BY <2>1 DEF Physical
  <2>7. QED
    BY <2>4, <2>5, <2>6 DEF SentIsReplayed, Physical
<1>5. QED
  BY <1>1, <1>2, <1>3, <1>4
     DEF BufferNext, bufferVars, StoreDuplicate, StoreSlot, StoreHeader, ReplayEnd,
         ReplayUnreadable, PowerCut, Finish, Idle

LEMMA WrittenIsNextStep ==
  ASSUME RingTyped, WrittenIsNext, [BufferNext]_bufferVars
  PROVE  WrittenIsNext'
<1>1. CASE StoreSlot
  <2>1. /\ slot' = [slot EXCEPT ![WriteIndex(ring)] = next]
        /\ UNCHANGED <<ring, next>>
    BY <1>1 DEF StoreSlot
  <2>2. WriteIndex(ring) \in 0..(Capacity - 1)
    BY GrowPositions DEF RingTyped
  <2>3. WriteIndex(ring)' = WriteIndex(ring)
    BY <2>1 DEF WriteIndex, RingFull, Physical
  <2>4. QED
    BY <2>1, <2>2, <2>3 DEF WrittenIsNext, RingTyped
<1>2. CASE op'.name # "store"
  BY <1>2 DEF WrittenIsNext
<1>3. CASE UNCHANGED <<op, slot, ring, next>>
  <2>1. WriteIndex(ring)' = WriteIndex(ring)
    BY <1>3 DEF WriteIndex, RingFull, Physical
  <2>2. QED
    BY <1>3, <2>1 DEF WrittenIsNext
<1>4. CASE ReplayPublish
  <2>1. op'.name = "replay"
    BY <1>4 DEF ReplayPublish, AtMessage, RingTyped
  <2>2. QED
    BY <1>2, <2>1
<1>5. QED
  BY <1>1, <1>2, <1>3, <1>4
     DEF BufferNext, bufferVars, StoreDuplicate, StoreHeader, ReplayBegin,
         ReplayEnd, ReplayUnreadable, PowerCut, Finish, Idle

(* A slot that is written holds no message of the ring, or the oldest of a *)
(* full one.                                                               *)
LEMMA WriteSpares ==
  ASSUME RingTyped, StoreSlot
  PROVE  /\ Content(ring) \subseteq Content(ring)' \cup lost'
         /\ Shared \subseteq Shared' \cup lost'
<1> DEFINE w == WriteIndex(ring)
<1>1. /\ UNCHANGED <<ring, header>> /\ slot' = [slot EXCEPT ![w] = next]
      /\ RingFull(ring) => slot[w] \in lost' \cup {next}
  BY DEF StoreSlot
<1>2. /\ w \in 0..(Capacity - 1) /\ ~RingFull(ring) => w \notin Places(ring)
      /\ Places(ring) \subseteq 0..(Capacity - 1)
      /\ Content(ring) = {slot[p] : p \in Places(ring)}
  BY WritePlace, PlacesAre DEF RingTyped
<1> HIDE DEF w
<1>3. \A p \in Places(ring) : slot[p] = slot'[p] \/ slot[p] \in lost'
  <2> SUFFICES ASSUME NEW p \in Places(ring) PROVE slot[p] = slot'[p] \/ slot[p] \in lost'
    OBVIOUS
  <2>1. CASE p = w
    BY <1>1, <1>2, <2>1 DEF RingTyped
  <2>2. CASE p # w
    BY <1>1, <1>2, <2>2 DEF RingTyped
  <2>3. QED
    BY <2>1, <2>2
<1>4. \A r : Places(r)' = Places(r)
  BY DEF Places, Physical
<1>5. Content(ring)' = {slot'[p] : p \in Places(ring)}
  BY <1>1 DEF Content, Places, Physical
<1>6. QED
  BY <1>1, <1>2, <1>3, <1>4, <1>5 DEF Shared

(* What a replay takes out of the ring was sent, or is given up. *)
LEMMA ReplaySpares ==
  ASSUME RingTyped, SentIsReplayed, ReplayEnd \/ ReplayUnreadable
  PROVE  /\ UNCHANGED <<slot, replayed, accepted>> /\ op.name = "replay" /\ lost \subseteq lost'
         /\ \A p \in Places(ring) : p \in Places(ring') \/ slot[p] \in Range(replayed) \cup lost'
<1>1. ring \in Rings /\ ring.count \in Nat /\ op.sent \in Nat
  BY BufferAssumption DEF RingTyped, Rings
<1>2. PICK n \in 0..ring.count :
          /\ ring' = Drop(ring, n)
          /\ \/ n = op.sent /\ lost' = lost
             \/ n = op.sent + 1 /\ lost' = lost \cup {slot[Physical(ring, op.sent)]}
  <2>1. op.sent \in 0..ring.count
    BY SentInRing DEF ReplayEnd, ReplayUnreadable, AtMessage
  <2>2. AtMessage => op.sent + 1 \in 0..ring.count
    BY <1>1, <2>1 DEF AtMessage
  <2>3. QED
    BY <2>1, <2>2 DEF ReplayEnd, ReplayUnreadable, Finish
<1>3. UNCHANGED <<slot, replayed, accepted>> /\ op.name = "replay"
  BY DEF ReplayEnd, ReplayUnreadable, AtMessage, Finish
<1>4. ASSUME NEW i \in 0..(n - 1)
      PROVE  slot[Physical(ring, i)] \in Range(replayed) \cup lost'
  <2>1. i \in 0..(op.sent - 1) \/ (i = op.sent /\ n = op.sent + 1)
    BY <1>1, <1>2
  <2>2. QED
    BY <1>2, <1>3, <2>1 DEF SentIsReplayed
<1>5. QED
  BY <1>1, <1>2, <1>3, <1>4, DropPlaces

(* Publishing adds to what the broker has. *)
LEMMA PublishSpares ==
  ASSUME RingTyped, ReplayPublish
  PROVE  /\ UNCHANGED <<slot, ring, header, lost, accepted, missed>>
         /\ Range(replayed) \subseteq Range(replayed')
<1>1. /\ op.sent \in 0..Capacity /\ ring \in Rings
      /\ UNCHANGED <<slot, ring, header, lost, accepted, missed>>
      /\ replayed' = Append(replayed, slot[Physical(ring, op.sent)])
  BY BufferAssumption DEF ReplayPublish, AtMessage, RingTyped, Rings
<1>2. slot[Physical(ring, op.sent)] \in Nat
  BY <1>1, PhysicalIs DEF RingTyped
<1>3. QED
  BY <1>1, <1>2, AppendRange DEF RingTyped

(* Nothing that was accepted leaves the three while the power stays on.    *)
LEMMA SafeStep ==
  ASSUME RingInv, [BufferNext]_bufferVars, ~PowerCut
  PROVE  accepted' \subseteq Safe'
<1> USE DEF RingInv
<1>1. ring \in Rings /\ header \in Rings
  BY DEF RingTyped
<1>2. CASE StoreDuplicate
  <2>1. UNCHANGED <<replayed, lost, slot, ring>> /\ accepted' = accepted \cup {next}
    BY <1>2 DEF StoreDuplicate
  <2>2. Safe' = Safe
    BY <2>1 DEF Safe, Content, Physical
  <2>3. next \in Content(ring)
    BY <1>2 DEF StoreDuplicate, ContainsEventId, Content
  <2>4. QED
    BY <2>1, <2>2, <2>3 DEF Safe
<1>3. CASE StoreSlot
  <2>1. UNCHANGED <<replayed, accepted>> /\ lost \subseteq lost'
    BY <1>3 DEF StoreSlot
  <2>2. QED
    BY <1>3, <2>1, WriteSpares DEF Safe
<1>4. CASE StoreHeader
  <2>1. UNCHANGED <<replayed, lost, slot>> /\ op.name = "store"
    BY <1>4 DEF StoreHeader
  <2>2. CASE ring' = Grow(ring) /\ accepted' = accepted \cup {next}
    <3>1. /\ Content(ring) = {slot[p] : p \in Places(ring)}
          /\ Content(ring)' = {slot[p] : p \in Places(Grow(ring))}
      BY <1>1, <2>1, <2>2, PlacesAre, GrowPositions, SameSlots
    <3>2. slot[WriteIndex(ring)] = next
      BY <2>1 DEF WrittenIsNext
    <3>3. QED
      BY <1>1, <2>1, <2>2, <3>1, <3>2, GrowPlaces DEF Safe
  <2>3. CASE UNCHANGED <<ring, accepted>>
    BY <2>1, <2>3 DEF Safe, Content, Physical
  <2>4. QED
    BY <1>4, <2>2, <2>3 DEF StoreHeader
<1>5. CASE ReplayPublish
  <2>1. Content(ring)' = Content(ring)
    BY <1>5, PublishSpares DEF Content, Physical
  <2>2. QED
    BY <1>5, <2>1, PublishSpares DEF Safe
<1>6. CASE ReplayEnd \/ ReplayUnreadable
  <2>1. ring' \in Rings
    BY RingTypedStep DEF RingTyped
  <2>2. /\ Content(ring) = {slot[p] : p \in Places(ring)}
        /\ Content(ring)' = {slot[p] : p \in Places(ring')}
    BY <1>1, <1>6, <2>1, PlacesAre, SameSlots, ReplaySpares
  <2>3. QED
    BY <1>6, <2>2, ReplaySpares DEF Safe
<1>7. CASE ReplayBegin \/ UNCHANGED bufferVars
  <2>1. UNCHANGED <<slot, ring, replayed, lost, accepted>>
    BY <1>7 DEF ReplayBegin, bufferVars
  <2>2. QED
    BY <2>1 DEF Safe, Content, Physical
<1>8. QED
  BY <1>2, <1>3, <1>4, <1>5, <1>6, <1>7 DEF BufferNext

(* A header just written has what the ring has. *)
LEMMA WrittenIsDurable ==
  ASSUME RingTyped', accepted' \subseteq Safe', header' = ring'
  PROVE  accepted' \subseteq Durable'
<1>1. Content(ring)' = {slot'[p] : p \in Places(ring)'}
  BY DEF Content, Places, Physical
<1>2. Places(header)' = Places(ring)'
  BY DEF Places, Physical
<1>3. QED
  BY <1>1, <1>2 DEF Safe, Durable, Shared

(* ... and until one is missed, nothing that was accepted leaves what both *)
(* have.                                                                   *)
LEMMA DurableStep ==
  ASSUME RingInv, [BufferNext]_bufferVars, ~PowerCut
  PROVE  (accepted \ missed \subseteq Durable)'
<1> USE DEF RingInv
<1>1. ring \in Rings /\ header \in Rings
  BY DEF RingTyped
<1>2. CASE header' = ring'
  BY <1>2, SafeStep, RingTypedStep, WrittenIsDurable
<1>3. CASE StoreDuplicate
  <2>1. /\ UNCHANGED <<replayed, lost, slot, ring, header>> /\ accepted' = accepted \cup {next}
        /\ missed' = IF missed = {} THEN {} ELSE missed \cup {next}
    BY <1>3 DEF StoreDuplicate
  <2>2. Durable' = Durable
    BY <2>1 DEF Durable, Shared, Places, Physical
  <2>3. next \in {slot[p] : p \in Places(ring)}
    BY <1>3 DEF StoreDuplicate, ContainsEventId, Places
  <2>4. missed = {} => next \in Durable
    BY <2>3 DEF HeaderCovers, Durable, Shared
  <2>5. QED
    BY <2>1, <2>2, <2>4
<1>4. CASE StoreSlot
  <2>1. UNCHANGED <<replayed, accepted, missed>> /\ lost \subseteq lost'
    BY <1>4 DEF StoreSlot
  <2>2. QED
    BY <1>4, <2>1, WriteSpares DEF Durable
<1>5. CASE StoreHeader /\ header' # ring'
  <2>1. UNCHANGED <<replayed, lost, slot, header>> /\ missed \subseteq missed'
        /\ accepted' \subseteq accepted \cup missed'
        /\ ring' \in {ring, Grow(ring)}
    BY <1>5 DEF StoreHeader, HeaderWritten, HeaderFails
  <2>2. Places(ring)' = Places(ring') /\ Places(header)' = Places(header)
    BY <2>1, SameSlots
  <2>3. Places(ring) \subseteq Places(ring')
    BY <1>1, <2>1, GrowPlaces
  <2>4. Shared \subseteq Shared'
    BY <2>1, <2>2, <2>3 DEF Shared
  <2>5. QED
    BY <2>1, <2>4 DEF Durable
<1>6. CASE ReplayPublish
  <2>1. Shared' = Shared
    BY <1>6, PublishSpares DEF Shared, Places, Physical
  <2>2. QED
    BY <1>6, <2>1, PublishSpares DEF Durable
<1>7. CASE (ReplayEnd \/ ReplayUnreadable) /\ header' # ring'
  <2>1. UNCHANGED <<header, missed>>
    BY <1>7 DEF ReplayEnd, ReplayUnreadable, Finish, HeaderWritten, HeaderFails
  <2>2. Places(ring)' = Places(ring') /\ Places(header)' = Places(header)
    BY <1>7, <2>1, SameSlots, ReplaySpares
  <2>3. Shared \subseteq Shared' \cup Range(replayed) \cup lost'
    BY <1>7, <2>2, ReplaySpares DEF Shared
  <2>4. QED
    BY <1>7, <2>1, <2>3, ReplaySpares DEF Durable
<1>8. CASE ReplayBegin \/ UNCHANGED bufferVars
  <2>1. UNCHANGED <<slot, ring, header, replayed, lost, accepted, missed>>
    BY <1>8 DEF ReplayBegin, bufferVars
  <2>2. QED
    BY <2>1 DEF Durable, Shared, Places, Physical
<1>9. QED
  BY <1>2, <1>3, <1>4, <1>5, <1>6, <1>7, <1>8 DEF BufferNext

(* A boot loses what no header told of, or with no header all there was.   *)
LEMMA CutStep ==
  ASSUME RingInv, PowerCut
  PROVE  accepted' \subseteq Safe' /\ accepted' \subseteq Durable'
<1> USE DEF RingInv
<1>1. UNCHANGED <<replayed, accepted>> /\ header' = ring'
  BY DEF PowerCut, LoadHeader, Recreate
<1>2. Shared \subseteq Content(header)
  BY DEF Shared, Places, Content
<1>3. accepted' \subseteq Safe'
  <2>1. CASE LoadHeader
    <3>1. ring' = header /\ lost' = lost \cup (missed \ Content(header)) /\ slot' = slot
      BY <2>1 DEF LoadHeader
    <3>2. Content(ring)' = Content(header)
      BY <3>1, SameSlots
    <3>3. QED
      BY <1>1, <1>2, <3>1, <3>2 DEF Safe, Durable
  <2>2. CASE Recreate
    <3>1. lost' = lost \cup missed \cup Content(header)
      BY <2>2 DEF Recreate
    <3>2. QED
      BY <1>1, <1>2, <3>1 DEF Safe, Durable
  <2>3. QED
    BY <2>1, <2>2 DEF PowerCut
<1>4. RingTyped'
  <2>1. [BufferNext]_bufferVars
    BY DEF BufferNext
  <2>2. QED
    BY <2>1, RingTypedStep
<1>5. QED
  BY <1>1, <1>3, <1>4, WrittenIsDurable

(* An event that store() answered true for stays until the broker has it,  *)
(* but for the exceptions that AcceptedIsKept names: the slot is written   *)
(* before the header, and the header lags behind a replay but never runs   *)
(* ahead of it.  What both tell of, no power cut takes.                    *)
THEOREM AcceptedIsNeverLost == BufferSpec => []AcceptedIsKept
<1>1. BufferInit => RingInv
  BY RingInvInit
<1>2. RingInv /\ [BufferNext]_bufferVars => RingInv'
  <2> SUFFICES ASSUME RingInv, [BufferNext]_bufferVars PROVE RingInv'
    OBVIOUS
  <2>1. RingTyped' /\ HeaderCovers' /\ SentIsReplayed' /\ WrittenIsNext'
    BY RingTypedStep, HeaderCoversStep, SentIsReplayedStep, WrittenIsNextStep DEF RingInv
  <2>2. (accepted \subseteq Safe)' /\ (accepted \ missed \subseteq Durable)'
    BY SafeStep, DurableStep, CutStep
  <2>3. QED
    BY <2>1, <2>2 DEF RingInv
<1>3. RingInv => AcceptedIsKept
  <2> SUFFICES ASSUME RingInv PROVE AcceptedIsKept
    OBVIOUS
  <2>1. Shared \subseteq Content(header)
    BY DEF Shared, Places, Content
  <2>2. QED
    BY <2>1 DEF RingInv, Safe, Durable, AcceptedIsKept
<1>4. QED
  BY <1>1, <1>2, <1>3, PTL DEF BufferSpec

-----------------------------------------------------------------------------
(* OfflineBuffer: as long as no header was missed, order and no copies.    *)

(* The ring as a store in progress will leave it, what stands in it, how   *)
(* much of it the replay in progress has sent, and what all of it is under. *)
Ahead == IF op.name = "store" THEN Grow(ring) ELSE ring
At(i) == slot[Physical(Ahead, i)]
Gone == IF op.name = "replay" THEN op.sent ELSE 0
Bound == IF op.name = "store" THEN next + 1 ELSE next

InStep ==
  /\ header = ring
  /\ \A i, j \in 0..(Ahead.count - 1) : i < j => At(i) < At(j)
  /\ \A i \in 0..(Ahead.count - 1) : At(i) < Bound
  /\ \A k \in 1..Len(replayed) : replayed[k] < next
  /\ \A k \in 1..Len(replayed) : \A i \in Gone..(Ahead.count - 1) : replayed[k] < At(i)
  /\ \A k \in 1..(Len(replayed) - 1) : replayed[k] < replayed[k + 1]

OnceInv == RingTyped /\ SentIsReplayed /\ (~disturbed => InStep)

(* What these stand for is a number, or a set of positions. *)
LEMMA AheadTyped ==
  ASSUME RingTyped
  PROVE  /\ Ahead \in Rings /\ Ahead.count \in 0..Capacity
         /\ \A i \in 0..(Ahead.count - 1) : At(i) \in Nat
         /\ Gone \in Nat /\ Bound \in Nat /\ Len(replayed) \in Nat
         /\ \A k \in 1..Len(replayed) : replayed[k] \in Nat
<1>1. Ahead \in Rings
  BY GrowPositions DEF Ahead, RingTyped
<1>2. Ahead.count \in 0..Capacity /\ Capacity \in Nat \ {0}
  BY <1>1, BufferAssumption DEF Rings
<1>3. ASSUME NEW i \in 0..(Ahead.count - 1) PROVE At(i) \in Nat
  <2>1. i \in 0..Capacity
    BY <1>2
  <2>2. Physical(Ahead, i) \in 0..(Capacity - 1)
    BY <1>1, <2>1, PhysicalIs
  <2>3. QED
    BY <2>2 DEF At, RingTyped
<1>4. Gone \in Nat /\ Bound \in Nat
  BY DEF Gone, Bound, RingTyped
<1>5. Len(replayed) \in Nat /\ \A k \in 1..Len(replayed) : replayed[k] \in Nat
  BY DEF RingTyped
<1>6. QED
  BY <1>1, <1>2, <1>3, <1>4, <1>5

(* What a step that missed no header did. *)
LEMMA Undisturbed ==
  ASSUME [BufferNext]_bufferVars, ~disturbed'
  PROVE  /\ ~disturbed
         /\ PowerCut => op.name # "store" /\ ~(op.sent > 0)
         /\ StoreHeader => ring' = Grow(ring) /\ header' = ring' /\ next' = next + 1
         /\ ReplayEnd \/ ReplayUnreadable => header' = ring'
<1>1. ASSUME StoreHeader
      PROVE  /\ ~disturbed
             /\ ring' = Grow(ring) /\ header' = ring' /\ next' = next + 1
  BY <1>1 DEF StoreHeader, HeaderWritten
<1>2. ASSUME NEW r, Finish(r)
      PROVE  ~disturbed /\ header' = ring'
  BY <1>2 DEF Finish, HeaderWritten
<1>3. ASSUME PowerCut
      PROVE  ~disturbed /\ op.name # "store" /\ ~(op.sent > 0)
  BY <1>3 DEF PowerCut
<1>4. ASSUME ReplayEnd \/ ReplayUnreadable
      PROVE  ~disturbed /\ header' = ring'
  BY <1>2, <1>4 DEF ReplayEnd, ReplayUnreadable
<1>5. CASE UNCHANGED disturbed
  BY <1>1, <1>3, <1>4, <1>5
<1>6. QED
  BY <1>1, <1>3, <1>4, <1>5
     DEF BufferNext, bufferVars, StoreDuplicate, StoreSlot, ReplayBegin, ReplayPublish

(* Steps that write no slot and send nothing. *)
LEMMA QuietStep ==
  ASSUME RingTyped, InStep, UNCHANGED <<slot, replayed>>, header' = ring',
         Ahead' = Ahead, Gone' = Gone, next' \in Nat, Bound' \in Nat,
         next <= next', Bound <= Bound'
  PROVE  InStep'
<1>1. \A i : At(i)' = At(i)
  BY DEF At, Physical
<1>2. ASSUME NEW i \in 0..(Ahead.count - 1) PROVE At(i) < Bound'
  <2>1. At(i) \in Nat /\ Bound \in Nat /\ At(i) < Bound
    BY AheadTyped DEF InStep
  <2>2. QED
    BY <2>1
<1>3. ASSUME NEW k \in 1..Len(replayed) PROVE replayed[k] < next'
  <2>1. replayed[k] \in Nat /\ next \in Nat /\ replayed[k] < next
    BY AheadTyped DEF InStep, RingTyped
  <2>2. QED
    BY <2>1
<1>4. QED
  BY <1>1, <1>2, <1>3 DEF InStep

LEMMA StoreInStep ==
  ASSUME RingTyped, InStep, StoreSlot
  PROVE  InStep'
<1> DEFINE g == Grow(ring)
           w == WriteIndex(ring)
<1>1. /\ op.name = "none" /\ op'.name = "store"
      /\ UNCHANGED <<header, ring, next, replayed>>
      /\ slot' = [slot EXCEPT ![w] = next]
  BY DEF StoreSlot, Idle
<1>2. /\ Ahead = ring /\ Gone = 0 /\ Bound = next
      /\ Ahead' = g /\ Gone' = 0 /\ Bound' = next + 1
  BY <1>1 DEF Ahead, Gone, Bound, Grow, RingFull
<1>3. /\ g.count \in 1..Capacity /\ w \in 0..(Capacity - 1)
      /\ Physical(g, g.count - 1) = w
      /\ \A i \in 0..(g.count - 2) :
              /\ i + Shift(ring) \in 0..(ring.count - 1)
              /\ Physical(g, i) = Physical(ring, i + Shift(ring))
              /\ Physical(ring, i + Shift(ring)) # w
      /\ Shift(ring) \in {0, 1}
      /\ ring.count \in 0..Capacity /\ Capacity \in Nat \ {0} /\ next \in Nat
  BY GrowPositions, BufferAssumption DEF RingTyped, Rings
<1>4. \A i : At(i)' = slot'[Physical(g, i)] /\ At(i) = slot[Physical(ring, i)]
  BY <1>2 DEF At, Physical
<1>a. PICK c \in 1..Capacity : c = g.count
  BY <1>3
<1>b. Capacity \in Nat /\ c \in Nat \ {0} /\ ring.count \in Nat /\ Shift(ring) \in Nat
  BY <1>3
<1> HIDE DEF g, w
<1>5. At(c - 1)' = next
  <2>1. slot'[w] = next
    BY <1>1, <1>3 DEF RingTyped
  <2>2. QED
    BY <1>3, <1>4, <1>a, <2>1
<1>6. ASSUME NEW i \in 0..(c - 2)
      PROVE  /\ At(i)' = At(i + Shift(ring)) /\ i + Shift(ring) \in 0..(ring.count - 1)
             /\ At(i)' \in Nat /\ At(i)' < next
  <2>1. /\ i + Shift(ring) \in 0..(ring.count - 1) /\ i + Shift(ring) \in 0..Capacity
        /\ Physical(g, i) = Physical(ring, i + Shift(ring))
        /\ Physical(ring, i + Shift(ring)) # w
    BY <1>3, <1>a
  <2>2. Physical(ring, i + Shift(ring)) \in 0..(Capacity - 1)
    BY <2>1, PhysicalIs DEF RingTyped
  <2>3. slot'[Physical(g, i)] = slot[Physical(ring, i + Shift(ring))]
    BY <1>1, <2>1, <2>2 DEF RingTyped
  <2>4. At(i)' = At(i + Shift(ring))
    BY <1>4, <2>3
  <2>5. At(i + Shift(ring)) \in Nat /\ At(i + Shift(ring)) < next
    BY <1>2, <2>1, AheadTyped DEF InStep
  <2>6. QED
    BY <2>1, <2>4, <2>5
<1>7. ASSUME NEW i \in 0..(c - 1), NEW j \in 0..(c - 1), i < j
      PROVE  At(i)' < At(j)'
  <2>1. i \in 0..(c - 2)
    BY <1>b, <1>7
  <2>2. CASE j = c - 1
    BY <1>5, <1>6, <2>1, <2>2
  <2>3. CASE j # c - 1
    <3>1. j \in 0..(c - 2) /\ i + Shift(ring) < j + Shift(ring)
      BY <1>b, <1>7, <2>3
    <3>2. /\ i + Shift(ring) \in 0..(ring.count - 1) /\ j + Shift(ring) \in 0..(ring.count - 1)
          /\ At(i)' = At(i + Shift(ring)) /\ At(j)' = At(j + Shift(ring))
      BY <1>6, <2>1, <3>1
    <3>3. QED
      BY <1>2, <3>1, <3>2 DEF InStep
  <2>4. QED
    BY <2>2, <2>3
<1>8. ASSUME NEW i \in 0..(c - 1) PROVE At(i)' < next + 1
  <2>1. CASE i = c - 1
    BY <1>3, <1>5, <1>b, <2>1
  <2>2. CASE i \in 0..(c - 2)
    BY <1>3, <1>6, <1>b, <2>2
  <2>3. QED
    BY <1>b, <2>1, <2>2
<1>9. ASSUME NEW k \in 1..Len(replayed), NEW i \in 0..(c - 1)
      PROVE  replayed[k] < At(i)'
  <2>1. CASE i = c - 1
    BY <1>5, <2>1 DEF InStep
  <2>2. CASE i \in 0..(c - 2)
    <3>1. At(i)' = At(i + Shift(ring)) /\ i + Shift(ring) \in 0..(ring.count - 1)
      BY <1>6, <2>2
    <3>2. QED
      BY <1>2, <3>1 DEF InStep
  <2>3. QED
    BY <1>b, <2>1, <2>2
<1>10. QED
  BY <1>1, <1>2, <1>7, <1>8, <1>9, <1>a DEF InStep, g

LEMMA PublishInStep ==
  ASSUME RingTyped, InStep, ReplayPublish
  PROVE  InStep'
<1> DEFINE sent == op.sent
           x == At(sent)
           n == Len(replayed)
<1>1. /\ op.name = "replay" /\ op'.name = "replay" /\ op'.sent = sent + 1
      /\ UNCHANGED <<slot, header, ring, next>>
      /\ sent \in Nat /\ sent < ring.count
      /\ replayed' = Append(replayed, slot[Physical(ring, sent)])
  BY DEF ReplayPublish, AtMessage, RingTyped
<1>2. /\ Ahead = ring /\ Gone = sent /\ Bound = next
      /\ Ahead' = ring /\ Gone' = sent + 1 /\ Bound' = next
  BY <1>1 DEF Ahead, Gone, Bound
<1>3. \A i : At(i)' = At(i) /\ At(i) = slot[Physical(ring, i)]
  BY <1>1, <1>2 DEF At, Physical
<1> HIDE DEF x, n
<1>4. /\ ring.count \in Nat /\ sent \in 0..(ring.count - 1) /\ sent \in sent..(ring.count - 1)
      /\ \A i \in (sent + 1)..(ring.count - 1) : i \in 0..(ring.count - 1) /\ i \in sent..(ring.count - 1) /\ sent < i
  BY <1>1 DEF RingTyped, Rings
<1>5. /\ x \in Nat /\ x < next
      /\ \A k \in 1..n : replayed[k] < x /\ replayed[k] < next
      /\ \A i \in (sent + 1)..(ring.count - 1) : x < At(i)
  BY <1>2, <1>4, AheadTyped DEF InStep, x, n
<1>6. /\ n \in Nat /\ Len(replayed') = n + 1 /\ replayed'[n + 1] = x
      /\ \A k \in 1..n : replayed'[k] = replayed[k]
  <2>1. replayed' = Append(replayed, x) /\ replayed \in Seq(Nat)
    BY <1>1, <1>3 DEF x, RingTyped
  <2>2. QED
    BY <1>5, <2>1, AppendOrder DEF n
<1>7. \A k \in 1..(n + 1) : k = n + 1 \/ k \in 1..n
  BY <1>6
<1>8. \A k \in 1..(n + 1) : replayed'[k] < next
  BY <1>5, <1>6, <1>7
<1>9. ASSUME NEW k \in 1..(n + 1), NEW i \in (sent + 1)..(ring.count - 1)
      PROVE  replayed'[k] < At(i)
  <2>1. CASE k = n + 1
    BY <1>5, <1>6, <2>1
  <2>2. CASE k \in 1..n
    <3>1. replayed[k] < At(i)
      BY <1>2, <1>4, <2>2 DEF InStep, n
    <3>2. QED
      BY <1>6, <2>2, <3>1
  <2>3. QED
    BY <1>7, <2>1, <2>2
<1>10. ASSUME NEW k \in 1..n
       PROVE  replayed'[k] < replayed'[k + 1]
  <2>1. CASE k = n
    BY <1>5, <1>6, <2>1
  <2>2. CASE k # n
    <3>1. k \in 1..(n - 1) /\ k + 1 \in 1..n
      BY <1>6, <2>2
    <3>2. QED
      BY <1>6, <3>1 DEF InStep, n
  <2>3. QED
    BY <2>1, <2>2
<1>11. Len(replayed') - 1 = n
  BY <1>6
<1>12. QED
  BY <1>1, <1>2, <1>3, <1>6, <1>8, <1>9, <1>10, <1>11 DEF InStep

LEMMA FinishInStep ==
  ASSUME RingTyped, SentIsReplayed, InStep, op.name = "replay", header' = ring', op' = Idle,
         NEW n \in 0..ring.count, op.sent <= n, ring' = Drop(ring, n),
         UNCHANGED <<slot, next, replayed>>
  PROVE  InStep'
<1>1. /\ Ahead = ring /\ Gone = op.sent /\ Bound = next
      /\ Ahead' = Drop(ring, n) /\ Gone' = 0 /\ Bound' = next
  BY DEF Ahead, Gone, Bound, Idle
<1>2. /\ Drop(ring, n).count = ring.count - n
      /\ \A i \in 0..(ring.count - n - 1) : Physical(Drop(ring, n), i) = Physical(ring, n + i)
  BY DropPositions DEF RingTyped
<1>3. ring.count \in Nat /\ n \in Nat /\ op.sent \in Nat
  BY DEF RingTyped, Rings
<1>4. ASSUME NEW i \in 0..(ring.count - n - 1)
      PROVE  /\ At(i)' = At(n + i)
             /\ n + i \in 0..(ring.count - 1) /\ n + i \in op.sent..(ring.count - 1)
  <2>1. n + i \in 0..(ring.count - 1) /\ n + i \in op.sent..(ring.count - 1)
    BY <1>3
  <2>2. At(i)' = slot[Physical(Drop(ring, n), i)] /\ At(n + i) = slot[Physical(ring, n + i)]
    BY <1>1 DEF At, Physical
  <2>3. QED
    BY <1>2, <2>1, <2>2
<1>5. ASSUME NEW i \in 0..(ring.count - n - 1), NEW j \in 0..(ring.count - n - 1), i < j
      PROVE  At(i)' < At(j)'
  <2>1. n + i < n + j
    BY <1>3, <1>5
  <2>2. QED
    BY <1>1, <1>4, <2>1 DEF InStep
<1>6. ASSUME NEW i \in 0..(ring.count - n - 1)
      PROVE  At(i)' < next
  BY <1>1, <1>4 DEF InStep
<1>7. ASSUME NEW k \in 1..Len(replayed), NEW i \in 0..(ring.count - n - 1)
      PROVE  replayed[k] < At(i)'
  BY <1>1, <1>4 DEF InStep
<1>8. QED
  BY <1>1, <1>2, <1>5, <1>6, <1>7 DEF InStep

LEMMA InStepStep ==
  ASSUME RingTyped, SentIsReplayed, ~disturbed => InStep,
         [BufferNext]_bufferVars, ~disturbed'
  PROVE  InStep'
<1>1. InStep /\ next' \in Nat
  BY Undisturbed, RingTypedStep DEF RingTyped
<1>2. CASE StoreSlot
  BY <1>1, <1>2, StoreInStep
<1>3. CASE ReplayPublish
  BY <1>1, <1>3, PublishInStep
<1>4. CASE ReplayEnd \/ ReplayUnreadable
  <2>1. op.name = "replay" /\ op.sent \in 0..ring.count /\ header' = ring'
    BY <1>4, SentInRing, Undisturbed DEF ReplayEnd, ReplayUnreadable, AtMessage
  <2>2. UNCHANGED <<slot, next, replayed>> /\ op' = Idle
    BY <1>4 DEF ReplayEnd, ReplayUnreadable, Finish
  <2>3. PICK n \in 0..ring.count : op.sent <= n /\ ring' = Drop(ring, n)
    <3>1. ring.count \in Nat /\ op.sent \in Nat /\ op.sent <= op.sent + 1
      BY DEF RingTyped, Rings
    <3>2. AtMessage => op.sent + 1 \in 0..ring.count
      BY <2>1, <3>1 DEF AtMessage
    <3>3. ring' = Drop(ring, op.sent) \/ (AtMessage /\ ring' = Drop(ring, op.sent + 1))
      BY <1>4 DEF ReplayEnd, ReplayUnreadable, Finish
    <3>4. op.sent <= op.sent
      BY <3>1
    <3>5. QED
      BY <2>1, <3>1, <3>2, <3>3, <3>4
  <2>4. QED
    BY <1>1, <2>1, <2>2, <2>3, FinishInStep
<1>5. CASE StoreHeader
  <2>1. /\ op.name = "store" /\ op' = Idle /\ UNCHANGED <<slot, replayed>>
        /\ ring' = Grow(ring) /\ header' = ring' /\ next' = next + 1
    BY <1>5, Undisturbed DEF StoreHeader
  <2>2. Ahead' = Ahead /\ Gone' = Gone /\ Bound' = Bound
    BY <2>1 DEF Ahead, Gone, Bound, Idle
  <2>3. next <= next' /\ Bound <= Bound' /\ Bound' \in Nat
    BY <2>1, <2>2, AheadTyped DEF RingTyped
  <2>4. QED
    BY <1>1, <2>1, <2>2, <2>3, QuietStep
<1>6. CASE PowerCut
  <2>1. /\ op.name # "store" /\ ~(op.sent > 0) /\ op' = Idle /\ UNCHANGED <<replayed, next>>
        /\ header' = ring'
    BY <1>6, Undisturbed DEF PowerCut, LoadHeader, Recreate
  <2>2. op.sent \in Nat /\ next \in Nat
    BY DEF RingTyped
  <2>3. op.sent = 0
    BY <2>1, <2>2
  <2>4. CASE LoadHeader
    <3>1. slot' = slot /\ ring' = ring
      BY <1>1, <2>4 DEF LoadHeader, InStep
    <3>2. Ahead' = Ahead /\ Gone' = Gone /\ Bound' = Bound
      BY <2>1, <2>3, <3>1 DEF Ahead, Gone, Bound, Idle
    <3>3. next <= next' /\ Bound <= Bound' /\ Bound' \in Nat
      BY <2>1, <2>2, <3>2, AheadTyped
    <3>4. QED
      BY <1>1, <2>1, <3>1, <3>2, <3>3, QuietStep
  <2>5. CASE Recreate
    <3>1. Ahead' = Empty
      BY <2>1, <2>5 DEF Recreate, Ahead, Idle
    <3>2. Gone' = 0 /\ 0..(Ahead'.count - 1) = {} /\ Gone'..(Ahead'.count - 1) = {}
      BY <2>1, <3>1, EmptyPlaces DEF Gone, Idle
    <3>3. QED
      BY <1>1, <2>1, <3>2 DEF InStep
  <2>6. QED
    BY <1>6, <2>4, <2>5 DEF PowerCut
<1>7. CASE StoreDuplicate \/ ReplayBegin \/ UNCHANGED bufferVars
  <2>1. /\ UNCHANGED <<slot, header, ring, replayed>>
        /\ next' \in {next, next + 1}
        /\ \/ op' = op /\ next' = next
           \/ op = Idle /\ op' = Idle
           \/ op = Idle /\ op'.name = "replay" /\ op'.sent = 0
    BY <1>7 DEF StoreDuplicate, ReplayBegin, bufferVars
  <2>2. next \in Nat /\ header' = ring'
    BY <1>1, <2>1 DEF RingTyped, InStep
  <2>3. Ahead' = Ahead /\ Gone' = Gone
    BY <2>1 DEF Ahead, Gone, Idle, Grow, RingFull
  <2>4. Bound' \in {Bound, next'} /\ (Bound = next \/ Bound' = Bound)
    BY <2>1 DEF Bound, Idle
  <2>5. next <= next' /\ Bound <= Bound' /\ Bound' \in Nat
    BY <1>1, <2>1, <2>2, <2>4, AheadTyped
  <2>6. QED
    BY <1>1, <2>1, <2>2, <2>3, <2>5, QuietStep
<1>8. QED
  BY <1>2, <1>3, <1>4, <1>5, <1>6, <1>7 DEF BufferNext

(* As long as no header write was missed, the broker gets the events in    *)
(* the order they were raised and none twice, wherever the ring wraps and  *)
(* however often a batch is refused or the power fails between two calls.  *)
THEOREM ReplayIsInOrderOnce == BufferSpec => []InOrderOnce
<1>1. BufferInit => OnceInv
  <2> SUFFICES ASSUME BufferInit PROVE OnceInv
    OBVIOUS
  <2>1. RingTyped /\ SentIsReplayed
    BY RingInvInit DEF RingInv
  <2>2. Ahead = Empty /\ Len(replayed) = 0 /\ header = ring
    BY DEF BufferInit, Ahead, Idle
  <2>3. Ahead.count = 0
    BY <2>2 DEF Empty
  <2>4. /\ \A i \in 0..(Ahead.count - 1) : FALSE
        /\ \A k \in 1..Len(replayed) : FALSE
        /\ \A k \in 1..(Len(replayed) - 1) : FALSE
    BY <2>2, <2>3
  <2>5. InStep
    BY <2>2, <2>4 DEF InStep
  <2>6. QED
    BY <2>1, <2>5 DEF OnceInv
<1>2. OnceInv /\ [BufferNext]_bufferVars => OnceInv'
  <2> SUFFICES ASSUME OnceInv, [BufferNext]_bufferVars PROVE OnceInv'
    OBVIOUS
  <2>1. RingTyped' /\ SentIsReplayed'
    BY RingTypedStep, SentIsReplayedStep DEF OnceInv
  <2>2. ~disturbed' => InStep'
    BY InStepStep DEF OnceInv
  <2>3. QED
    BY <2>1, <2>2 DEF OnceInv
<1>3. OnceInv => InOrderOnce
  BY DEF OnceInv, InStep, InOrderOnce
<1>4. QED
  BY <1>1, <1>2, <1>3, PTL DEF BufferSpec

-----------------------------------------------------------------------------
(* Alerting: the slots of the cooldowns tell when a producer was heard.    *)

Texts == [id : Nat, retries : Nat]
Posts == [kind : {"discord", "generic"}, retries : Nat]

QueuesTyped ==
  /\ messages \in Seq(Texts) /\ sending \in Seq(Texts)
  /\ hooks \in Seq(Posts) /\ posting \in Seq(Posts)
  /\ Len(hooks) <= HookRoom
  /\ requests \in Nat

(* A producer's slot is stamped when, and only when, it was heard.         *)
SlotsAreTrue ==
  /\ idle \in [Slots -> Ages] /\ told \in [Producers -> Ages]
  /\ \A p \in Producers : idle[p] = told[p]

AlertingInv == QueuesTyped /\ SlotsAreTrue

LEMMA NewText == Message(0) \in Texts
BY DEF Message, Texts

LEMMA PutFirst ==
  ASSUME NEW S, NEW x \in S, NEW s \in Seq(S)
  PROVE  <<x>> \o s \in Seq(S) /\ Len(<<x>> \o s) = Len(s) + 1
OBVIOUS

(* sendMessage() puts at most one message at the end, and shows it.        *)
LEMMA SendMessageEffect ==
  ASSUME messages \in Seq(Texts), sendMessage
  PROVE  messages' \in Seq(Texts) /\ (messages' # messages <=> MessageFits)
<1>1. CASE MessageFits
  <2>1. messages' = Append(messages, Message(0))
    BY <1>1 DEF sendMessage
  <2>2. messages' \in Seq(Texts) /\ Len(messages') = Len(messages) + 1
    BY <2>1, NewText
  <2>3. Len(messages) \in Nat
    OBVIOUS
  <2>4. messages' # messages
    BY <2>2, <2>3
  <2>5. QED
    BY <2>2, <2>4, <1>1
<1>2. CASE ~MessageFits
  BY <1>2 DEF sendMessage
<1>3. QED
  BY <1>1, <1>2

(* The requests of an alert are cut at the room there is.                  *)
LEMMA RequestsFit ==
  ASSUME NEW a \in Alerts, hooks \in Seq(Posts), Len(hooks) <= HookRoom
  PROVE  /\ RequestsThatFit(a) \in Seq(Posts)
         /\ Len(hooks) + Len(RequestsThatFit(a)) <= HookRoom
<1>1. HookRoom \in Nat /\ Len(hooks) \in Nat
  BY AlertingAssumption
<1>2. Request("discord") \in Posts /\ Request("generic") \in Posts
  BY DEF Request, Posts
<1>3. <<Request("discord")>> \in Seq(Posts) /\ <<Request("generic")>> \in Seq(Posts)
      /\ <<>> \in Seq(Posts)
  BY <1>2
<1>4. Requests(a) \in Seq(Posts)
  BY <1>3 DEF Requests
<1>5. PICK all : all = Requests(a)
  OBVIOUS
<1>6. PICK free : free = HookRoom - Len(hooks)
  OBVIOUS
<1>7. PICK k : k = IF Len(all) < free THEN Len(all) ELSE free
  OBVIOUS
<1>8. RequestsThatFit(a) = SubSeq(all, 1, k)
  BY <1>5, <1>6, <1>7 DEF RequestsThatFit
<1>9. all \in Seq(Posts) /\ Len(all) \in Nat
  BY <1>4, <1>5
<1>10. k \in 0 .. Len(all) /\ Len(hooks) + k <= HookRoom
  BY <1>1, <1>6, <1>7, <1>9
<1>11. SubSeq(all, 1, k) \in Seq(Posts) /\ Len(SubSeq(all, 1, k)) = k
  BY <1>9, <1>10
<1>12. QED
  BY <1>8, <1>10, <1>11

(* sendAlert() stamps the slot of a producer that is heard, no other's.    *)
LEMMA SendAlertStep ==
  ASSUME AlertingInv, NEW a \in Alerts, sendAlert(a)
  PROVE  AlertingInv'
<1>1. /\ sendMessage
      /\ hooks' = hooks \o RequestsThatFit(a)
      /\ idle' = IF Accepted(a) THEN [idle EXCEPT ![Slot(a)] = 0] ELSE idle
      /\ told' = IF Named(a) /\ (messages' # messages \/ hooks' # hooks)
                   THEN [told EXCEPT ![a.source] = 0] ELSE told
      /\ UNCHANGED <<sending, posting, requests>>
  BY DEF sendAlert
<1>2. /\ messages \in Seq(Texts) /\ sending \in Seq(Texts) /\ hooks \in Seq(Posts)
      /\ posting \in Seq(Posts) /\ Len(hooks) <= HookRoom /\ requests \in Nat
  BY DEF AlertingInv, QueuesTyped
<1>3. messages' \in Seq(Texts) /\ (messages' # messages <=> MessageFits)
  BY <1>1, <1>2, SendMessageEffect
<1>4. RequestsThatFit(a) \in Seq(Posts) /\ Len(hooks) + Len(RequestsThatFit(a)) <= HookRoom
  BY <1>2, RequestsFit
<1>5. hooks' \in Seq(Posts) /\ Len(hooks') = Len(hooks) + Len(RequestsThatFit(a))
  BY <1>1, <1>2, <1>4
<1>6. hooks' # hooks <=> RequestsThatFit(a) # <<>>
  BY <1>1, <1>2, <1>4, <1>5
<1>7. Accepted(a) <=> messages' # messages \/ hooks' # hooks
  BY <1>3, <1>6 DEF Accepted
<1>8. QueuesTyped'
  BY <1>1, <1>2, <1>3, <1>4, <1>5 DEF QueuesTyped
<1>9. SlotsAreTrue'
  <2>1. /\ idle \in [Slots -> Ages] /\ told \in [Producers -> Ages]
        /\ \A p \in Producers : idle[p] = told[p]
    BY DEF AlertingInv, SlotsAreTrue
  <2>2. /\ Producers \subseteq Slots /\ 0 \in Ages
        /\ a.type \notin Producers /\ a.type \in Slots
        /\ Named(a) => a.source \in Producers
    BY AlertingAssumption DEF Slots, Types, Ages, Producers
  <2>3. CASE ~Accepted(a)
    <3>1. UNCHANGED <<idle, told>>
      BY <2>3, <1>1, <1>7
    <3>2. QED
      BY <3>1, <2>1 DEF SlotsAreTrue
  <2>4. CASE Accepted(a) /\ Named(a)
    <3>1. idle' = [idle EXCEPT ![a.source] = 0] /\ told' = [told EXCEPT ![a.source] = 0]
      BY <2>4, <1>1, <1>7 DEF Slot
    <3>2. QED
      BY <3>1, <2>1, <2>2, <2>4 DEF SlotsAreTrue
  <2>5. CASE Accepted(a) /\ ~Named(a)
    <3>1. idle' = [idle EXCEPT ![a.type] = 0] /\ told' = told
      BY <2>5, <1>1, <1>7 DEF Slot
    <3>2. QED
      BY <3>1, <2>1, <2>2 DEF SlotsAreTrue
  <2>6. QED
    BY <2>3, <2>4, <2>5
<1>10. QED
  BY <1>8, <1>9 DEF AlertingInv

(* Whatever else is put in a queue or taken out of it.                     *)
LEMMA QueueSteps ==
  ASSUME QueuesTyped,
         \/ MessageOnly \/ enqueueTestMessage \/ RefuseTest \/ Take \/ Sent \/ SendFailed
         \/ processCommand \/ TakeRequest \/ Posted \/ PostFailed
  PROVE  QueuesTyped'
<1>1. /\ messages \in Seq(Texts) /\ sending \in Seq(Texts) /\ hooks \in Seq(Posts)
      /\ posting \in Seq(Posts) /\ Len(hooks) <= HookRoom /\ requests \in Nat
      /\ HookRoom \in Nat /\ Len(hooks) \in Nat
  BY AlertingAssumption DEF QueuesTyped
<1>2. CASE MessageOnly \/ processCommand
  <2>1. sendMessage /\ UNCHANGED <<sending, hooks, posting, requests>>
    BY <1>2 DEF MessageOnly, processCommand
  <2>2. QED
    BY <2>1, <1>1, SendMessageEffect DEF QueuesTyped
<1>3. CASE enqueueTestMessage \/ RefuseTest
  <2>1. requests' = requests + 1 /\ UNCHANGED <<sending, hooks, posting>>
        /\ (messages' = <<Message(requests')>> \o messages \/ messages' = messages)
    BY <1>3 DEF enqueueTestMessage, RefuseTest, senders
  <2>2. Message(requests') \in Texts /\ requests' \in Nat
    BY <2>1, <1>1 DEF Message, Texts
  <2>3. messages' \in Seq(Texts)
    BY <2>1, <2>2, <1>1, PutFirst
  <2>4. QED
    BY <2>1, <2>2, <2>3, <1>1 DEF QueuesTyped
<1>4. CASE Take
  <2>1. /\ messages # <<>> /\ sending' = <<Head(messages)>> /\ messages' = Tail(messages)
        /\ UNCHANGED <<hooks, posting, requests>>
    BY <1>4 DEF Take
  <2>2. Head(messages) \in Texts /\ Tail(messages) \in Seq(Texts)
    BY <2>1, <1>1
  <2>3. QED
    BY <2>1, <2>2, <1>1 DEF QueuesTyped
<1>5. CASE Sent \/ SendFailed
  <2>1. /\ sending # <<>> /\ sending' = <<>>
        /\ UNCHANGED <<hooks, posting, requests>>
        /\ \/ messages' = messages
           \/ messages' = <<[sending[1] EXCEPT !.retries = @ + 1]>> \o messages
    BY <1>5 DEF Sent, SendFailed, PutBack, GiveUp, SendEnds
  <2>2. sending[1] \in Texts
    BY <2>1, <1>1
  <2>3. [sending[1] EXCEPT !.retries = @ + 1] \in Texts
    BY <2>2 DEF Texts
  <2>4. messages' \in Seq(Texts)
    BY <2>1, <2>3, <1>1, PutFirst
  <2>5. QED
    BY <2>1, <2>4, <1>1 DEF QueuesTyped
<1>6. CASE TakeRequest
  <2>1. /\ hooks # <<>> /\ posting' = <<Head(hooks)>> /\ hooks' = Tail(hooks)
        /\ UNCHANGED <<messages, sending, requests>>
    BY <1>6 DEF TakeRequest
  <2>2. Head(hooks) \in Posts /\ Tail(hooks) \in Seq(Posts) /\ Len(Tail(hooks)) = Len(hooks) - 1
    BY <2>1, <1>1
  <2>3. QED
    BY <2>1, <2>2, <1>1 DEF QueuesTyped
<1>7. CASE Posted \/ PostFailed
  <2>1. /\ posting # <<>> /\ posting' = <<>>
        /\ UNCHANGED <<messages, sending, requests>>
        /\ \/ hooks' = hooks
           \/ /\ Len(hooks) < HookRoom
              /\ hooks' = <<[posting[1] EXCEPT !.retries = @ + 1]>> \o hooks
    BY <1>7 DEF Posted, PostFailed, PostEnds
  <2>2. posting[1] \in Posts
    BY <2>1, <1>1
  <2>3. [posting[1] EXCEPT !.retries = @ + 1] \in Posts
    BY <2>2 DEF Posts
  <2>4. CASE hooks' = hooks
    BY <2>1, <2>4, <1>1 DEF QueuesTyped
  <2>5. CASE /\ Len(hooks) < HookRoom
             /\ hooks' = <<[posting[1] EXCEPT !.retries = @ + 1]>> \o hooks
    <3>1. hooks' \in Seq(Posts) /\ Len(hooks') = Len(hooks) + 1
      BY <2>5, <2>3, <1>1, PutFirst
    <3>2. Len(hooks') <= HookRoom
      BY <3>1, <2>5, <1>1
    <3>3. QED
      BY <2>1, <3>1, <3>2, <1>1 DEF QueuesTyped
  <2>6. QED
    BY <2>1, <2>4, <2>5
<1>8. QED
  BY <1>2, <1>3, <1>4, <1>5, <1>6, <1>7

LEMMA AlertingStep == AlertingInv /\ [AlertingNext]_alertingVars => AlertingInv'
<1> SUFFICES ASSUME AlertingInv, [AlertingNext]_alertingVars PROVE AlertingInv'
  OBVIOUS
<1>1. CASE \E a \in Alerts : sendAlert(a)
  BY <1>1, SendAlertStep
<1>2. CASE \/ Fallback \/ UploadFailed \/ enqueueTestMessage \/ RefuseTest \/ Take \/ Sent
           \/ SendFailed \/ processCommand \/ TakeRequest \/ Posted \/ PostFailed
  <2>1. QueuesTyped'
    BY <1>2, QueueSteps DEF AlertingInv, Fallback, UploadFailed
  <2>2. UNCHANGED <<idle, told>>
    BY <1>2 DEF Fallback, UploadFailed, MessageOnly, enqueueTestMessage, RefuseTest, Take,
                Sent, SendFailed, PutBack, GiveUp, SendEnds, processCommand, TakeRequest,
                Posted, PostFailed, PostEnds
  <2>3. QED
    BY <2>1, <2>2 DEF AlertingInv, SlotsAreTrue
<1>3. CASE MuteEnds \/ Configure \/ UNCHANGED alertingVars
  <2>1. UNCHANGED <<messages, sending, hooks, posting, requests, idle, told>>
    BY <1>3 DEF MuteEnds, Configure, alertingVars, senders
  <2>2. QED
    BY <2>1 DEF AlertingInv, QueuesTyped, SlotsAreTrue
<1>4. CASE AlertingTick
  <2>1. /\ idle' = [s \in Slots |-> Later(idle[s])]
        /\ told' = [p \in Producers |-> Later(told[p])]
        /\ UNCHANGED <<messages, sending, hooks, posting, requests>>
    BY <1>4 DEF AlertingTick, senders
  <2>2. \A age \in Ages : Later(age) \in Ages
    BY AlertingAssumption DEF Ages, Later
  <2>3. Producers \subseteq Slots
    BY DEF Slots
  <2>4. QED
    BY <2>1, <2>2, <2>3 DEF AlertingInv, QueuesTyped, SlotsAreTrue
<1>5. CASE AlertingRestart
  <2>1. /\ idle' = [s \in Slots |-> Cooldown] /\ told' = [p \in Producers |-> Cooldown]
        /\ messages' = <<>> /\ sending' = <<>> /\ hooks' = <<>> /\ posting' = <<>>
        /\ requests' = 0
    BY <1>5 DEF AlertingRestart
  <2>2. Cooldown \in Ages /\ HookRoom \in Nat /\ Producers \subseteq Slots
    BY AlertingAssumption DEF Ages, Slots
  <2>3. QED
    BY <2>1, <2>2 DEF AlertingInv, QueuesTyped, SlotsAreTrue
<1>6. QED
  BY <1>1, <1>2, <1>3, <1>4, <1>5 DEF AlertingNext

(* No producer silences another, and an alert that no queue took silences  *)
(* nobody (NotificationCooldownPolicy.h; NotificationService::sendAlert()  *)
(* stamps the slot only when a channel accepted).                          *)
THEOREM ProducersAreHeard == AlertingSpec => []NobodyMasksAnother
<1>1. AlertingInit => AlertingInv
  <2> SUFFICES ASSUME AlertingInit PROVE AlertingInv
    OBVIOUS
  <2>1. /\ idle = [s \in Slots |-> Cooldown] /\ told = [p \in Producers |-> Cooldown]
        /\ messages = <<>> /\ sending = <<>> /\ hooks = <<>> /\ posting = <<>>
        /\ requests = 0
    BY DEF AlertingInit
  <2>2. Cooldown \in Ages /\ HookRoom \in Nat /\ Producers \subseteq Slots
    BY AlertingAssumption DEF Ages, Slots
  <2>3. QED
    BY <2>1, <2>2 DEF AlertingInv, QueuesTyped, SlotsAreTrue
<1>2. AlertingInv => NobodyMasksAnother
  BY DEF AlertingInv, SlotsAreTrue, NobodyMasksAnother, Allowed, Slot, Producers
<1>3. QED
  BY <1>1, <1>2, AlertingStep, PTL DEF AlertingSpec
=============================================================================
