---------------------------- MODULE AlarmDelivery ----------------------------
(***************************************************************************)
(* The way of an alarm event to the broker: SecurityMonitor's queue of     *)
(* pending events, the peek, publish and consume of loop() (src/main.cpp), *)
(* MQTTService::publishResult() and the offline buffer behind it, here a   *)
(* sequence on flash (OfflineBuffer.tla has its ring and its failures, of  *)
(* which a restart shows one here: messages that it does not bring back).  *)
(*                                                                         *)
(* An event is its id; they are numbered as they occur.                    *)
(***************************************************************************)
EXTENDS Naturals, Sequences, SequencesExt

CONSTANTS
  QueueSize,    \* ALARM_QUEUE_SIZE: 4
  MaxEvents,    \* bound: events that occur
  MaxRepeats,   \* bound: consumes that give up
  EventLength,  \* length of an event's JSON: 235 characters at least
  SlotLengths   \* lengths of BufferedMsg::payload to look at: 200 characters

ASSUME DeliveryAssumption ==
  /\ QueueSize \in Nat \ {0} /\ {MaxRepeats, EventLength} \subseteq Nat
  /\ SlotLengths \subseteq Nat

VARIABLES
  queue,      \* _pendingEvents (RAM)
  buffer,     \* the offline buffer (flash)
  slotLength, \* its BufferedMsg::payload, never changed
  link,       \* the broker: "up", "down", or "half" open, dead but not noticed
  ota,        \* an update is being written
  published,  \* loop() is between publishing and consuming the oldest event
  event,      \* the latest event's id
  delivered,  \* history: what the broker got, in order
  dropped,    \* history: events that met a full queue
  forgotten,  \* history: events in RAM at a restart, or lost by the buffer
  repeats     \* history: consumes that gave up on the monitor's mutex

vars == <<queue, buffer, slotLength, link, ota, published, event,
          delivered, dropped, forgotten, repeats>>

Init ==
  /\ queue = <<>>
  /\ buffer = <<>>
  /\ slotLength \in SlotLengths
  /\ link \in {"up", "down"}
  /\ ota = FALSE
  /\ published = FALSE
  /\ event = 0
  /\ delivered = <<>>
  /\ dropped = {}
  /\ forgotten = {}
  /\ repeats = 0

-----------------------------------------------------------------------------
Full == Len(queue) = QueueSize

QueuedInFrontWrong(id) == IF Full THEN queue ELSE <<id>> \o queue
Queued(id) == IF Full THEN queue ELSE Append(queue, id)

(* enqueueAlarmEvent(), from any task that holds the monitor's mutex. *)
EnqueueAlarmEvent ==
  /\ event < MaxEvents
  /\ event' = event + 1
  /\ queue' = Queued(event')
  /\ dropped' = IF Full THEN dropped \cup {event'} ELSE dropped
  /\ UNCHANGED <<slotLength, buffer, link, ota, published, delivered, forgotten, repeats>>

(* MQTTOfflineBuffer::store() has no room for a longer payload. *)
Storable == EventLength < slotLength - 1

Stored(id) == IF id \in Range(buffer) THEN buffer ELSE Append(buffer, id)

ConsumesOnFailureWrong(result) == TRUE

(* mqttPublishResultConsumes() *)
Consumes(result) == result # "FAILED"

(* publishResult(): an update in progress refuses everything, a dead link  *)
(* leaves the event to the buffer, the first to notice one closes it.      *)
PublishResult ==
  CASE ota -> "FAILED"
    [] ~ota /\ link = "up" -> "PUBLISHED"
    [] ~ota /\ link # "up" -> IF Storable THEN "QUEUED_OFFLINE" ELSE "FAILED"

(* loop() peeks at the oldest event and publishes it. *)
Publish ==
  /\ ~published
  /\ queue # <<>>
  /\ delivered' = IF PublishResult = "PUBLISHED"
                  THEN Append(delivered, Head(queue)) ELSE delivered
  /\ buffer' = IF PublishResult = "QUEUED_OFFLINE" THEN Stored(Head(queue)) ELSE buffer
  /\ link' = IF link = "half" /\ ~ota THEN "down" ELSE link
  /\ published' = Consumes(PublishResult)
  /\ UNCHANGED <<slotLength, queue, ota, event, dropped, forgotten, repeats>>

(* consumeAlarmEvent(): nothing, if the mutex is not free within 10 ms. *)
ConsumeAlarmEvent ==
  /\ published
  /\ published' = FALSE
  /\ \/ queue' = Tail(queue) /\ repeats' = repeats
     \/ queue' = queue /\ repeats < MaxRepeats /\ repeats' = repeats + 1
  /\ UNCHANGED <<slotLength, buffer, link, ota, event, delivered, dropped, forgotten>>

(* MQTTService::update() replays the buffer, oldest first. *)
Replay ==
  /\ ~published /\ ~ota
  /\ link = "up"
  /\ buffer # <<>>
  /\ delivered' = Append(delivered, Head(buffer))
  /\ buffer' = Tail(buffer)
  /\ UNCHANGED <<slotLength, queue, link, ota, published, event, dropped, forgotten, repeats>>

Connect ==
  /\ link = "down" /\ ~ota
  /\ link' = "up"
  /\ UNCHANGED <<slotLength, queue, buffer, ota, published, event,
                 delivered, dropped, forgotten, repeats>>

LinkFails ==
  /\ link = "up"
  /\ link' \in {"half", "down"}
  /\ UNCHANGED <<slotLength, queue, buffer, ota, published, event,
                 delivered, dropped, forgotten, repeats>>

Update ==
  /\ ota' = ~ota
  /\ UNCHANGED <<slotLength, queue, buffer, link, published, event,
                 delivered, dropped, forgotten, repeats>>

(* What MQTTOfflineBuffer::begin() finds: an older header misses the last  *)
(* messages, with none that it can read it makes the file anew.            *)
Survivors == {SubSeq(buffer, 1, n) : n \in 0..Len(buffer)}

Restart ==
  /\ queue' = <<>>
  /\ buffer' \in Survivors
  /\ forgotten' = forgotten \cup
       ((Range(queue) \cup (Range(buffer) \ Range(buffer'))) \ Range(delivered))
  /\ link' = "down"
  /\ ota' = FALSE
  /\ published' = FALSE
  /\ UNCHANGED <<slotLength, event, delivered, dropped, repeats>>

Next ==
  \/ EnqueueAlarmEvent
  \/ Publish
  \/ ConsumeAlarmEvent
  \/ Replay
  \/ Connect
  \/ LinkFails
  \/ Update
  \/ Restart

Spec == Init /\ [][Next]_vars

(* loop() tries for ever.  An outage or an update ends at last and leaves  *)
(* it the time for a publish, and the mutex is not held in every try.      *)
FairSpec ==
  /\ Spec
  /\ SF_vars(Publish)
  /\ SF_vars(Publish /\ PublishResult = "PUBLISHED")
  /\ SF_vars(ConsumeAlarmEvent /\ queue' = Tail(queue))
  /\ SF_vars(Connect) /\ SF_vars(ota /\ Update)

-----------------------------------------------------------------------------
TypeOK ==
  /\ queue \in Seq(1..MaxEvents) /\ Len(queue) <= QueueSize
  /\ buffer \in Seq(1..MaxEvents) /\ slotLength \in SlotLengths
  /\ link \in {"up", "half", "down"}
  /\ ota \in BOOLEAN /\ published \in BOOLEAN /\ repeats \in 0..MaxRepeats
  /\ event \in 0..MaxEvents
  /\ delivered \in Seq(1..MaxEvents)
  /\ dropped \cup forgotten \subseteq 1..MaxEvents

(* main.cpp: peek first, consume only after a successful publish.  No      *)
(* event leaves the queue unless the broker or the flash has it, whatever  *)
(* the link, an update or another task does between the two.               *)
NoSilentLoss ==
  \A id \in 1..event :
    \/ id \in Range(delivered) \cup Range(buffer) \cup Range(queue)
    \/ id \in dropped \cup forgotten

(* The broker gets the events in the order in which they happened, and     *)
(* each once unless a consume gave up (peekAlarmEvent()).  Were the slots  *)
(* long enough for events, a live one could overtake those in the buffer.  *)
InOrder ==
  ~Storable => \A i \in 1..(Len(delivered) - 1) :
    \/ delivered[i] < delivered[i + 1]
    \/ repeats > 0 /\ delivered[i] = delivered[i + 1]

(* An event waiting in RAM reaches the broker, unless a restart comes      *)
(* first: no event blocks the ones behind it for ever.                     *)
QueueIsDelivered ==
  \A id \in 1..MaxEvents :
    id \in Range(queue) ~> id \in Range(delivered) \cup Range(buffer) \cup forgotten

(* MQTTOfflineBuffer.h: a security event is stored when MQTT is offline.   *)
OfflineEventIsStored ==
  [][Publish /\ ~ota /\ link # "up" => Head(queue) \in Range(buffer')]_vars
=============================================================================
