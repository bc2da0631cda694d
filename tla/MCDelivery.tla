----------------------------- MODULE MCDelivery -----------------------------
(* Alarm events on their way to the broker, and the offline buffer, which  *)
(* AlarmDelivery takes for a sequence, with what it is made of.  Each is   *)
(* checked by itself: `carrier' says which one this behaviour runs.        *)
EXTENDS MCAlarmDelivery, OfflineBuffer

VARIABLE carrier

(* Three slots, one of which may be broken, batches of two and four        *)
(* events: the ring fills, wraps and overwrites, and a power cut can hit   *)
(* every step of it.                                                       *)
SoundOrBroken == {{}, {1}}

OnQueue == carrier = "queue" /\ UNCHANGED <<carrier, bufferVars>>
OnBuffer == carrier = "buffer" /\ UNCHANGED <<carrier, vars>>

mcVars == <<carrier, vars, bufferVars>>

(* Of the ways to begin, a part that rests has one. *)
MCInit ==
  /\ carrier \in {"queue", "buffer"}
  /\ Init /\ BufferInit
  /\ carrier # "queue" => link = "up" /\ slotLength = 200
  /\ carrier # "buffer" => bad = {}

(* The actions one by one, so that TLC tells for each whether it happens.  *)
MCNext ==
  \/ OnQueue /\ EnqueueAlarmEvent
  \/ OnQueue /\ Publish
  \/ OnQueue /\ ConsumeAlarmEvent
  \/ OnQueue /\ Replay
  \/ OnQueue /\ Connect
  \/ OnQueue /\ LinkFails
  \/ OnQueue /\ Update
  \/ OnQueue /\ Restart
  \/ OnBuffer /\ StoreDuplicate
  \/ OnBuffer /\ StoreSlot
  \/ OnBuffer /\ StoreHeader
  \/ OnBuffer /\ ReplayBegin
  \/ OnBuffer /\ ReplayPublish
  \/ OnBuffer /\ ReplayEnd
  \/ OnBuffer /\ ReplayUnreadable
  \/ OnBuffer /\ PowerCut

(* The fairness of each part, as far as it runs. *)
MCSpec ==
  /\ MCInit /\ [][MCNext]_mcVars
  /\ SF_vars(OnQueue /\ Publish)
  /\ SF_vars(OnQueue /\ Publish /\ PublishResult = "PUBLISHED")
  /\ SF_vars(OnQueue /\ ConsumeAlarmEvent /\ queue' = Tail(queue))
  /\ SF_vars(OnQueue /\ Connect)
  /\ SF_vars(OnQueue /\ ota /\ Update)
  /\ SF_bufferVars(OnBuffer /\ ReplayBegin)
  /\ SF_bufferVars(OnBuffer /\ ReplayPublish)
  /\ WF_bufferVars(OnBuffer /\ ReplayEnd)
  /\ WF_bufferVars(OnBuffer /\ ReplayUnreadable)
  /\ WF_bufferVars(OnBuffer /\ StoreHeader)
=============================================================================
