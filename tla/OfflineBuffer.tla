---------------------------- MODULE OfflineBuffer ----------------------------
(***************************************************************************)
(* src/services/MQTTOfflineBuffer.cpp: a ring of messages in a LittleFS    *)
(* file.  A slot is written first, the header with head and count second;  *)
(* replay() publishes a batch and writes the header at its end.  loop() is *)
(* the only caller; the power may fail between any two file operations.    *)
(*                                                                         *)
(* A message is its event id, numbered in the order of their first store() *)
(* (ids of different boots never meet); 0 is an empty slot.  A write that  *)
(* fails leaves the file as it was, and close() commits (LittleFS).        *)
(* updateHeader() notices a file that does not open, never a write that    *)
(* fails.                                                                  *)
(***************************************************************************)
EXTENDS Naturals, Sequences, SequencesExt

CONSTANTS
  Capacity,   \* MQTT_BUF_CAPACITY: 200
  Batch,      \* MQTT_BUF_REPLAY_BATCH: 4
  MaxStored,  \* bound: events the caller comes up with
  MaxCuts,    \* bound: power failures
  BadSlots    \* the sets of slots of the file that may be unreadable

ASSUME BufferAssumption ==
  /\ Capacity \in Nat \ {0} /\ Batch \in Nat \ {0}
  /\ BadSlots \subseteq SUBSET (0..(Capacity - 1))

VARIABLES
  slot,       \* the slots of the file
  bad,        \* those that cannot be read
  header,     \* head and count in the file
  ring,       \* _head and _count
  streak,     \* _replayReadFailureStreak
  op,         \* the call in progress: its name, and what replay() has sent
  next,       \* the caller's oldest event that is neither stored nor given up
  cuts,       \* power failures so far
  replayed,   \* history: what the broker got, in order
  accepted,   \* history: events store() answered true for
  lost,       \* history: events overwritten, skipped, or lost at a boot
  missed,     \* history: events accepted since a header write was lost
  disturbed   \* history: a header was missed, by a failure or a power cut

bufferVars == <<slot, bad, header, ring, streak, op, next, cuts,
                replayed, accepted, lost, missed, disturbed>>

Empty == [head |-> 0, count |-> 0]
Blank == [i \in 0..(Capacity - 1) |-> 0]
Idle == [name |-> "none", sent |-> 0]

BufferInit ==
  /\ slot = Blank
  /\ bad \in BadSlots
  /\ header = Empty
  /\ ring = Empty
  /\ streak = 0
  /\ op = Idle
  /\ next = 1
  /\ cuts = 0
  /\ replayed = <<>>
  /\ accepted = {}
  /\ lost = {}
  /\ missed = {}
  /\ disturbed = FALSE

-----------------------------------------------------------------------------
Physical(r, i) == (r.head + i) % Capacity
Content(r) == {slot[Physical(r, i)] : i \in 0..(r.count - 1)}

(* containsEventId() gives up at the first slot it cannot read. *)
ContainsEventId(r, event) ==
  \E i \in 0..(r.count - 1) :
    /\ slot[Physical(r, i)] = event
    /\ \A j \in 0..i : Physical(r, j) \notin bad

RingFull(r) == r.count >= Capacity

WriteIndex(r) == IF RingFull(r) THEN r.head ELSE Physical(r, r.count)

Grow(r) ==
  IF RingFull(r) THEN [r EXCEPT !.head = (@ + 1) % Capacity]
  ELSE [r EXCEPT !.count = @ + 1]

DropBatchWrong(r, n) ==
  LET b == IF r.count < Batch THEN r.count ELSE Batch
  IN  [head |-> (r.head + b) % Capacity, count |-> r.count - b]

ForgetHeadWrong(r, n) == [r EXCEPT !.count = @ - n]
Drop(r, n) == [head |-> (r.head + n) % Capacity, count |-> r.count - n]

(* updateHeader() *)
HeaderWritten(r) == header' = r /\ missed' = {}
HeaderFails == UNCHANGED <<header, missed>>

(* store() finds the event in the ring: true, and nothing to do. *)
StoreDuplicate ==
  /\ op = Idle
  /\ next <= MaxStored
  /\ ContainsEventId(ring, next)
  /\ accepted' = accepted \cup {next}
  /\ missed' = IF missed = {} THEN {} ELSE missed \cup {next}
  /\ next' = next + 1
  /\ UNCHANGED <<slot, bad, header, ring, streak, op, cuts, replayed, lost, disturbed>>

(* store() writes the slot; a failing open or write answers false. *)
StoreSlot ==
  /\ op = Idle
  /\ next <= MaxStored
  /\ ~ContainsEventId(ring, next)
  /\ LET i == WriteIndex(ring)
     IN  /\ slot' = [slot EXCEPT ![i] = next]
         /\ lost' = IF RingFull(ring) THEN lost \cup ({slot[i]} \ {next}) ELSE lost
  /\ op' = [name |-> "store", sent |-> 0]
  /\ UNCHANGED <<bad, header, ring, streak, next, cuts, replayed, accepted, missed, disturbed>>

(* ... and the header, or takes head and count back and answers false when *)
(* the file does not open.  A header that could not be written is taken    *)
(* for one that was.                                                       *)
StoreHeader ==
  /\ op.name = "store"
  /\ op' = Idle
  /\ \/ /\ ring' = Grow(ring)
        /\ accepted' = accepted \cup {next}
        /\ next' = next + 1
        /\ \/ HeaderWritten(ring') /\ disturbed' = disturbed
           \/ header' = header /\ missed' = missed \cup {next} /\ disturbed' = TRUE
     \/ /\ HeaderFails
        /\ disturbed' = TRUE
        /\ UNCHANGED <<ring, accepted, next>>
  /\ UNCHANGED <<slot, bad, streak, cuts, replayed, lost>>

(* replay() starts, with the broker connected. *)
ReplayBegin ==
  /\ op = Idle
  /\ ring.count > 0
  /\ op' = [name |-> "replay", sent |-> 0]
  /\ UNCHANGED <<slot, bad, header, ring, streak, next, cuts, replayed,
                 accepted, lost, missed, disturbed>>

AtMessage == op.name = "replay" /\ op.sent < ring.count /\ op.sent < Batch
Unreadable == Physical(ring, op.sent) \in bad

ReplayPublish ==
  /\ AtMessage
  /\ ~Unreadable
  /\ streak' = 0
  /\ replayed' = Append(replayed, slot[Physical(ring, op.sent)])
  /\ op' = [op EXCEPT !.sent = @ + 1]
  /\ UNCHANGED <<slot, bad, header, ring, next, cuts, accepted, lost, missed, disturbed>>

Finish(r) ==
  /\ ring' = r
  /\ op' = Idle
  /\ \/ HeaderWritten(r) /\ disturbed' = disturbed
     \/ HeaderFails /\ disturbed' = TRUE
  /\ UNCHANGED <<slot, bad, next, cuts, replayed, accepted>>

(* The end of the batch, or a publish that fails. *)
ReplayEnd ==
  /\ op.name = "replay"
  /\ AtMessage => ~Unreadable
  /\ Finish(Drop(ring, op.sent))
  /\ streak' = 0
  /\ lost' = lost

StreakForgottenWrong == 1
LongerStreak == streak + 1

(* A message that cannot be read ends the batch, at the third time it is   *)
(* skipped.                                                                *)
ReplayUnreadable ==
  /\ AtMessage
  /\ Unreadable
  /\ \/ /\ LongerStreak < 3
        /\ streak' = LongerStreak
        /\ lost' = lost
        /\ Finish(Drop(ring, op.sent))
     \/ /\ LongerStreak >= 3
        /\ streak' = 0
        /\ lost' = lost \cup {slot[Physical(ring, op.sent)]}
        /\ Finish(Drop(ring, op.sent + 1))

LoadHeader ==
  /\ ring' = header
  /\ lost' = lost \cup (missed \ Content(header))
  /\ UNCHANGED <<slot, bad, header>>

(* A file whose header cannot be read is removed, and initFile(). *)
Recreate ==
  /\ slot' = Blank /\ bad' \in BadSlots
  /\ ring' = Empty /\ header' = Empty
  /\ lost' = lost \cup missed \cup Content(header)

(* Power failure, and begin().  An event not yet stored is gone: the queue *)
(* it waits in is in RAM.                                                  *)
PowerCut ==
  /\ cuts < MaxCuts
  /\ cuts' = cuts + 1
  /\ LoadHeader \/ Recreate
  /\ missed' = {}
  /\ streak' = 0
  /\ op' = Idle
  /\ next' = IF op.name = "store" /\ next <= MaxStored THEN next + 1 ELSE next
  /\ disturbed' = (disturbed \/ op.name = "store" \/ op.sent > 0)
  /\ UNCHANGED <<replayed, accepted>>

BufferNext ==
  \/ StoreDuplicate
  \/ StoreSlot
  \/ StoreHeader
  \/ ReplayBegin
  \/ ReplayPublish
  \/ ReplayEnd
  \/ ReplayUnreadable
  \/ PowerCut

BufferSpec == BufferInit /\ [][BufferNext]_bufferVars

(* MQTTService::update() replays in every pass of loop() that finds the    *)
(* broker connected, and a broker that is offered messages again and again *)
(* takes one at last.                                                      *)
BufferFairSpec ==
  /\ BufferSpec
  /\ SF_bufferVars(ReplayBegin) /\ SF_bufferVars(ReplayPublish)
  /\ WF_bufferVars(ReplayEnd) /\ WF_bufferVars(ReplayUnreadable) /\ WF_bufferVars(StoreHeader)

-----------------------------------------------------------------------------
Rings == [head : 0..(Capacity - 1), count : 0..Capacity]

BufferTypeOK ==
  /\ slot \in [0..(Capacity - 1) -> 0..MaxStored]
  /\ bad \in BadSlots
  /\ header \in Rings /\ ring \in Rings
  /\ streak \in 0..2
  /\ op \in [name : {"none", "store", "replay"}, sent : 0..Batch]
  /\ next \in 1..(MaxStored + 1) /\ cuts \in 0..MaxCuts
  /\ Range(replayed) \subseteq 0..MaxStored
  /\ accepted \cup lost \cup missed \subseteq 0..MaxStored

(* What store() answered true for is replayed, or in the ring, or was      *)
(* overwritten in a full ring, skipped as unreadable, or lost at a boot    *)
(* that could not read the header.  Nor would a power cut now lose it with *)
(* a readable header, unless updateHeader() failed to write one when it    *)
(* was stored or before, and none was written since.                       *)
AcceptedIsKept ==
  /\ accepted \subseteq Range(replayed) \cup lost \cup Content(ring)
  /\ accepted \ missed \subseteq Range(replayed) \cup lost \cup Content(header)

(* Unless a header write was missed, the broker gets the events in their   *)
(* order and each of them once, across wraps of the ring and refused       *)
(* batches (replay()).                                                     *)
InOrderOnce ==
  ~disturbed => \A i \in 1..(Len(replayed) - 1) : replayed[i] < replayed[i + 1]

(* The buffer empties: no message, read or not, blocks it for ever.        *)
Drains == []<>(ring.count = 0)
=============================================================================
