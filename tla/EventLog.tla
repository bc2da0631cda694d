------------------------------ MODULE EventLog ------------------------------
(***************************************************************************)
(* src/services/EventLog.cpp: a ring of events in RAM, and a larger one in *)
(* a LittleFS file.  A flush copies what is new under the mutex, writes    *)
(* slot after slot without it, then the header, and at last notes how far  *)
(* it got.  loop() flushes once a minute, every other task that reports a  *)
(* security event at once, and the web task clears the log: the mutex      *)
(* guards the ring in RAM only.  The power may fail between any two steps. *)
(*                                                                         *)
(* An event is its number, in the order of addEvent(); 0 is an empty slot. *)
(* A write that fails leaves the file as it was.  When loop() flushes is   *)
(* left open.  An event that addEvent() drops because the mutex was busy   *)
(* changes nothing, nor does a flush that finds no memory for its copy.  A *)
(* file that is there can be read.                                         *)
(***************************************************************************)
EXTENDS Integers, Sequences, Functions

CONSTANTS
  RamCapacity,   \* RAM_CAPACITY: 50
  DiskCapacity,  \* DISK_CAPACITY: 500
  LogTasks,      \* tasks that flush
  MaxEvents,     \* bound: events added
  MaxLogFaults   \* bound: file operations and mutexes that fail, power cuts,
                 \* and calls of clear()

ASSUME LogAssumption ==
  RamCapacity \in Nat \ {0} /\ DiskCapacity \in Nat \ {0}

VARIABLES
  buffer,     \* _buffer, the oldest first
  sequence,   \* _ramSequence and _lastFlushedSeq
  dirty,      \* _dirty
  file,       \* /events.bin, or NoFile
  disk,       \* _diskHead and _diskCount
  available,  \* _fsAvailable
  flusher,    \* of each task: how far its flush is, and its copies
  clearing,   \* clear() is between the two rings
  logFaults,  \* faults so far
  added,      \* history: events added
  since,      \* history: the last one before the boot, clear() or a new file
  saved,      \* history: events whose flush wrote its header, or tried to
  recent,     \* history: the slots used last, since the file was made or read;
              \* negative until a header covers them
  raced       \* history: since the boot, a flush met another or a clear()

ringVars == <<buffer, sequence, dirty>>
logHistories == <<since, saved, recent, raced>>
logVars == <<ringVars, file, disk, available, flusher, clearing, logFaults,
             added, logHistories>>

EmptyRing == [head |-> 0, count |-> 0]
NoFile == [slots |-> <<>>, ring |-> EmptyRing]
NewFile == [slots |-> [i \in 0 .. DiskCapacity - 1 |-> 0], ring |-> EmptyRing]
NoFlush == [at |-> "none", todo |-> <<>>, copies |-> {}, seq |-> 0, wraps |-> FALSE]

LogInit ==
  /\ buffer = <<>>
  /\ sequence = [ram |-> 0, flushed |-> 0]
  /\ dirty = FALSE
  /\ file = NoFile
  /\ disk = EmptyRing
  /\ available = TRUE
  /\ flusher = [t \in LogTasks |-> NoFlush]
  /\ clearing = FALSE
  /\ logFaults = 0 /\ added = 0
  /\ since = 0 /\ saved = {} /\ recent = <<>> /\ raced = FALSE

-----------------------------------------------------------------------------
Newest(s, n) == IF Len(s) <= n THEN s ELSE SubSeq(s, Len(s) - n + 1, Len(s))

(* What a boot finds in the file, the oldest first (readEventFromDisk()).  *)
Listing ==
  LET count == IF file.ring.count > DiskCapacity THEN DiskCapacity
                                                 ELSE file.ring.count
  IN [i \in 1 .. count |-> file.slots[(file.ring.head + i - 1) % DiskCapacity]]

Fault == logFaults < MaxLogFaults /\ logFaults' = logFaults + 1
NoFault == UNCHANGED logFaults

(* Bound: after a race nothing is added before the next boot. *)
addEvent ==
  /\ added < MaxEvents /\ ~raced
  /\ added' = added + 1
  /\ buffer' = Newest(Append(buffer, added'), RamCapacity)
  /\ sequence' = [sequence EXCEPT !.ram = @ + 1]
  /\ dirty' = TRUE
  /\ UNCHANGED <<file, disk, available, flusher, clearing, logFaults, logHistories>>

(* The events since the last flush, as far as the ring still has them; the *)
(* 32-bit difference is huge when a flush outlived a clear().              *)
NewEvents ==
  IF sequence.ram < sequence.flushed THEN buffer
  ELSE Newest(buffer, sequence.ram - sequence.flushed)

FlushBegins(t) ==
  /\ flusher[t] = NoFlush
  /\ dirty /\ available /\ sequence.ram # sequence.flushed
  /\ flusher' = [flusher EXCEPT ![t] =
       [at |-> "slots", todo |-> NewEvents, copies |-> Range(NewEvents),
        seq |-> sequence.ram, wraps |-> FALSE]]
  /\ raced' = (raced \/ clearing \/ \E o \in LogTasks \ {t} : flusher[o] # NoFlush)
  /\ UNCHANGED <<ringVars, file, disk, available, clearing, logFaults, added,
                 since, saved, recent>>

AtSlot(t) == flusher[t].at = "slots" /\ flusher[t].todo # <<>>

(* A file that cannot be opened is made anew, whether it existed or not.   *)
OpenFails(t) ==
  /\ AtSlot(t)
  /\ IF file = NoFile THEN NoFault ELSE Fault
  /\ file' = NewFile /\ disk' = EmptyRing
  /\ since' = IF file = NoFile THEN since ELSE added
  /\ saved' = {} /\ recent' = <<>>
  /\ flusher' = [flusher EXCEPT ![t].copies = Range(flusher[t].todo)]
  /\ UNCHANGED <<ringVars, available, clearing, added, raced>>

(* ... and when that fails too, there is no log on flash until the boot.   *)
NoFileAtAll(t) ==
  /\ AtSlot(t)
  /\ Fault
  /\ available' = FALSE
  /\ flusher' = [flusher EXCEPT ![t] = NoFlush]
  /\ UNCHANGED <<ringVars, file, disk, clearing, added, logHistories>>

Wraps == disk.count >= DiskCapacity
Slot == IF Wraps THEN disk.head ELSE (disk.head + disk.count) % DiskCapacity

WriteSlot(t) ==
  /\ AtSlot(t) /\ file # NoFile
  /\ file' = [file EXCEPT !.slots[Slot] = Head(flusher[t].todo)]
  /\ recent' = Newest(Append(recent, -Head(flusher[t].todo)), DiskCapacity)
  /\ flusher' = [flusher EXCEPT ![t].at = "written", ![t].wraps = Wraps]
  /\ UNCHANGED <<ringVars, disk, available, clearing, logFaults, added,
                 since, saved, raced>>

(* The flush gives up; its next attempt begins from the start.             *)
SlotFails(t) ==
  /\ AtSlot(t) /\ file # NoFile
  /\ Fault
  /\ flusher' = [flusher EXCEPT ![t] = NoFlush]
  /\ UNCHANGED <<ringVars, file, disk, available, clearing, added, logHistories>>

Advance(t) ==
  /\ flusher[t].at = "written"
  /\ disk' = IF flusher[t].wraps THEN [disk EXCEPT !.head = (@ + 1) % DiskCapacity]
                                 ELSE [disk EXCEPT !.count = @ + 1]
  /\ flusher' = [flusher EXCEPT ![t].at = "slots", ![t].todo = Tail(@)]
  /\ UNCHANGED <<ringVars, file, available, clearing, logFaults, added, logHistories>>

Covered(slots) == [i \in DOMAIN slots |-> IF slots[i] < 0 THEN -slots[i] ELSE slots[i]]

(* updateDiskHeader() returns nothing: a header that could not be written  *)
(* passes for one that was.                                                *)
WriteHeader(t) ==
  /\ flusher[t].at = "slots" /\ flusher[t].todo = <<>>
  /\ \/ file # NoFile /\ NoFault
        /\ file' = [file EXCEPT !.ring = disk]
        /\ recent' = Covered(recent)
     \/ (IF file = NoFile THEN NoFault ELSE Fault)
        /\ UNCHANGED <<file, recent>>
  /\ saved' = saved \cup flusher[t].copies
  /\ flusher' = [flusher EXCEPT ![t].at = "mark"]
  /\ UNCHANGED <<ringVars, disk, available, clearing, added, since, raced>>

(* Wrong: what was added during the flush counts as flushed. *)
FlushedAllWrong(f) == sequence.ram

Flushed(f) == f.seq

(* Within 10 ms the mutex is had, or the events are new once more.         *)
Mark(t) ==
  /\ flusher[t].at = "mark"
  /\ \/ /\ sequence' = [sequence EXCEPT !.flushed = Flushed(flusher[t])]
        /\ dirty' = (dirty /\ sequence.ram # Flushed(flusher[t]))
        /\ NoFault
     \/ Fault /\ UNCHANGED <<sequence, dirty>>
  /\ flusher' = [flusher EXCEPT ![t] = NoFlush]
  /\ UNCHANGED <<buffer, file, disk, available, clearing, added, logHistories>>

ClearBuffer ==
  /\ ~clearing
  /\ Fault
  /\ clearing' = TRUE
  /\ buffer' = <<>> /\ dirty' = FALSE
  /\ sequence' = [ram |-> 0, flushed |-> 0]
  /\ since' = added
  /\ raced' = (raced \/ \E t \in LogTasks : flusher[t] # NoFlush)
  /\ UNCHANGED <<file, disk, available, flusher, added, saved, recent>>

ClearFile ==
  /\ clearing
  /\ clearing' = FALSE
  /\ file' = NoFile /\ disk' = EmptyRing
  /\ saved' = {} /\ recent' = <<>>
  /\ UNCHANGED <<ringVars, available, flusher, logFaults, added, since, raced>>

(* begin() after a power failure, or after a restart. *)
LoadFromDisk ==
  /\ Fault
  /\ disk' = [file.ring EXCEPT !.count = Len(Listing)]
  /\ buffer' = Newest(Listing, RamCapacity)
  /\ sequence' = [ram |-> 0, flushed |-> 0]
  /\ dirty' = FALSE
  /\ available' = TRUE
  /\ flusher' = [t \in LogTasks |-> NoFlush]
  /\ clearing' = FALSE
  /\ since' = added /\ saved' = saved \cap Range(Listing)
  /\ recent' = Listing /\ raced' = FALSE
  /\ UNCHANGED <<file, added>>

LogNext ==
  \/ addEvent
  \/ \E t \in LogTasks :
       \/ FlushBegins(t) \/ OpenFails(t) \/ NoFileAtAll(t)
       \/ WriteSlot(t) \/ SlotFails(t) \/ Advance(t)
       \/ WriteHeader(t) \/ Mark(t)
  \/ ClearBuffer \/ ClearFile
  \/ LoadFromDisk

LogSpec == LogInit /\ [][LogNext]_logVars

-----------------------------------------------------------------------------
LogTypeOK ==
  /\ Len(buffer) <= RamCapacity
  /\ sequence.ram \in 0 .. MaxEvents /\ sequence.flushed \in 0 .. MaxEvents
  /\ disk.head \in 0 .. DiskCapacity - 1
  /\ {dirty, available, clearing, raced} \subseteq BOOLEAN
  /\ saved \subseteq 1 .. MaxEvents /\ logFaults \in 0 .. MaxLogFaults

(* As long as flushes keep out of each other's way and of clear()'s: an    *)
(* event whose flush went through is there after a restart until as many   *)
(* newer ones as the file holds were written, unless the header could not  *)
(* be written or the file was made anew; and the next flush takes every    *)
(* event of the ring that none has saved (flushToDisk(), BA-13: not        *)
(* "marked flushed while it was missing").                                 *)
SavedEventsSurvive ==
  ~raced =>
    /\ saved \cap Range(recent) \subseteq Range(Listing)
    /\ \A e \in Range(buffer) :
         e > since /\ e \notin saved =>
           dirty /\ sequence.ram # sequence.flushed /\ e \in Range(NewEvents)
=============================================================================
