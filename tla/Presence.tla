------------------------------ MODULE Presence ------------------------------
(***************************************************************************)
(* From a frame of the radar to what the node says of the room: the        *)
(* presence, the smoothed distance and the learning of reflectors in       *)
(* LD2412Service::update(), and the silence, the covered sensor and the    *)
(* loiterer in SecurityMonitor::processRadarData(), which loop() calls     *)
(* with what getData() returns (main.cpp).                                 *)
(*                                                                         *)
(* The radar's task and loop() keep their own pace: a frame may be looked  *)
(* at several times or never, and each side gives up when the other holds  *)
(* the mutex for too long.  Time is counted in ticks, a time stamp is its  *)
(* age.                                                                    *)
(***************************************************************************)
EXTENDS Integers, Sequences, Functions

CONSTANTS
  RadarFrames, \* what one may say: [moving, static, distance, move, still]
  Near,        \* distances below which somebody is close (200 cm)
  PetLevel,    \* energy below which a pet is taken to be the cause
  Misses,      \* frames without anybody before the presence is held
  Hold,        \* _holdTime
  Samples,     \* DIST_SAMPLES
  MaskTime,    \* _antiMaskThreshold
  LoiterTime,  \* _loiterThreshold
  LearnTime,   \* duration of a learning
  LookGap      \* bound: ticks from one look of loop() to the next

(* Counts and times; each may be zero.                                     *)
ASSUME PresenceAssumption ==
  /\ Misses \in Nat /\ Hold \in Nat /\ MaskTime \in Nat /\ LoiterTime \in Nat
  /\ LearnTime \in Nat /\ LookGap \in Nat

VARIABLES
  driver,    \* _currentState, _consecutiveMisses, age of _holdStartTime
  last,      \* _lastDist, _lastMovEn, _lastStatEn
  recent,    \* _distHistory, the oldest first
  learning,  \* age of _learnStart, and _learnDone
  silence,   \* age of _zeroEnergyStart, and _isBlind
  close,     \* age of _loiterStart, and _isLoitering
  tamper,    \* _tamperExternal
  sinceLook,               \* history: ticks since loop() looked
  sinceSomebody,           \* history: ticks since a frame showed somebody
  without,                 \* history: frames since then
  sinceEnergy,             \* history: ticks since loop() saw energy
  sinceFar                 \* history: ticks since loop() saw nobody close

radarSide == <<driver, last, recent, learning>>
loopSide == <<silence, close>>
histories == <<sinceLook, sinceSomebody, without, sinceEnergy, sinceFar>>
presenceVars == <<radarSide, loopSide, tamper, histories>>

Never == -1
Elder(age, cap) == IF age = Never \/ age = cap THEN age ELSE age + 1

PresenceInit ==
  /\ driver = [state |-> "IDLE", misses |-> 0, held |-> Never]
  /\ last = [distance |-> 0, move |-> 0, still |-> 0]
  /\ recent = <<>>
  /\ learning = [age |-> Never, done |-> FALSE]
  /\ silence = [age |-> Never, blind |-> FALSE]
  /\ close = [age |-> Never, loitering |-> FALSE]
  /\ tamper = FALSE
  /\ sinceLook = 0
  /\ sinceSomebody = Never /\ without = 0 /\ sinceEnergy = 0 /\ sinceFar = 0

-----------------------------------------------------------------------------
(* LD2412Service::update() with a valid frame.                             *)

RawDistance(r) == IF r.moving \/ r.static THEN r.distance ELSE 0

(* Moving and static energy below the threshold, and close: a pet. *)
IsPet(r) ==
  /\ PetLevel > 0 /\ RawDistance(r) < Near
  /\ r.moving => r.move < PetLevel
  /\ r.static => r.still < PetLevel

Detected(r) == (r.moving \/ r.static) /\ ~IsPet(r)

Remembered(r) ==
  IF ~Detected(r) \/ RawDistance(r) = 0 THEN <<>>
  ELSE LET all == Append(recent, RawDistance(r))
       IN IF Len(all) > Samples THEN Tail(all) ELSE all

SmoothedDistance(r) ==
  IF Remembered(r) = <<>> THEN RawDistance(r)
  ELSE SumFunction(Remembered(r)) \div Len(Remembered(r))

(* Wrong: somebody who shows up again does not clear the misses. *)
PresentKeepsMissesWrong ==
  [state |-> "PRESENCE_DETECTED", misses |-> driver.misses, held |-> Never]

Present == [state |-> "PRESENCE_DETECTED", misses |-> 0, held |-> Never]

Missed ==
  IF driver.misses + 1 >= Misses
    THEN [state |-> "HOLD_TIMEOUT", misses |-> Misses, held |-> 0]
    ELSE [driver EXCEPT !.misses = @ + 1]

(* Without anybody a presence is held, after its third miss for a time.    *)
Absent ==
  CASE driver.state = "PRESENCE_DETECTED" -> Missed
    [] driver.state = "HOLD_TIMEOUT" /\ driver.held > Hold ->
         [driver EXCEPT !.state = "IDLE", !.held = Never]
    [] OTHER -> driver

(* A learning ends with the first frame after its time. *)
LearningAfter ==
  IF learning.age > LearnTime THEN [age |-> Never, done |-> TRUE] ELSE learning

update(r) ==
  /\ driver' = IF Detected(r) THEN Present ELSE Absent
  /\ last' = [distance |-> SmoothedDistance(r),
              move |-> r.move, still |-> r.still]
  /\ recent' = Remembered(r)
  /\ learning' = LearningAfter
  /\ sinceSomebody' = IF Detected(r) THEN 0 ELSE sinceSomebody
  /\ without' = IF Detected(r) THEN 0 ELSE Elder(without, Misses)
  /\ UNCHANGED <<loopSide, tamper, sinceLook, sinceEnergy, sinceFar>>

startStaticLearn ==
  /\ learning.age = Never
  /\ learning' = [learning EXCEPT !.age = 0]
  /\ UNCHANGED <<driver, last, recent, loopSide, tamper, histories>>

(* consumeLearnDone() in loop(). *)
ReportLearning ==
  /\ learning.done
  /\ learning' = [learning EXCEPT !.done = FALSE]
  /\ UNCHANGED <<driver, last, recent, loopSide, tamper, histories>>

-----------------------------------------------------------------------------
(* processRadarData(), with the values of the latest frame, however old.   *)

Energetic == \E e \in {last.move, last.still} : e > 0 /\ e >= PetLevel
Close == last.distance > 0 /\ last.distance < Near

SilenceNow ==
  IF Energetic THEN [age |-> Never, blind |-> FALSE]
  ELSE LET age == IF silence.age = Never THEN 0 ELSE silence.age
       IN [age |-> age, blind |-> silence.blind \/ age > MaskTime]

CloseNow ==
  IF ~Close THEN [age |-> Never, loitering |-> FALSE]
  ELSE LET age == IF close.age = Never THEN 0 ELSE close.age
       IN [age |-> age, loitering |-> close.loitering \/ age > LoiterTime]

(* setTamperDetected(), with anti-masking on, waits for the radar's mutex,  *)
(* and may give up.                                                        *)
TamperTold == tamper' \in {tamper, silence'.blind}

processRadarData ==
  /\ silence' = SilenceNow
  /\ close' = CloseNow
  /\ TamperTold
  /\ sinceLook' = 0
  /\ sinceEnergy' = IF Energetic THEN 0 ELSE sinceEnergy
  /\ sinceFar' = IF Close THEN sinceFar ELSE 0
  /\ UNCHANGED <<radarSide, sinceSomebody, without>>

(* The monitor's mutex was not to be had. *)
GiveUpLook ==
  /\ UNCHANGED loopSide
  /\ TamperTold
  /\ UNCHANGED <<radarSide, histories>>

-----------------------------------------------------------------------------
PresenceTick ==
  /\ sinceLook < LookGap
  /\ driver' = [driver EXCEPT !.held = Elder(@, Hold + 1)]
  /\ learning' = [learning EXCEPT !.age = Elder(@, LearnTime + 1)]
  /\ silence' = [silence EXCEPT !.age = Elder(@, MaskTime + 1)]
  /\ close' = [close EXCEPT !.age = Elder(@, LoiterTime + 1)]
  /\ sinceLook' = sinceLook + 1
  /\ sinceSomebody' = Elder(sinceSomebody, Hold + 1)
  /\ sinceEnergy' = Elder(sinceEnergy, MaskTime + 2 * LookGap + 1)
  /\ sinceFar' = Elder(sinceFar, LoiterTime + 2 * LookGap + 1)
  /\ UNCHANGED <<last, recent, tamper, without>>

PresenceNext ==
  \/ \E r \in RadarFrames : update(r)
  \/ startStaticLearn \/ ReportLearning
  \/ processRadarData \/ GiveUpLook
  \/ PresenceTick

PresenceSpec == PresenceInit /\ [][PresenceNext]_presenceVars

-----------------------------------------------------------------------------
PresenceTypeOK ==
  /\ driver.state \in {"IDLE", "PRESENCE_DETECTED", "HOLD_TIMEOUT"}
  /\ driver.misses \in 0 .. Misses /\ driver.held \in Never .. Hold + 1
  /\ (driver.state = "HOLD_TIMEOUT") = (driver.held # Never)
  /\ Len(recent) <= Samples
  /\ learning.age \in Never .. LearnTime + 1
  /\ {tamper, silence.blind, close.loitering, learning.done} \subseteq BOOLEAN

(* Whatever the pace of frames and looks, and whoever gives up on a mutex: *)
(* somebody who was seen is not gone before enough frames and the hold     *)
(* time have passed; a covered sensor and a loiterer are reported when the *)
(* monitor has seen nothing else for their time, never earlier, and at     *)
(* most two looks later (README.md:504-505).                               *)
AbsenceIsEarned ==
  /\ sinceSomebody # Never =>
       /\ driver.state # "PRESENCE_DETECTED" => without = Misses
       /\ driver.state = "IDLE" => sinceSomebody > Hold
  /\ silence.blind => sinceEnergy > MaskTime
  /\ sinceEnergy > MaskTime + 2 * LookGap => silence.blind
  /\ close.loitering => sinceFar > LoiterTime
  /\ sinceFar > LoiterTime + 2 * LookGap => close.loitering
=============================================================================
