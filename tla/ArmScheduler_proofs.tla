------------------------- MODULE ArmScheduler_proofs -------------------------
(***************************************************************************)
(* Proofs about what loop() does by the clock: about ArmScheduler for      *)
(* every calendar, schedule and waiting time that ScheduleAssumption       *)
(* allows, about Supervision for all its durations and limits, and about   *)
(* Vigilance for every spacing of its checks that has a longest gap.       *)
(***************************************************************************)
EXTENDS ArmScheduler, Supervision, Vigilance, TLAPS

(* An act of today has latched the day, and one is decided on only while   *)
(* the day is not latched.                                                 *)
Latched ==
  /\ acts \in [arm : {0, 1}, disarm : {0, 1}]
  /\ acts.arm = 1 => latch.arm = clock.day
  /\ acts.disarm = 1 => latch.disarm = clock.day
  /\ step = "arm" => latch.arm # clock.day
  /\ step = "disarm" => latch.disarm # clock.day

(* Unless a guard came and went unseen, auto-arm has not waited longer     *)
(* than it was quiet, and decides to arm only after the full time.         *)
Waited ==
  /\ guard = "off" /\ ~missed /\ ~was => idle <= quiet
  /\ step = "auto" => ~was
  /\ step = "auto" /\ guard = "off" /\ ~missed => quiet = QuietTime

(* The inductive invariant. *)
Inv == TypeOK /\ Latched /\ Waited

-----------------------------------------------------------------------------
(* What setArmed() may leave is a guard. *)
LEMMA OutcomesType ==
  ASSUME NEW on \in BOOLEAN, guard \in Guards
  PROVE  Outcomes(on) \subseteq Guards
BY DEF Outcomes, Guards

(* setArmed(true) ends no guard. *)
LEMMA ArmOutcomes ==
  ASSUME guard' \in Outcomes(TRUE)
  PROVE  guard' = "off" => guard = "off"
BY DEF Outcomes

(* Capped time goes on, but not further than its cap. *)
LEMMA LaterType ==
  ASSUME NEW s \in 0..QuietTime, NEW t \in 0..QuietTime
  PROVE  Later(s) \in 0..QuietTime /\ (s <= t => Later(s) <= Later(t))
BY ScheduleAssumption DEF Later

(* A clock that has gone on for half a minute. *)
LEMMA ClockType ==
  ASSUME clock \in [day : 0..(Days - 1), half : 0..(2 * Minutes - 1)], HalfMinutePasses
  PROVE  clock' \in [day : 0..(Days - 1), half : 0..(2 * Minutes - 1)]
<1>1. /\ Days \in Nat \ {0} /\ Minutes \in Nat \ {0}
      /\ clock.day \in 0..(Days - 1) /\ clock.half \in 0..(2 * Minutes - 1)
  BY ScheduleAssumption
<1>2. CASE clock.half + 1 < 2 * Minutes
  <2>1. clock' = [clock EXCEPT !.half = @ + 1]
    BY <1>2 DEF HalfMinutePasses
  <2>2. clock.half + 1 \in 0..(2 * Minutes - 1)
    BY <1>1, <1>2
  <2>3. QED
    BY <2>1, <2>2
<1>3. CASE ~(clock.half + 1 < 2 * Minutes)
  <2>1. clock' = [day |-> (clock.day + 1) % Days, half |-> 0]
    BY <1>3 DEF HalfMinutePasses
  <2>2. (clock.day + 1) % Days \in 0..(Days - 1) /\ 0 \in 0..(2 * Minutes - 1)
    BY <1>1
  <2>3. QED
    BY <2>1, <2>2
<1>4. QED
  BY <1>2, <1>3

(* The device comes up. *)
LEMMA InitInv == Init => Inv
<1> SUFFICES ASSUME Init PROVE Inv
  OBVIOUS
<1>1. /\ Unlatched \in [arm : 0..Days, disarm : 0..Days] /\ 0 \in 0..QuietTime
      /\ NoActs \in [arm : {0, 1}, disarm : {0, 1}]
      /\ NoActs.arm = 0 /\ NoActs.disarm = 0
  BY ScheduleAssumption DEF Unlatched, NoActs
<1>2. TypeOK
  BY <1>1 DEF Init, TypeOK, Guards, Steps
<1>3. Latched
  BY <1>1 DEF Init, Latched
<1>4. Waited
  BY <1>1 DEF Init, Waited
<1>5. QED
  BY <1>2, <1>3, <1>4 DEF Inv

-----------------------------------------------------------------------------
(* Every step preserves the types ... *)
LEMMA StepType == TypeOK /\ [Next]_vars => TypeOK'
<1> SUFFICES ASSUME TypeOK, [Next]_vars PROVE TypeOK'
  OBVIOUS
<1> USE DEF TypeOK
<1>a. 0 \in 0..QuietTime /\ guard \in Guards /\ clock.day \in 0..Days
  BY ScheduleAssumption
<1>b. /\ Outcomes(TRUE) \subseteq Guards /\ Outcomes(FALSE) \subseteq Guards
      /\ {"on", "off", "alarm"} \subseteq Guards
  BY <1>a, OutcomesType DEF Guards
<1>1. CASE Schedule
  BY <1>1 DEF Schedule, Steps
<1>2. CASE ScheduledArm
  BY <1>2, <1>a, <1>b DEF ScheduledArm, Steps
<1>3. CASE LookAtDisarm
  BY <1>3 DEF LookAtDisarm, Steps
<1>4. CASE ScheduledDisarm
  <2>1. guard' \in Guards /\ latch' \in [arm : 0..Days, disarm : 0..Days]
    BY <1>4, <1>a, <1>b DEF ScheduledDisarm
  <2>2. quiet' \in 0..QuietTime /\ missed' \in BOOLEAN /\ step' \in Steps
    BY <1>4, <1>a DEF ScheduledDisarm, Steps
  <2>3. QED
    BY <1>4, <2>1, <2>2 DEF ScheduledDisarm
<1>5. CASE LookAtPresence
  <2>1. idle' \in 0..QuietTime /\ quiet' \in 0..QuietTime
    BY <1>5, <1>a DEF LookAtPresence
  <2>2. was' \in BOOLEAN /\ missed' \in BOOLEAN
    BY <1>5 DEF LookAtPresence, IsArmed
  <2>3. step' \in Steps
    BY <1>5 DEF LookAtPresence, Steps
  <2>4. QED
    BY <1>5, <2>1, <2>2, <2>3 DEF LookAtPresence
<1>6. CASE AutoArm
  BY <1>6, <1>a, <1>b DEF AutoArm, Steps
<1>7. CASE UserArm
  BY <1>7, <1>b DEF UserArm
<1>8. CASE Alarm
  BY <1>8, <1>b DEF Alarm
<1>9. CASE GuardEnds
  BY <1>9, <1>a, <1>b DEF GuardEnds
<1>10. CASE HalfMinutePasses
  <2>1. idle' \in 0..QuietTime /\ quiet' \in 0..QuietTime
    BY <1>10, <1>a, LaterType DEF HalfMinutePasses
  <2>2. clock' \in [day : 0..(Days - 1), half : 0..(2 * Minutes - 1)]
    BY <1>10, ClockType
  <2>3. QED
    BY <1>10, <2>1, <2>2 DEF HalfMinutePasses
<1>11. CASE Restart
  <2>1. Unlatched \in [arm : 0..Days, disarm : 0..Days]
    BY ScheduleAssumption DEF Unlatched
  <2>2. QED
    BY <1>11, <1>a, <1>b, <2>1 DEF Restart, Steps
<1>12. CASE UNCHANGED vars
  BY <1>12 DEF vars
<1>13. QED
  BY <1>1, <1>2, <1>3, <1>4, <1>5, <1>6, <1>7, <1>8, <1>9, <1>10, <1>11, <1>12
  DEF Next

(* ... the latches ... *)
LEMMA StepLatched == TypeOK /\ Latched /\ [Next]_vars => Latched'
<1> SUFFICES ASSUME TypeOK, Latched, [Next]_vars PROVE Latched'
  OBVIOUS
<1> USE DEF Latched
<1>1. CASE Schedule
  BY <1>1 DEF Schedule, Due
<1>2. CASE ScheduledArm
  <2>1. acts.arm = 0 /\ acts' = [acts EXCEPT !.arm = @ + 1]
    BY <1>2 DEF ScheduledArm
  <2>2. acts' \in [arm : {0, 1}, disarm : {0, 1}] /\ acts'.disarm = acts.disarm
    BY <2>1
  <2>3. latch'.arm = clock.day /\ latch'.disarm = latch.disarm
    BY <1>2 DEF ScheduledArm, TypeOK
  <2>4. QED
    BY <1>2, <2>2, <2>3 DEF ScheduledArm
<1>3. CASE LookAtDisarm
  BY <1>3 DEF LookAtDisarm, Due
<1>4. CASE ScheduledDisarm
  <2>1. acts.disarm = 0 /\ acts' = [acts EXCEPT !.disarm = @ + 1]
    BY <1>4 DEF ScheduledDisarm
  <2>2. acts' \in [arm : {0, 1}, disarm : {0, 1}] /\ acts'.arm = acts.arm
    BY <2>1
  <2>3. latch'.disarm = clock.day /\ latch'.arm = latch.arm
    BY <1>4 DEF ScheduledDisarm, TypeOK
  <2>4. QED
    BY <1>4, <2>2, <2>3 DEF ScheduledDisarm
<1>5. CASE HalfMinutePasses
  <2>1. NoActs \in [arm : {0, 1}, disarm : {0, 1}] /\ NoActs.arm = 0 /\ NoActs.disarm = 0
    BY DEF NoActs
  <2>2. step' = "schedule" /\ latch' = latch
    BY <1>5 DEF HalfMinutePasses
  <2>3. acts' = IF clock'.day = clock.day THEN acts ELSE NoActs
    BY <1>5 DEF HalfMinutePasses
  <2>4. QED
    BY <2>1, <2>2, <2>3
<1>6. CASE Restart
  BY <1>6 DEF Restart, NoActs
<1>7. CASE LookAtPresence
  BY <1>7 DEF LookAtPresence
<1>8. CASE AutoArm \/ UserArm \/ Alarm \/ GuardEnds
  BY <1>8 DEF AutoArm, UserArm, Alarm, GuardEnds
<1>9. CASE UNCHANGED vars
  BY <1>9 DEF vars
<1>10. QED
  BY <1>1, <1>2, <1>3, <1>4, <1>5, <1>6, <1>7, <1>8, <1>9 DEF Next

(* ... and the wait. *)
LEMMA StepWaited == TypeOK /\ Waited /\ [Next]_vars => Waited'
<1> SUFFICES ASSUME TypeOK, Waited, [Next]_vars PROVE Waited'
  OBVIOUS
<1> USE DEF Waited
<1>a. /\ was \in BOOLEAN /\ missed \in BOOLEAN /\ QuietTime \in Nat
      /\ idle \in 0..QuietTime /\ quiet \in 0..QuietTime
  BY ScheduleAssumption DEF TypeOK
<1>1. CASE Schedule
  BY <1>1 DEF Schedule
<1>2. CASE ScheduledArm
  BY <1>2, ArmOutcomes DEF ScheduledArm
<1>3. CASE LookAtDisarm
  BY <1>3 DEF LookAtDisarm
<1>4. CASE ScheduledDisarm
  <2>1. step' = "auto?" /\ was' = was /\ idle' = idle
    BY <1>4 DEF ScheduledDisarm
  <2>2. CASE Ended
    <3>1. ~missed' => was
      BY <1>4, <2>2 DEF ScheduledDisarm
    <3>2. QED
      BY <2>1, <3>1
  <2>3. CASE ~Ended
    <3>1. quiet' = quiet /\ (~missed' => ~missed) /\ (guard' = "off" => guard = "off")
      BY <1>4, <2>3 DEF ScheduledDisarm, Ended
    <3>2. QED
      BY <2>1, <3>1
  <2>4. QED
    BY <2>2, <2>3
<1>5. CASE LookAtPresence
  <2>1. PICK present \in BOOLEAN :
          /\ idle' = IF WaitRestarts(present) THEN 0 ELSE idle
          /\ quiet' = IF present \/ IsArmed THEN 0 ELSE quiet
          /\ missed' = (missed /\ ~WaitRestarts(present))
    BY <1>5 DEF LookAtPresence
  <2>2. /\ guard' = guard /\ (was' <=> guard # "off")
        /\ step' \in {"schedule", "auto"}
        /\ step' = "auto" => guard = "off" /\ idle' >= QuietTime
    BY <1>5 DEF LookAtPresence, IsArmed
  <2>3. ASSUME guard = "off", ~missed' PROVE idle' <= quiet'
    <3>1. CASE WaitRestarts(present)
      BY <1>a, <2>1, <3>1
    <3>2. CASE ~WaitRestarts(present)
      <4>1. ~was /\ ~missed /\ ~present
        BY <2>1, <2>3, <3>2 DEF WaitRestarts, IsArmed
      <4>2. QED
        BY <1>a, <2>1, <2>3, <3>2, <4>1 DEF IsArmed
    <3>3. QED
      BY <3>1, <3>2
  <2>4. idle' \in 0..QuietTime /\ quiet' \in 0..QuietTime
    BY <1>a, <2>1
  <2>5. QED
    BY <1>a, <2>2, <2>3, <2>4
<1>6. CASE AutoArm
  BY <1>6 DEF AutoArm
<1>7. CASE UserArm \/ Alarm
  BY <1>7 DEF UserArm, Alarm
<1>8. CASE GuardEnds
  <2>1. was' = was /\ (~missed' => was)
    BY <1>8 DEF GuardEnds
  <2>2. step' = step
    BY <1>8 DEF GuardEnds
  <2>3. QED
    BY <2>1, <2>2
<1>9. CASE HalfMinutePasses
  <2>1. guard' = guard /\ was' = was /\ missed' = missed /\ step' = "schedule"
    BY <1>9 DEF HalfMinutePasses
  <2>2. guard = "off" => idle' = Later(idle) /\ quiet' = Later(quiet)
    BY <1>9 DEF HalfMinutePasses, IsArmed
  <2>3. QED
    BY <1>a, <2>1, <2>2, LaterType
<1>10. CASE Restart
  BY <1>10 DEF Restart
<1>11. CASE UNCHANGED vars
  BY <1>11 DEF vars
<1>12. QED
  BY <1>1, <1>2, <1>3, <1>4, <1>5, <1>6, <1>7, <1>8, <1>9, <1>10, <1>11 DEF Next

-----------------------------------------------------------------------------
(* Whatever users and alarms do between the steps of loop(): latches and   *)
(* waiting times stay true.                                                *)
THEOREM Invariance == Spec => []Inv
<1>1. Inv /\ [Next]_vars => Inv'
  BY StepType, StepLatched, StepWaited DEF Inv
<1>2. QED
  BY <1>1, InitInv, PTL DEF Spec

(* Clock, latches and waiting times keep their types. *)
THEOREM TypeCorrect == Spec => []TypeOK
<1>1. Inv => TypeOK
  BY DEF Inv
<1>2. QED
  BY <1>1, Invariance, PTL

(* The schedule acts once a day and direction, from restart to restart. *)
THEOREM ActsOnce == Spec => []OncePerDay
<1>1. Inv => OncePerDay
  BY DEF Inv, Latched, OncePerDay
<1>2. QED
  BY <1>1, Invariance, PTL

(* Auto-arm arms only after a full interval without presence and without a *)
(* guard that it has seen.                                                 *)
THEOREM AutoArmWaits == Spec => AutoArmWaitsIfSeen
<1>1. Inv /\ [Next]_vars => [AutoArm /\ guard' # guard /\ ~missed => quiet >= QuietTime]_vars
  <2> SUFFICES ASSUME Inv, AutoArm, guard' # guard, ~missed PROVE quiet >= QuietTime
    OBVIOUS
  <2>1. guard = "off" /\ step = "auto"
    BY DEF AutoArm, Outcomes
  <2>2. QED
    BY <2>1, ScheduleAssumption DEF Inv, Waited
<1>2. QED
  BY <1>1, Invariance, PTL DEF Spec, AutoArmWaitsIfSeen

-----------------------------------------------------------------------------
(* Supervision: what loop() and connectivityTask() remember.               *)

LoopMemory ==
  [up : 0..MaxUp, age : 0..MaxAge, soft : 0..(SoftTicks + 1), connected : BOOLEAN,
   published : BOOLEAN, restarts : 0..MaxRestarts, degraded : BOOLEAN,
   trying : 0..NotTrying, lastOom : BOOLEAN]

Remembered ==
  /\ node \in LoopMemory
  /\ watch \in [since : 0..NotWatching, sameOutage : BOOLEAN]
  /\ due \subseteq Actors
  /\ linkUp \in BOOLEAN
  /\ downFor \in 0..EthTicks

(* The restarts without a publish are among those counted in RAM and in    *)
(* NVS alike, and the count is reset only after a publish.                 *)
RestartsCounted ==
  /\ stored = node.restarts
  /\ row \in Nat /\ row <= node.restarts
  /\ node.published => row = 0

(* Only a boot that knows of its marker can follow a hidden restart.       *)
OomRemembered ==
  /\ hidden \in 0..1
  /\ hidden = 1 => node.lastOom

(* In the outage it watches the watchdog counts no more than have passed:  *)
(* one more is to come before it has run in this tick.                     *)
WatchIsHonest ==
  ~linkUp /\ watch.sameOutage /\ watch.since # NotWatching =>
    IF "watchdog" \in due THEN LeastOf(watch.since + 1, EthTicks) <= downFor
                          ELSE watch.since <= downFor

SupervisionInv == Remembered /\ RestartsCounted /\ OomRemembered /\ WatchIsHonest

(* Nothing in a pass of loop() but the reset touches the count, and nothing*)
(* but a publish says that it was published.                               *)
SameHistory(n, m) ==
  n.restarts = m.restarts /\ n.published = m.published /\ n.lastOom = m.lastOom

LEMMA BootedType ==
  ASSUME NEW count \in 0..MaxRestarts, NEW marker \in BOOLEAN
  PROVE  /\ Booted(count, marker) \in LoopMemory
         /\ Booted(count, marker).restarts = count
         /\ Booted(count, marker).lastOom = marker
         /\ ~Booted(count, marker).published
BY SupervisionAssumption DEF Booted, LoopMemory, MaxUp, MaxAge, NotTrying

LEMMA ForcedType ==
  ASSUME NEW n \in LoopMemory
  PROVE  /\ Forced(n) \in LoopMemory /\ SameHistory(Forced(n), n)
         /\ Connected(n) \in LoopMemory /\ SameHistory(Connected(n), n)
<1>1. [n EXCEPT !.connected = FALSE] \in LoopMemory
  BY DEF LoopMemory
<1>2. Connected(n) \in LoopMemory
  <2>1. [n EXCEPT !.connected = TRUE] \in LoopMemory
    BY DEF LoopMemory
  <2>2. PICK m \in LoopMemory : m = [n EXCEPT !.connected = TRUE]
    BY <2>1
  <2>3. [m EXCEPT !.age = 0] \in LoopMemory
    BY SupervisionAssumption DEF LoopMemory, MaxAge
  <2>4. Connected(n) = [m EXCEPT !.age = 0]
    BY <2>2 DEF Connected
  <2>5. QED
    BY <2>3, <2>4
<1>3. SameHistory([n EXCEPT !.connected = FALSE], n) /\ SameHistory(Connected(n), n)
  BY DEF SameHistory, Connected, LoopMemory
<1>4. QED
  BY <1>1, <1>2, <1>3 DEF Forced

LEMMA UpdatedType ==
  ASSUME NEW n \in LoopMemory
  PROVE  Updated(n) \in LoopMemory /\ SameHistory(Updated(n), n)
BY ForcedType DEF Updated, LoopMemory, SameHistory

LEMMA SoftlyRecoveredType ==
  ASSUME NEW n \in LoopMemory
  PROVE  SoftlyRecovered(n) \in LoopMemory /\ SameHistory(SoftlyRecovered(n), n)
<1>1. Forced(n) \in LoopMemory /\ SameHistory(Forced(n), n)
  BY ForcedType
<1>2. [Forced(n) EXCEPT !.soft = 0] \in LoopMemory
  BY <1>1, SupervisionAssumption DEF LoopMemory
<1>3. SameHistory([Forced(n) EXCEPT !.soft = 0], n)
  BY <1>1 DEF LoopMemory, SameHistory
<1>4. QED
  BY <1>2, <1>3 DEF SoftlyRecovered, SameHistory

LEMMA SwitchedType ==
  ASSUME NEW n \in LoopMemory
  PROVE  Switched(n) \in LoopMemory /\ SameHistory(Switched(n), n)
<1>1. Forced(n) \in LoopMemory /\ SameHistory(Forced(n), n)
  BY ForcedType
<1>2. [Forced(n) EXCEPT !.trying = 0] \in LoopMemory
  BY <1>1, SupervisionAssumption DEF LoopMemory, NotTrying
<1>3. SameHistory([Forced(n) EXCEPT !.trying = 0], n)
  BY <1>1 DEF LoopMemory, SameHistory
<1>4. [n EXCEPT !.degraded = TRUE] \in LoopMemory
  BY DEF LoopMemory
<1>5. [n EXCEPT !.trying = NotTrying] \in LoopMemory
  BY SupervisionAssumption DEF LoopMemory, NotTrying
<1>6. /\ SameHistory([n EXCEPT !.degraded = TRUE], n)
      /\ SameHistory([n EXCEPT !.trying = NotTrying], n)
  BY DEF LoopMemory, SameHistory
<1>7. QED
  BY <1>2, <1>3, <1>4, <1>5, <1>6 DEF Switched, SameHistory

LEMMA BeforeSwitchType ==
  ASSUME node \in LoopMemory
  PROVE  BeforeSwitch \in LoopMemory /\ SameHistory(BeforeSwitch, node)
BY UpdatedType, SoftlyRecoveredType DEF BeforeSwitch, SameHistory

LEMMA CounterResetType ==
  ASSUME NEW n \in LoopMemory
  PROVE  /\ CounterReset(n) \in LoopMemory
         /\ CounterReset(n).published = n.published /\ CounterReset(n).lastOom = n.lastOom
         /\ CounterReset(n).restarts = IF ShouldResetCounter(n) THEN 0 ELSE n.restarts
         /\ ShouldResetCounter(n) => n.published
<1>1. PICK m : m = [n EXCEPT !.restarts = 0, !.degraded = FALSE]
  OBVIOUS
<1>2. m \in LoopMemory
  <2>1. [n EXCEPT !.restarts = 0] \in LoopMemory
    BY SupervisionAssumption DEF LoopMemory
  <2>2. PICK k \in LoopMemory : k = [n EXCEPT !.restarts = 0]
    BY <2>1
  <2>3. [k EXCEPT !.degraded = FALSE] \in LoopMemory
    BY DEF LoopMemory
  <2>4. m = [k EXCEPT !.degraded = FALSE]
    BY <1>1, <2>2
  <2>5. QED
    BY <2>3, <2>4
<1>3. m.published = n.published /\ m.lastOom = n.lastOom
  BY <1>1 DEF LoopMemory
<1>4. m.restarts = 0
  BY <1>1 DEF LoopMemory
<1>5. CounterReset(n) = IF ShouldResetCounter(n) THEN m ELSE n
  BY <1>1 DEF CounterReset
<1>6. CASE ShouldResetCounter(n)
  BY <1>2, <1>3, <1>4, <1>5, <1>6 DEF ShouldResetCounter
<1>7. CASE ~ShouldResetCounter(n)
  BY <1>5, <1>7
<1>8. QED
  BY <1>6, <1>7

LEMMA PublishedType ==
  ASSUME NEW n \in LoopMemory
  PROVE  /\ Published(n) \in LoopMemory
         /\ Published(n).restarts = n.restarts /\ Published(n).lastOom = n.lastOom
         /\ Published(n).published = (n.published \/ Publishes(n))
<1>1. PICK m : m = [n EXCEPT !.age = 0, !.published = TRUE]
  OBVIOUS
<1>2. m \in LoopMemory
  <2>1. [n EXCEPT !.age = 0] \in LoopMemory
    BY SupervisionAssumption DEF LoopMemory, MaxAge
  <2>2. PICK k \in LoopMemory : k = [n EXCEPT !.age = 0]
    BY <2>1
  <2>3. [k EXCEPT !.published = TRUE] \in LoopMemory
    BY DEF LoopMemory
  <2>4. m = [k EXCEPT !.published = TRUE]
    BY <1>1, <2>2
  <2>5. QED
    BY <2>3, <2>4
<1>3. m.restarts = n.restarts /\ m.lastOom = n.lastOom /\ m.published = TRUE
  BY <1>1 DEF LoopMemory
<1>4. n.published \in BOOLEAN
  BY DEF LoopMemory
<1>5. Published(n) = IF Publishes(n) THEN m ELSE n
  BY <1>1 DEF Published
<1>6. CASE Publishes(n)
  BY <1>2, <1>3, <1>5, <1>6
<1>7. CASE ~Publishes(n)
  BY <1>4, <1>5, <1>7
<1>8. QED
  BY <1>6, <1>7

LEMMA LoopPassStep ==
  ASSUME SupervisionInv, LoopPass
  PROVE  SupervisionInv'
<1>1. PICK n : n = CounterReset(Switched(BeforeSwitch))
  OBVIOUS
<1>2. PICK s : s = Switched(BeforeSwitch)
  OBVIOUS
<1>3. s \in LoopMemory /\ SameHistory(s, node)
  BY <1>2, BeforeSwitchType, SwitchedType DEF SupervisionInv, Remembered, SameHistory
<1>4. /\ n \in LoopMemory
      /\ n.published = node.published /\ n.lastOom = node.lastOom
      /\ n.restarts = IF ShouldResetCounter(s) THEN 0 ELSE node.restarts
      /\ ShouldResetCounter(s) => node.published
  BY <1>1, <1>2, <1>3, CounterResetType DEF SameHistory
<1>5. /\ node' = Published(n)
      /\ stored' = IF ShouldResetCounter(s) THEN 0 ELSE stored
      /\ row' = IF Publishes(n) THEN 0 ELSE row
      /\ due' = due \ {"loop"}
      /\ UNCHANGED <<watch, linkUp, downFor, hidden>>
  BY <1>1, <1>2 DEF LoopPass, outside
<1>6. /\ node' \in LoopMemory
      /\ node'.restarts = n.restarts /\ node'.lastOom = n.lastOom
      /\ node'.published = (n.published \/ Publishes(n))
  BY <1>4, <1>5, PublishedType
<1>7. Remembered'
  BY <1>5, <1>6 DEF SupervisionInv, Remembered
<1>8. RestartsCounted'
  <2>1. stored' = node'.restarts
    BY <1>4, <1>5, <1>6 DEF SupervisionInv, RestartsCounted
  <2>2. row' \in Nat /\ row' <= node'.restarts
    BY <1>4, <1>5, <1>6 DEF SupervisionInv, RestartsCounted, LoopMemory
  <2>3. node'.published => row' = 0
    BY <1>4, <1>5, <1>6 DEF SupervisionInv, RestartsCounted
  <2>4. QED
    BY <2>1, <2>2, <2>3 DEF RestartsCounted
<1>9. OomRemembered'
  BY <1>4, <1>5, <1>6 DEF SupervisionInv, OomRemembered
<1>10. WatchIsHonest'
  BY <1>5 DEF SupervisionInv, WatchIsHonest, LeastOf
<1>11. QED
  BY <1>7, <1>8, <1>9, <1>10 DEF SupervisionInv

(* Whatever restarts the node, it counts on from what NVS holds.           *)
LEMMA RestartStep ==
  ASSUME SupervisionInv, NEW count \in 0..MaxRestarts, NEW marker \in BOOLEAN,
         RestartWith(count, marker), due' = Actors, UNCHANGED <<linkUp, downFor>>
  PROVE  /\ Remembered' /\ WatchIsHonest'
         /\ node'.restarts = count /\ node'.lastOom = marker /\ ~node'.published
<1>1. node' = Booted(count, marker) /\ watch' = Unwatched
  BY DEF RestartWith
<1>2. Unwatched \in [since : 0..NotWatching, sameOutage : BOOLEAN]
  BY SupervisionAssumption DEF Unwatched, Watching, NotWatching
<1>3. Remembered'
  BY <1>1, <1>2, BootedType DEF SupervisionInv, Remembered
<1>4. WatchIsHonest'
  BY <1>1 DEF WatchIsHonest, Unwatched, Watching
<1>5. QED
  BY <1>1, <1>3, <1>4, BootedType

LEMMA LoopRestartStep ==
  ASSUME SupervisionInv, LoopRestart
  PROVE  SupervisionInv'
<1>1. node.restarts \in 0..MaxRestarts /\ node.restarts < MaxRestarts
  <2>1. BeforeSwitch.restarts = node.restarts
    BY BeforeSwitchType DEF SupervisionInv, Remembered, SameHistory
  <2>2. QED
    BY <2>1 DEF LoopRestart, SwitchRestarts, SupervisionInv, Remembered, LoopMemory
<1>2. node.restarts + 1 \in 0..MaxRestarts
  BY <1>1, SupervisionAssumption
<1>3. /\ Remembered' /\ WatchIsHonest'
      /\ node'.restarts = node.restarts + 1 /\ ~node'.published
  BY <1>2, RestartStep DEF LoopRestart
<1>4. RestartsCounted'
  BY <1>1, <1>3 DEF LoopRestart, SupervisionInv, RestartsCounted
<1>5. OomRemembered'
  BY DEF LoopRestart, OomRemembered
<1>6. QED
  BY <1>3, <1>4, <1>5 DEF SupervisionInv

(* The restarts that the switch does not count.                            *)
LEMMA OtherRestartStep ==
  ASSUME SupervisionInv, WatchdogRestart \/ OutOfMemory \/ Crash
  PROVE  SupervisionInv'
<1>1. stored \in 0..MaxRestarts
  BY DEF SupervisionInv, Remembered, RestartsCounted, LoopMemory
<1>2. PICK marker \in BOOLEAN :
        /\ RestartWith(stored, marker) /\ due' = Actors
        /\ UNCHANGED <<stored, linkUp, downFor, row>>
        /\ marker = FALSE => hidden' = 0
        /\ marker => OutOfMemory
  <2>1. CASE WatchdogRestart \/ Crash
    BY <2>1 DEF WatchdogRestart, Crash
  <2>2. CASE OutOfMemory
    BY <2>2 DEF OutOfMemory
  <2>3. QED
    BY <2>1, <2>2
<1>3. /\ Remembered' /\ WatchIsHonest'
      /\ node'.restarts = stored /\ node'.lastOom = marker /\ ~node'.published
  BY <1>1, <1>2, RestartStep
<1>4. RestartsCounted'
  BY <1>2, <1>3 DEF SupervisionInv, RestartsCounted
<1>5. OomRemembered'
  <2>1. CASE ~marker
    BY <2>1, <1>2 DEF OomRemembered
  <2>2. CASE marker
    <3>1. OomRestarts /\ node.up < OomTicks => hidden = 0
      BY DEF SupervisionInv, OomRemembered, OomRestarts
    <3>2. hidden' \in 0..1
      BY <3>1, <2>2, <1>2 DEF OutOfMemory, LeastOf
    <3>3. QED
      BY <3>2, <2>2, <1>3 DEF OomRemembered
  <2>3. QED
    BY <2>1, <2>2
<1>6. QED
  BY <1>3, <1>4, <1>5 DEF SupervisionInv

LEMMA NextWatchType ==
  ASSUME SupervisionInv
  PROVE  /\ NextWatch \in [since : 0..NotWatching, sameOutage : BOOLEAN]
         /\ ~linkUp /\ "watchdog" \in due => NextWatch.since <= downFor
<1>1. NextWatch \in [since : 0..NotWatching, sameOutage : BOOLEAN]
  BY SupervisionAssumption
     DEF SupervisionInv, Remembered, NextWatch, Watching, LeastOf, NotWatching
<1>2. ASSUME ~linkUp, "watchdog" \in due PROVE NextWatch.since <= downFor
  <2>1. CASE watch.since = NotWatching \/ ~watch.sameOutage
    BY <2>1 DEF SupervisionInv, Remembered, NextWatch, Watching
  <2>2. CASE ~(watch.since = NotWatching \/ ~watch.sameOutage)
    <3>1. NextWatch.since = LeastOf(watch.since + 1, EthTicks)
      BY <2>2 DEF SupervisionInv, Remembered, NextWatch
    <3>2. QED
      BY <1>2, <2>2, <3>1 DEF SupervisionInv, WatchIsHonest
  <2>3. QED
    BY <2>1, <2>2
<1>3. QED
  BY <1>1, <1>2

LEMMA WatchdogPassStep ==
  ASSUME SupervisionInv, WatchdogPass
  PROVE  SupervisionInv'
<1>1. /\ watch' = IF otaRuns THEN watch ELSE IF linkUp THEN Unwatched ELSE NextWatch
      /\ due' = due \ {"watchdog"} /\ "watchdog" \in due
      /\ UNCHANGED <<node, stored, linkUp, downFor, row, hidden>>
  BY DEF WatchdogPass, outside, persistent
<1>2. Unwatched \in [since : 0..NotWatching, sameOutage : BOOLEAN]
  BY SupervisionAssumption DEF Unwatched, Watching, NotWatching
<1>3. Remembered'
  BY <1>1, <1>2, NextWatchType DEF SupervisionInv, Remembered
<1>4. WatchIsHonest'
  <2> SUFFICES ASSUME ~linkUp', watch'.sameOutage, watch'.since # NotWatching
               PROVE  watch'.since <= downFor'
    BY <1>1 DEF WatchIsHonest
  <2>1. CASE otaRuns
    <3>1. LeastOf(watch.since + 1, EthTicks) <= downFor
      BY <2>1, <1>1 DEF SupervisionInv, WatchIsHonest
    <3>2. watch.since \in 0..EthTicks
      BY <2>1, <1>1, SupervisionAssumption DEF SupervisionInv, Remembered, NotWatching
    <3>3. QED
      BY <2>1, <3>1, <3>2, <1>1, SupervisionAssumption
         DEF SupervisionInv, Remembered, LeastOf
  <2>2. CASE ~otaRuns
    BY <2>2, <1>1, NextWatchType
  <2>3. QED
    BY <2>1, <2>2
<1>5. QED
  BY <1>1, <1>3, <1>4 DEF SupervisionInv, RestartsCounted, OomRemembered

LEMMA PassTickStep ==
  ASSUME SupervisionInv, PassTick
  PROVE  SupervisionInv'
<1>1. /\ node' = [node EXCEPT !.up = LeastOf(@ + 1, MaxUp), !.age = LeastOf(@ + 1, MaxAge),
                              !.soft = LeastOf(@ + 1, SoftTicks + 1),
                              !.trying = IF @ = NotTrying THEN @ ELSE LeastOf(@ + 1, RetryTicks + 1)]
      /\ due = {} /\ due' = Actors
      /\ downFor' = IF linkUp THEN 0 ELSE LeastOf(downFor + 1, EthTicks)
      /\ UNCHANGED <<watch, stored, linkUp, row, hidden>>
  BY DEF PassTick, outside, persistent
<1>2. node' \in LoopMemory /\ SameHistory(node', node)
  <2>1. node \in LoopMemory
    BY DEF SupervisionInv, Remembered
  <2>2. \A t \in Nat, cap \in Nat : LeastOf(t + 1, cap) \in 0..cap
    BY DEF LeastOf
  <2>3. /\ LeastOf(node.up + 1, MaxUp) \in 0..MaxUp
        /\ LeastOf(node.age + 1, MaxAge) \in 0..MaxAge
        /\ LeastOf(node.soft + 1, SoftTicks + 1) \in 0..(SoftTicks + 1)
        /\ LeastOf(node.trying + 1, RetryTicks + 1) \in 0..NotTrying
    BY <2>1, <2>2, SupervisionAssumption DEF LoopMemory, MaxUp, MaxAge, NotTrying, LeastOf
  <2>4. PICK up \in 0..MaxUp, age \in 0..MaxAge, soft \in 0..(SoftTicks + 1),
             trying \in 0..NotTrying :
          node' = [node EXCEPT !.up = up, !.age = age, !.soft = soft, !.trying = trying]
    BY <2>1, <2>3, <1>1 DEF LoopMemory
  <2>5. node' \in LoopMemory
    BY <2>1, <2>4 DEF LoopMemory
  <2>6. SameHistory(node', node)
    BY <2>1, <2>4 DEF LoopMemory, SameHistory
  <2>7. QED
    BY <2>5, <2>6
<1>3. downFor' \in 0..EthTicks
  BY <1>1, SupervisionAssumption DEF SupervisionInv, Remembered, LeastOf
<1>4. Remembered'
  BY <1>1, <1>2, <1>3 DEF SupervisionInv, Remembered
<1>5. WatchIsHonest'
  <2> SUFFICES ASSUME ~linkUp, watch.sameOutage, watch.since # NotWatching
               PROVE  LeastOf(watch.since + 1, EthTicks) <= downFor'
    BY <1>1 DEF WatchIsHonest, Actors
  <2>1. watch.since <= downFor
    BY <1>1 DEF SupervisionInv, WatchIsHonest
  <2>2. watch.since \in Nat /\ downFor \in Nat /\ downFor' = LeastOf(downFor + 1, EthTicks)
    BY <1>1, SupervisionAssumption DEF SupervisionInv, Remembered, NotWatching
  <2>3. QED
    BY <2>1, <2>2, SupervisionAssumption DEF LeastOf
<1>6. QED
  BY <1>1, <1>2, <1>4, <1>5
     DEF SupervisionInv, RestartsCounted, OomRemembered, SameHistory

LEMMA TurnsStep ==
  ASSUME SupervisionInv, Turns
  PROVE  SupervisionInv'
<1>1. CASE LinkFails
  <2>1. /\ watch' \in [since : 0..NotWatching, sameOutage : BOOLEAN]
        /\ watch'.sameOutage = FALSE
    BY <1>1 DEF SupervisionInv, Remembered, LinkFails
  <2>2. UNCHANGED <<node, due, stored, row, hidden>> /\ linkUp' = FALSE /\ downFor' = 0
    BY <1>1 DEF LinkFails, persistent
  <2>3. Remembered'
    <3>1. node' \in LoopMemory
      BY <2>2 DEF SupervisionInv, Remembered, LoopMemory, MaxUp, MaxAge, NotTrying
    <3>2. due' \subseteq Actors
      BY <2>2 DEF SupervisionInv, Remembered, Actors
    <3>3. downFor' \in 0..EthTicks
      BY <2>2, SupervisionAssumption
    <3>4. linkUp' \in BOOLEAN
      BY <2>2
    <3>5. QED
      BY <2>1, <3>1, <3>2, <3>3, <3>4 DEF Remembered, NotWatching
  <2>4. WatchIsHonest'
    BY <2>1 DEF WatchIsHonest
  <2>5. QED
    BY <2>2, <2>3, <2>4 DEF SupervisionInv, RestartsCounted, OomRemembered
<1>2. CASE LinkReturns
  BY <1>2, SupervisionAssumption
     DEF SupervisionInv, Remembered, RestartsCounted, OomRemembered, WatchIsHonest,
         LinkReturns, persistent
<1>3. CASE BrokerTurns \/ OtaTurns \/ InhibitTurns
  <2>1. UNCHANGED <<node, watch, due, stored, linkUp, row, downFor, hidden>>
    BY <1>3 DEF BrokerTurns, OtaTurns, InhibitTurns, persistent
  <2>2. QED
    BY <2>1 DEF SupervisionInv, Remembered, RestartsCounted, OomRemembered, WatchIsHonest
<1>4. QED
  BY <1>1, <1>2, <1>3 DEF Turns

LEMMA SupervisionStep == SupervisionInv /\ [SupervisionNext]_supervisionVars => SupervisionInv'
<1> SUFFICES ASSUME SupervisionInv, [SupervisionNext]_supervisionVars
             PROVE  SupervisionInv'
  OBVIOUS
<1>1. CASE UNCHANGED supervisionVars
  BY <1>1 DEF SupervisionInv, Remembered, RestartsCounted, OomRemembered, WatchIsHonest,
              supervisionVars, persistent, outside
<1>2. QED
  BY <1>1, LoopPassStep, LoopRestartStep, OtherRestartStep, WatchdogPassStep,
     PassTickStep, TurnsStep DEF SupervisionNext, Ticking, Accidents

LEMMA SupervisionInitInv == SupervisionInit => SupervisionInv
<1> SUFFICES ASSUME SupervisionInit PROVE SupervisionInv
  OBVIOUS
<1>1. node \in LoopMemory /\ node.restarts = 0 /\ ~node.published
  <2>1. 0 \in 0..MaxRestarts /\ FALSE \in BOOLEAN /\ node = Booted(0, FALSE)
    BY SupervisionAssumption DEF SupervisionInit
  <2>2. QED
    BY <2>1, BootedType
<1>2. watch \in [since : 0..NotWatching, sameOutage : BOOLEAN]
  BY SupervisionAssumption DEF SupervisionInit, Unwatched, Watching, NotWatching
<1>3. Remembered
  <2>1. downFor \in 0..EthTicks /\ due \subseteq Actors
    BY SupervisionAssumption DEF SupervisionInit
  <2>2. linkUp \in BOOLEAN
    BY DEF SupervisionInit
  <2>3. QED
    BY <2>1, <2>2, <1>1, <1>2 DEF Remembered
<1>4. RestartsCounted
  <2>1. row = 0 /\ stored = 0
    BY DEF SupervisionInit
  <2>2. row <= node.restarts
    BY <2>1, <1>1
  <2>3. QED
    BY <2>1, <2>2, <1>1 DEF RestartsCounted
<1>5. OomRemembered /\ WatchIsHonest
  BY DEF SupervisionInit, OomRemembered, WatchIsHonest
<1>6. QED
  BY <1>3, <1>4, <1>5 DEF SupervisionInv

LEMMA Supervised == SupervisionSpec => []SupervisionInv
BY SupervisionInitInv, SupervisionStep, PTL DEF SupervisionSpec

(* However the broker comes and goes, and whatever crashes in between, the *)
(* dead man's switch restarts the node no more than DMS_MAX_RESTARTS times *)
(* without a single publish.                                               *)
THEOREM SwitchGivesUp == SupervisionSpec => []RestartsAreBounded
<1>1. SupervisionInv => RestartsAreBounded
  BY SupervisionAssumption
     DEF SupervisionInv, Remembered, RestartsCounted, LoopMemory, RestartsAreBounded
<1>2. QED
  BY <1>1, Supervised, PTL

(* Two deaths for want of memory within a minute of their boots never both *)
(* look like clean restarts.                                               *)
THEOREM OomLoopsShow == SupervisionSpec => []OomLoopSurfaces
<1>1. SupervisionInv => OomLoopSurfaces
  BY DEF SupervisionInv, OomRemembered, OomLoopSurfaces
<1>2. QED
  BY <1>1, Supervised, PTL

(* The watchdog restarts the node only for a link that was down all the    *)
(* time it counted: the safety half of DeadLinksReboot.                    *)
THEOREM WatchdogIsPatient == SupervisionSpec => RestartsForADeadLink
<1>1. SupervisionInv /\ [SupervisionNext]_supervisionVars
        => [WatchdogRestart => downFor = EthTicks]_supervisionVars
  <2> SUFFICES ASSUME SupervisionInv, WatchdogRestart PROVE downFor = EthTicks
    OBVIOUS
  <2>1. NextWatch.since = EthTicks /\ ~linkUp /\ "watchdog" \in due
    BY DEF WatchdogRestart, LinkExpired
  <2>2. QED
    BY <2>1, NextWatchType, SupervisionAssumption DEF SupervisionInv, Remembered
<1>2. QED
  BY <1>1, Supervised, PTL DEF SupervisionSpec, RestartsForADeadLink

-----------------------------------------------------------------------------
(* Vigilance: what lasts is noticed.                                       *)

LEMMA MaxGapIs == MaxGap \in Gaps /\ MaxGap \in Nat \ {0} /\ \A h \in Gaps : h <= MaxGap
BY VigilanceAssumption DEF MaxGap

LEMMA CappedIs ==
  ASSUME NEW n \in Nat, NEW cap \in Nat
  PROVE  Capped(n, cap) \in 0 .. cap /\ Capped(n, cap) <= n
         /\ (Capped(n, cap) = n \/ Capped(n, cap) = cap)
BY DEF Capped

(* Blind for so long is a silence that is counted for all but the first    *)
(* two checks, and a sensor that senses for so long has warmed up.         *)
SensorTyped ==
  /\ csi.low \in {None} \cup 0 .. NoPacketGrace
  /\ csi.since \in {None} \cup 0 .. StartupGrace
  /\ dark.sensing \in 0 .. SenseLong /\ dark.blind \in 0 .. DarkLong

SilenceIsCounted ==
  /\ csi.since = None => dark.sensing = 0
  /\ csi.since # None =>
       csi.since = StartupGrace \/ dark.sensing <= csi.since + MaxGap
  /\ ~csi.counted => csi.low = None /\ dark.blind = 0
  /\ csi.low = None => dark.blind <= MaxGap
  /\ csi.low # None =>
       csi.low = NoPacketGrace \/ dark.blind <= csi.low + 2 * MaxGap
  /\ NoPackets(csi) => blinded

(* A sensor that has been alone for all of the window has filled it; one   *)
(* that was alone for all of the window before, too, is flagged.           *)
OneEyed(sensor, flags, lone, active, both, window) ==
  /\ window = None => lone = 0 /\ active = 0 /\ both = 0
  /\ window # None =>
       /\ lone >= window => active = window /\ both = 0
       /\ lone >= window + Window + MaxGap => sensor \in flags

ModalTyped ==
  /\ modal \in [window : {None} \cup 0 .. Window - 1, radar : Nat, radarBoth : Nat,
                csi : Nat, csiBoth : Nat, flags : SUBSET {"radar", "csi"}]
  /\ alone.radar \in 0 .. AloneLong /\ alone.csi \in 0 .. AloneLong

LonelinessShows ==
  /\ OneEyed("radar", modal.flags, alone.radar, modal.radar, modal.radarBoth, modal.window)
  /\ OneEyed("csi", modal.flags, alone.csi, modal.csi, modal.csiBoth, modal.window)

(* The table knows how long a peer is silent, as far as it matters.        *)
SilentIsGone ==
  /\ gone \in [Nodes -> 0 .. GoneLong]
  /\ Known \subseteq Nodes
  /\ \A n \in Known :
       /\ peers[n].silent = Capped(gone[n], PeerTimeout + 1)
       /\ peers[n].alerted <=> peers[n].silent > PeerTimeout

VigilanceInv ==
  /\ SensorTyped /\ SilenceIsCounted
  /\ ModalTyped /\ LonelinessShows
  /\ SilentIsGone

LEMMA BoundsAreNat ==
  /\ DarkLong \in Nat /\ SenseLong \in Nat /\ AloneLong \in Nat /\ GoneLong \in Nat
  /\ DarkLong = 2 * MaxGap + NoPacketGrace
  /\ SenseLong = StartupGrace + MaxGap
  /\ AloneLong = 2 * (Window + MaxGap)
  /\ GoneLong = PeerTimeout + MaxGap + 1
BY MaxGapIs, VigilanceAssumption DEF DarkLong, SenseLong, AloneLong, GoneLong

LEMMA FreshSensor ==
  ASSUME csi = NewSensor, dark = NoDark
  PROVE  SensorTyped /\ SilenceIsCounted
<1>1. /\ csi.low = None /\ csi.since = None /\ csi.counted = FALSE
      /\ dark.sensing = 0 /\ dark.blind = 0
  BY DEF NewSensor, NoDark
<1>2. SensorTyped
  BY <1>1, BoundsAreNat DEF SensorTyped
<1>3. ~NoPackets(csi)
  BY <1>1, VigilanceAssumption DEF NoPackets, None
<1>4. QED
  BY <1>1, <1>2, <1>3, MaxGapIs DEF SilenceIsCounted

LEMMA FreshModal ==
  ASSUME modal = NewModal, alone = NotAlone
  PROVE  ModalTyped /\ LonelinessShows
<1>1. /\ modal.window = None /\ modal.radar = 0 /\ modal.radarBoth = 0
      /\ modal.csi = 0 /\ modal.csiBoth = 0 /\ alone.radar = 0 /\ alone.csi = 0
  BY DEF NewModal, NotAlone
<1>2. ModalTyped
  BY <1>1, BoundsAreNat DEF ModalTyped, NewModal
<1>3. QED
  BY <1>1, <1>2 DEF LonelinessShows, OneEyed

LEMMA SensorStep ==
  ASSUME SensorTyped, SilenceIsCounted,
         NEW gap \in Gaps, NEW packets \in {"none", "few", "enough"},
         NEW eth \in BOOLEAN, NEW changed \in BOOLEAN,
         csi' = SensorAfter(gap, eth, packets, changed),
         blinded' = (NoPackets(csi') \/ Frozen(csi', changed)),
         dark' = DarkAfter(gap, eth, packets)
  PROVE  SensorTyped' /\ SilenceIsCounted'
<1>1. gap \in Nat \ {0} /\ gap <= MaxGap /\ MaxGap \in Nat
  BY MaxGapIs, VigilanceAssumption
<1>2. /\ csi'.low = LowSince(gap, eth, packets)
      /\ csi'.since = IF csi.since = None THEN 0 ELSE Older(csi.since, gap, StartupGrace)
      /\ csi'.counted = TRUE
  BY DEF SensorAfter
<1>3. /\ dark'.sensing = Capped(dark.sensing + gap, SenseLong)
      /\ dark'.blind = IF eth /\ packets # "enough" THEN Capped(dark.blind + gap, DarkLong) ELSE 0
  BY DEF DarkAfter
<1>4. /\ csi'.since \in 0 .. StartupGrace
      /\ csi'.since = StartupGrace \/ dark'.sensing <= csi'.since + MaxGap
      /\ dark'.sensing \in 0 .. SenseLong
  BY <1>1, <1>2, <1>3, BoundsAreNat, VigilanceAssumption
     DEF SensorTyped, SilenceIsCounted, Older, Capped, None
<1>5. dark'.blind \in 0 .. DarkLong
  BY <1>1, <1>3, BoundsAreNat DEF SensorTyped, Capped
<1>9. /\ csi'.low \in {None} \cup 0 .. NoPacketGrace
      /\ csi'.low = None => dark'.blind <= MaxGap
      /\ csi'.low # None => csi'.low = NoPacketGrace \/ dark'.blind <= csi'.low + 2 * MaxGap
  <2>1. CASE ~csi.counted
    <3>1. csi'.low = None /\ dark'.blind <= MaxGap
      BY <1>1, <1>2, <1>3, <2>1, BoundsAreNat
         DEF SensorTyped, SilenceIsCounted, LowSince, Capped
    <3>2. QED
      BY <3>1
  <2>2. CASE csi.counted /\ ~(eth /\ packets # "enough")
    <3>1. csi'.low = None /\ dark'.blind = 0
      BY <1>2, <1>3, <2>2 DEF LowSince
    <3>2. QED
      BY <3>1, <1>1
  <2>3. CASE csi.counted /\ eth /\ packets # "enough"
    <3>1. /\ csi'.low = IF csi.low = None THEN 0 ELSE Older(csi.low, gap, NoPacketGrace)
          /\ dark'.blind = Capped(dark.blind + gap, DarkLong)
      BY <1>2, <1>3, <2>3 DEF LowSince
    <3>2. /\ csi'.low \in 0 .. NoPacketGrace
          /\ csi'.low = NoPacketGrace \/ dark'.blind <= csi'.low + 2 * MaxGap
      BY <3>1, <1>1, BoundsAreNat, VigilanceAssumption
         DEF SensorTyped, SilenceIsCounted, Older, Capped, None
    <3>3. QED
      BY <3>2, VigilanceAssumption DEF None
  <2>4. QED
    BY <2>1, <2>2, <2>3
<1>10. NoPackets(csi') => blinded'
  OBVIOUS
<1>11. csi'.since # None
  BY <1>4, VigilanceAssumption DEF None
<1>12. SensorTyped'
  BY <1>4, <1>5, <1>9 DEF SensorTyped
<1>13. QED
  BY <1>2, <1>4, <1>9, <1>10, <1>11, <1>12 DEF SilenceIsCounted

(* One sensor of the cross-modal check, from one check to the next.        *)
OneEyedMoves(gap, lone, active, both, window, lone2, active2, both2, window2) ==
  /\ window = None => window2 = 0 /\ active2 = active /\ both2 = both
  /\ window # None => window2 = window + gap /\ active2 \in Nat /\ both2 \in Nat
  /\ \/ lone2 = 0
     \/ /\ lone2 = Capped(lone + gap, AloneLong)
        /\ window # None => active2 = active + gap /\ both2 = both

OneEyedAfter(sensor, flags, lone2, active2, both2, window2) ==
  /\ lone2 \in 0 .. AloneLong /\ active2 \in Nat /\ both2 \in Nat /\ window2 \in Nat
  /\ window2 < Window => OneEyed(sensor, flags, lone2, active2, both2, window2)
  /\ window2 >= Window /\ lone2 >= Window + MaxGap =>
       active2 >= MinActive /\ 5 * both2 < active2

LEMMA OneEyedStep ==
  ASSUME NEW sensor, NEW flags, NEW gap \in Gaps,
         NEW lone \in 0 .. AloneLong, NEW active \in Nat, NEW both \in Nat,
         NEW window \in {None} \cup 0 .. Window - 1,
         NEW lone2, NEW active2, NEW both2, NEW window2,
         OneEyed(sensor, flags, lone, active, both, window),
         OneEyedMoves(gap, lone, active, both, window, lone2, active2, both2, window2)
  PROVE  OneEyedAfter(sensor, flags, lone2, active2, both2, window2)
<1>1. gap \in Nat \ {0} /\ gap <= MaxGap /\ MaxGap \in Nat \ {0}
  BY MaxGapIs, VigilanceAssumption
<1>2. Window \in Nat \ {0} /\ MinActive \in 0 .. Window /\ None = -1
  BY VigilanceAssumption DEF None
<1>3. lone2 \in 0 .. AloneLong /\ active2 \in Nat /\ both2 \in Nat /\ window2 \in Nat
  BY <1>1, <1>2, BoundsAreNat DEF Capped, OneEyedMoves
<1>4. CASE window = None
  <2>1. /\ lone = 0 /\ active = 0 /\ both = 0 /\ window2 = 0 /\ active2 = 0 /\ both2 = 0
        /\ lone2 <= MaxGap
    BY <1>4, <1>1, BoundsAreNat DEF OneEyed, OneEyedMoves, Capped
  <2>2. QED
    BY <2>1, <1>1, <1>2, <1>3, BoundsAreNat DEF OneEyed, OneEyedAfter
<1>5. CASE window # None
  <2>1. window \in 0 .. Window - 1 /\ window2 = window + gap
    BY <1>5 DEF OneEyedMoves
  <2>2. /\ lone >= window => active = window /\ both = 0
        /\ lone >= window + Window + MaxGap => sensor \in flags
    BY <1>5 DEF OneEyed
  <2>3. CASE lone2 = 0
    BY <2>3, <2>1, <1>1, <1>2, <1>3 DEF OneEyed, OneEyedAfter
  <2>4. CASE /\ lone2 = Capped(lone + gap, AloneLong)
             /\ active2 = active + gap /\ both2 = both
    <3>2. lone2 >= window2 => lone >= window
      BY <2>4, <2>1, <1>1, <1>2, BoundsAreNat DEF Capped
    <3>3. lone2 >= window2 => active2 = window2 /\ both2 = 0
      BY <2>4, <3>2, <2>1, <2>2
    <3>4. lone2 >= window2 + Window + MaxGap => lone >= window + Window + MaxGap \/ window2 >= Window
      BY <2>4, <2>1, <1>1, <1>2, BoundsAreNat DEF Capped
    <3>5. window2 < Window => OneEyed(sensor, flags, lone2, active2, both2, window2)
      BY <3>3, <3>4, <2>2, <1>2, <1>3 DEF OneEyed
    <3>6. window2 >= Window /\ lone2 >= Window + MaxGap => lone2 >= window2
      BY <2>1, <1>1, <1>2, <1>3, BoundsAreNat
    <3>7. window2 >= Window /\ lone2 >= Window + MaxGap =>
            active2 >= MinActive /\ 5 * both2 < active2
      BY <3>3, <3>6, <1>2, <1>3
    <3>9. QED
      BY <1>3, <3>5, <3>7 DEF OneEyedAfter
  <2>5. QED
    BY <2>3, <2>4, <1>5 DEF OneEyedMoves
<1>6. QED
  BY <1>4, <1>5

(* At the end of a window the counters begin anew. *)
LEMMA OneEyedAnew ==
  ASSUME NEW sensor, NEW flags, NEW lone \in 0 .. AloneLong,
         lone >= Window + MaxGap => sensor \in flags
  PROVE  OneEyed(sensor, flags, lone, 0, 0, 0)
BY VigilanceAssumption, MaxGapIs DEF OneEyed, None

LEMMA ModalStep ==
  ASSUME ModalTyped, LonelinessShows,
         NEW gap \in Gaps, NEW radarSees \in BOOLEAN, NEW csiSees \in BOOLEAN,
         modal' = Evaluated(Shown(modal, gap, radarSees, csiSees)),
         alone' = AloneAfter(gap, radarSees, csiSees)
  PROVE  ModalTyped' /\ LonelinessShows'
<1> DEFINE Modals == [window : {None} \cup 0 .. Window - 1, radar : Nat, radarBoth : Nat,
                      csi : Nat, csiBoth : Nat, flags : SUBSET {"radar", "csi"}]
<1>1. PICK m : m = Shown(modal, gap, radarSees, csiSees)
  OBVIOUS
<1>2. /\ m.window = IF modal.window = None THEN 0 ELSE modal.window + gap
      /\ m.radar = IF radarSees /\ modal.window # None THEN modal.radar + gap ELSE modal.radar
      /\ m.csi = IF csiSees /\ modal.window # None THEN modal.csi + gap ELSE modal.csi
      /\ m.radarBoth = IF radarSees /\ csiSees /\ modal.window # None
                         THEN modal.radarBoth + gap ELSE modal.radarBoth
      /\ m.csiBoth = IF radarSees /\ csiSees /\ modal.window # None
                       THEN modal.csiBoth + gap ELSE modal.csiBoth
      /\ m.flags = modal.flags
  BY <1>1 DEF Shown, ModalTyped
<1>3. /\ alone'.radar = IF radarSees /\ ~csiSees THEN Capped(alone.radar + gap, AloneLong) ELSE 0
      /\ alone'.csi = IF csiSees /\ ~radarSees THEN Capped(alone.csi + gap, AloneLong) ELSE 0
  BY DEF AloneAfter
<1>4. /\ modal.window \in {None} \cup 0 .. Window - 1
      /\ modal.radar \in Nat /\ modal.radarBoth \in Nat
      /\ modal.csi \in Nat /\ modal.csiBoth \in Nat
      /\ alone.radar \in 0 .. AloneLong /\ alone.csi \in 0 .. AloneLong
  BY DEF ModalTyped
<1>5. gap \in Nat
  BY VigilanceAssumption
<1>6. OneEyedMoves(gap, alone.radar, modal.radar, modal.radarBoth, modal.window,
                   alone'.radar, m.radar, m.radarBoth, m.window)
  BY <1>2, <1>3, <1>4, <1>5 DEF OneEyedMoves
<1>7. OneEyedMoves(gap, alone.csi, modal.csi, modal.csiBoth, modal.window,
                   alone'.csi, m.csi, m.csiBoth, m.window)
  BY <1>2, <1>3, <1>4, <1>5 DEF OneEyedMoves
<1>8. /\ alone'.radar \in 0 .. AloneLong /\ m.radar \in Nat /\ m.radarBoth \in Nat /\ m.window \in Nat
      /\ m.window < Window =>
           OneEyed("radar", modal.flags, alone'.radar, m.radar, m.radarBoth, m.window)
      /\ m.window >= Window /\ alone'.radar >= Window + MaxGap =>
           m.radar >= MinActive /\ 5 * m.radarBoth < m.radar
  <2>1. OneEyed("radar", modal.flags, alone.radar, modal.radar, modal.radarBoth, modal.window)
    BY DEF LonelinessShows
  <2>2. OneEyedAfter("radar", modal.flags, alone'.radar, m.radar, m.radarBoth, m.window)
    BY <2>1, <1>4, <1>6, OneEyedStep
  <2>3. QED
    BY <2>2 DEF OneEyedAfter
<1>9. /\ alone'.csi \in 0 .. AloneLong /\ m.csi \in Nat /\ m.csiBoth \in Nat
      /\ m.window < Window =>
           OneEyed("csi", modal.flags, alone'.csi, m.csi, m.csiBoth, m.window)
      /\ m.window >= Window /\ alone'.csi >= Window + MaxGap =>
           m.csi >= MinActive /\ 5 * m.csiBoth < m.csi
  <2>1. OneEyed("csi", modal.flags, alone.csi, modal.csi, modal.csiBoth, modal.window)
    BY DEF LonelinessShows
  <2>2. OneEyedAfter("csi", modal.flags, alone'.csi, m.csi, m.csiBoth, m.window)
    BY <2>1, <1>4, <1>7, OneEyedStep
  <2>3. QED
    BY <2>2 DEF OneEyedAfter
<1>10. CASE m.window < Window
  <2>1. modal' = m
    BY <1>1, <1>10 DEF Evaluated
  <2>2. m.window \in {None} \cup 0 .. Window - 1
    BY <1>8, <1>10, VigilanceAssumption
  <2>3. m.flags \in SUBSET {"radar", "csi"}
    BY <1>2 DEF ModalTyped
  <2>4. m = [window |-> m.window, radar |-> m.radar, radarBoth |-> m.radarBoth,
             csi |-> m.csi, csiBoth |-> m.csiBoth, flags |-> m.flags]
    BY <1>1 DEF Shown, ModalTyped
  <2>5. m \in Modals
    BY <2>2, <2>3, <2>4, <1>8, <1>9
  <2>6. ModalTyped'
    BY <2>1, <2>5, <1>8, <1>9 DEF ModalTyped
  <2>7. LonelinessShows'
    BY <2>1, <1>2, <1>8, <1>9, <1>10 DEF LonelinessShows
  <2>8. QED
    BY <2>6, <2>7
<1>11. CASE m.window >= Window
  <2>1. PICK flags : flags = Uncorroborated(m)
    OBVIOUS
  <2>2. /\ "radar" \in flags <=> (m.radar >= MinActive /\ 5 * m.radarBoth < m.radar)
        /\ "csi" \in flags <=> (m.csi >= MinActive /\ 5 * m.csiBoth < m.csi)
        /\ flags \in SUBSET {"radar", "csi"}
    BY <2>1 DEF Uncorroborated
  <2>3. modal' = [NewModal EXCEPT !.window = 0, !.flags = flags]
    BY <1>1, <1>8, <1>11, <2>1, VigilanceAssumption DEF Evaluated
  <2>4. modal' = [window |-> 0, radar |-> 0, radarBoth |-> 0, csi |-> 0, csiBoth |-> 0,
                  flags |-> flags]
    BY <2>3 DEF NewModal
  <2>5. 0 \in {None} \cup 0 .. Window - 1
    BY VigilanceAssumption
  <2>6. modal' \in Modals
    BY <2>2, <2>4, <2>5
  <2>7. ModalTyped'
    BY <2>6, <1>8, <1>9 DEF ModalTyped
  <2>8. /\ OneEyed("radar", flags, alone'.radar, 0, 0, 0)
        /\ OneEyed("csi", flags, alone'.csi, 0, 0, 0)
    BY <2>2, <1>8, <1>9, <1>11, OneEyedAnew
  <2>9. LonelinessShows'
    BY <2>4, <2>8 DEF LonelinessShows
  <2>10. QED
    BY <2>7, <2>9
<1>12. QED
  BY <1>8, <1>10, <1>11, VigilanceAssumption

LEMMA checkSystemHealthStep ==
  ASSUME VigilanceInv, checkSystemHealth
  PROVE  VigilanceInv'
<1>1. UNCHANGED <<peers, gone>> /\ SilentIsGone'
  BY DEF VigilanceInv, SilentIsGone, checkSystemHealth, CheckNotSensing, CheckSensing,
         peerVars, Known
<1>2. CASE CheckNotSensing
  <2>1. csi' = NewSensor /\ dark' = NoDark /\ modal' = NewModal /\ alone' = NotAlone
    BY <1>2 DEF CheckNotSensing
  <2>2. (csi = NewSensor /\ dark = NoDark => SensorTyped /\ SilenceIsCounted)'
    BY FreshSensor, PTL
  <2>3. (modal = NewModal /\ alone = NotAlone => ModalTyped /\ LonelinessShows)'
    BY FreshModal, PTL
  <2>4. QED
    BY <1>1, <2>1, <2>2, <2>3 DEF VigilanceInv
<1>3. ASSUME NEW gap \in Gaps, NEW packets \in {"none", "few", "enough"},
             NEW eth \in BOOLEAN, NEW changed \in BOOLEAN, NEW radarLive \in BOOLEAN,
             NEW radarSees \in BOOLEAN, NEW csiSees \in BOOLEAN,
             CheckSensing(gap, eth, packets, changed, radarLive, radarSees, csiSees)
      PROVE  VigilanceInv'
  <2>1. SensorTyped' /\ SilenceIsCounted'
    BY <1>3, SensorStep DEF CheckSensing, VigilanceInv
  <2>2. CASE radarLive
    BY <2>1, <2>2, <1>1, <1>3, ModalStep DEF CheckSensing, VigilanceInv
  <2>3. CASE ~radarLive
    <3>1. modal' = NewModal /\ alone' = NotAlone
      BY <2>3, <1>3 DEF CheckSensing
    <3>2. (modal = NewModal /\ alone = NotAlone => ModalTyped /\ LonelinessShows)'
      BY FreshModal, PTL
    <3>3. QED
      BY <2>1, <1>1, <3>1, <3>2 DEF VigilanceInv
  <2>4. QED
    BY <2>2, <2>3
<1>4. QED
  BY <1>2, <1>3 DEF checkSystemHealth

LEMMA PeersStep ==
  ASSUME SilentIsGone,
         (\E n \in Nodes : supervisionPeerSeen(n)) \/ (\E gap \in Gaps : supervisionCheck(gap))
  PROVE  SilentIsGone'
<1>1. PeerTimeout \in Nat /\ GoneLong \in Nat /\ GoneLong >= PeerTimeout + 1
  BY BoundsAreNat, MaxGapIs, VigilanceAssumption
<1>2. ASSUME NEW n \in Nodes, supervisionPeerSeen(n) PROVE SilentIsGone'
  <2>1. gone' = [gone EXCEPT ![n] = 0] /\ peers' = Seen(n)
    BY <1>2 DEF supervisionPeerSeen
  <2>2. gone' \in [Nodes -> 0 .. GoneLong]
    BY <2>1, <1>1 DEF SilentIsGone
  <2>3. DOMAIN peers' \subseteq Nodes
    BY <2>1 DEF SilentIsGone, Seen, Known
  <2>4. ASSUME NEW p \in DOMAIN peers' PROVE
          /\ peers'[p].silent = Capped(gone'[p], PeerTimeout + 1)
          /\ peers'[p].alerted <=> peers'[p].silent > PeerTimeout
    <3>1. CASE p = n
      <4>1. peers'[p] = [silent |-> 0, alerted |-> FALSE]
        BY <3>1, <2>1, <2>4 DEF Seen, Known
      <4>2. gone'[p] = 0
        BY <3>1, <2>1 DEF SilentIsGone
      <4>3. Capped(0, PeerTimeout + 1) = 0 /\ ~(0 > PeerTimeout)
        BY <1>1 DEF Capped
      <4>4. QED
        BY <4>1, <4>2, <4>3
    <3>2. CASE p # n
      <4>1. p \in DOMAIN peers /\ peers'[p] = peers[p]
        BY <3>2, <2>1, <2>4 DEF Seen, Known
      <4>2. gone'[p] = gone[p]
        BY <3>2, <2>1, <4>1 DEF SilentIsGone, Known
      <4>3. QED
        BY <4>1, <4>2 DEF SilentIsGone, Known
    <3>3. QED
      BY <3>1, <3>2
  <2>5. QED
    BY <2>2, <2>3, <2>4 DEF SilentIsGone, Known
<1>3. ASSUME NEW gap \in Gaps, supervisionCheck(gap) PROVE SilentIsGone'
  <2>1. gone' = [n \in Nodes |-> Capped(gone[n] + gap, GoneLong)]
    BY <1>3 DEF supervisionCheck
  <2>2. gap \in Nat
    BY VigilanceAssumption
  <2>3. gone' \in [Nodes -> 0 .. GoneLong]
    BY <2>1, <2>2, <1>1 DEF SilentIsGone, Capped
  <2>4. DOMAIN peers' = DOMAIN peers
    BY <1>3 DEF supervisionCheck, Known
  <2>5. ASSUME NEW p \in DOMAIN peers PROVE
          /\ peers'[p].silent = Capped(gone'[p], PeerTimeout + 1)
          /\ peers'[p].alerted <=> peers'[p].silent > PeerTimeout
    <3>1. p \in Nodes /\ gone[p] \in 0 .. GoneLong
      BY DEF SilentIsGone, Known
    <3>2. PICK old, new : old = peers[p].silent /\ new = Capped(old + gap, PeerTimeout + 1)
      OBVIOUS
    <3>3. /\ peers'[p].silent = new
          /\ peers'[p].alerted = (peers[p].alerted \/ new > PeerTimeout)
      BY <3>2, <1>3 DEF supervisionCheck, Known
    <3>4. old = Capped(gone[p], PeerTimeout + 1)
      BY <3>2 DEF SilentIsGone, Known
    <3>5. peers[p].alerted <=> old > PeerTimeout
      BY <3>2 DEF SilentIsGone, Known
    <3>6. gone'[p] = Capped(gone[p] + gap, GoneLong)
      BY <2>1, <3>1
    <3>7. new = Capped(gone'[p], PeerTimeout + 1)
      BY <3>1, <3>2, <3>4, <3>6, <2>2, <1>1 DEF Capped
    <3>8. old > PeerTimeout => new > PeerTimeout
      BY <3>1, <3>2, <3>4, <2>2, <1>1 DEF Capped
    <3>9. (peers[p].alerted \/ new > PeerTimeout) <=> new > PeerTimeout
      BY <3>5, <3>8
    <3>10. QED
      BY <3>3, <3>7, <3>9
  <2>6. QED
    BY <2>3, <2>4, <2>5 DEF SilentIsGone, Known
<1>4. QED
  BY <1>2, <1>3

LEMMA VigilanceStep == VigilanceInv /\ [VigilanceNext]_vigilanceVars => VigilanceInv'
<1> SUFFICES ASSUME VigilanceInv, [VigilanceNext]_vigilanceVars PROVE VigilanceInv'
  OBVIOUS
<1>1. CASE checkSystemHealth
  BY <1>1, checkSystemHealthStep
<1>2. CASE \/ \E covered \in BOOLEAN : checkTamperState(covered)
           \/ CoverTick
           \/ UNCHANGED vigilanceVars
  <2>1. UNCHANGED <<csi, blinded, modal, dark, alone, peers, gone>>
    BY <1>2 DEF checkTamperState, CoverTick, vigilanceVars, csiVars, peerVars
  <2>2. SensorTyped' /\ SilenceIsCounted'
    BY <2>1 DEF VigilanceInv, SensorTyped, SilenceIsCounted, NoPackets, WarmedUp
  <2>3. ModalTyped' /\ LonelinessShows'
    BY <2>1 DEF VigilanceInv, ModalTyped, LonelinessShows
  <2>4. SilentIsGone'
    BY <2>1 DEF VigilanceInv, SilentIsGone, Known
  <2>5. QED
    BY <2>2, <2>3, <2>4 DEF VigilanceInv
<1>3. CASE (\E n \in Nodes : supervisionPeerSeen(n)) \/ (\E gap \in Gaps : supervisionCheck(gap))
  <2>1. UNCHANGED <<csi, blinded, modal, dark, alone>>
    BY <1>3 DEF supervisionPeerSeen, supervisionCheck, csiVars
  <2>2. SensorTyped' /\ SilenceIsCounted'
    BY <2>1 DEF VigilanceInv, SensorTyped, SilenceIsCounted, NoPackets, WarmedUp
  <2>3. ModalTyped' /\ LonelinessShows'
    BY <2>1 DEF VigilanceInv, ModalTyped, LonelinessShows
  <2>4. SilentIsGone'
    BY <1>3, PeersStep DEF VigilanceInv
  <2>5. QED
    BY <2>2, <2>3, <2>4 DEF VigilanceInv
<1>4. QED
  BY <1>1, <1>2, <1>3 DEF VigilanceNext

LEMMA VigilanceInitInv == VigilanceInit => VigilanceInv
<1> SUFFICES ASSUME VigilanceInit PROVE VigilanceInv
  OBVIOUS
<1>1. SensorTyped /\ SilenceIsCounted /\ ModalTyped /\ LonelinessShows
  BY FreshSensor, FreshModal DEF VigilanceInit
<1>2. SilentIsGone
  <2>1. Known = {}
    BY DEF VigilanceInit, Known
  <2>2. gone \in [Nodes -> 0 .. GoneLong]
    BY BoundsAreNat DEF VigilanceInit
  <2>3. QED
    BY <2>1, <2>2 DEF SilentIsGone
<1>3. QED
  BY <1>1, <1>2 DEF VigilanceInv

(* What VigilanceInv says of a time that is long enough.                   *)
LEMMA NoticedInTime == VigilanceInv => WhatLastsIsNoticed
<1> SUFFICES ASSUME VigilanceInv PROVE WhatLastsIsNoticed
  OBVIOUS
<1>1. ASSUME dark.blind = DarkLong, dark.sensing = SenseLong PROVE blinded
  <2>1. csi.since = StartupGrace
    BY <1>1, BoundsAreNat, MaxGapIs, VigilanceAssumption
       DEF VigilanceInv, SensorTyped, SilenceIsCounted
  <2>2. csi.low = NoPacketGrace
    BY <1>1, BoundsAreNat, MaxGapIs, VigilanceAssumption
       DEF VigilanceInv, SensorTyped, SilenceIsCounted
  <2>3. QED
    BY <2>1, <2>2 DEF VigilanceInv, SilenceIsCounted, NoPackets, WarmedUp
<1>2. ASSUME NEW s, NEW active, NEW both, NEW lone, lone = AloneLong,
             OneEyed(s, modal.flags, lone, active, both, modal.window)
      PROVE  s \in modal.flags
  BY <1>2, BoundsAreNat, MaxGapIs, VigilanceAssumption
     DEF VigilanceInv, ModalTyped, OneEyed
<1>3. ASSUME NEW s \in {"radar", "csi"}, alone[s] = AloneLong PROVE s \in modal.flags
  <2>1. CASE s = "radar"
    <3>1. OneEyed(s, modal.flags, alone[s], modal.radar, modal.radarBoth, modal.window)
      BY <2>1 DEF VigilanceInv, LonelinessShows
    <3>2. QED
      BY <1>2, <1>3, <3>1
  <2>2. CASE s = "csi"
    <3>1. OneEyed(s, modal.flags, alone[s], modal.csi, modal.csiBoth, modal.window)
      BY <2>2 DEF VigilanceInv, LonelinessShows
    <3>2. QED
      BY <1>2, <1>3, <3>1
  <2>3. QED
    BY <2>1, <2>2
<1>4. ASSUME NEW n \in Known PROVE
        /\ gone[n] = GoneLong => peers[n].alerted
        /\ peers[n].alerted => gone[n] > PeerTimeout
  <2>1. /\ gone[n] \in 0 .. GoneLong
        /\ peers[n].silent = Capped(gone[n], PeerTimeout + 1)
    BY DEF VigilanceInv, SilentIsGone
  <2>2. peers[n].alerted <=> peers[n].silent > PeerTimeout
    BY DEF VigilanceInv, SilentIsGone
  <2>3. peers[n].silent > PeerTimeout <=> gone[n] > PeerTimeout
    BY <2>1, BoundsAreNat, VigilanceAssumption DEF Capped
  <2>4. GoneLong > PeerTimeout
    BY BoundsAreNat, MaxGapIs, VigilanceAssumption
  <2>5. QED
    BY <2>2, <2>3, <2>4
<1>5. QED
  BY <1>1, <1>3, <1>4 DEF WhatLastsIsNoticed

(* A blinded CSI sensor, a sensor that sees alone and a peer that fell     *)
(* silent are noticed in the times of their checks, however these are      *)
(* spaced, and no peer is alerted early.                                   *)
THEOREM LastingTroubleIsNoticed == VigilanceSpec => []WhatLastsIsNoticed
<1>1. VigilanceSpec => []VigilanceInv
  BY VigilanceInitInv, VigilanceStep, PTL DEF VigilanceSpec
<1>2. QED
  BY <1>1, NoticedInTime, PTL
=============================================================================
