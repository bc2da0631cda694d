---------------------------- MODULE ArmScheduler ----------------------------
(***************************************************************************)
(* The two automatic hands on the alarm in loop() of src/main.cpp: the     *)
(* daily schedule and the auto-arm after minutes without presence.  Both   *)
(* read isArmed() without the monitor's lock and then call setArmed(),     *)
(* while web requests arm and disarm from another task.                    *)
(*                                                                         *)
(* Time is counted in the 30 s between two looks at the schedule.  One     *)
(* pass of loop() is short against that.                                   *)
(***************************************************************************)
EXTENDS Naturals

CONSTANTS
  Days,       \* days in the year the latches can tell apart: 365
  Minutes,    \* minutes in a day: 1440
  ArmAt,      \* sched_arm_time, a minute
  DisarmAt,   \* sched_disarm_time, a minute
  QuietTime   \* auto_arm_minutes, counted in half minutes

ASSUME ScheduleAssumption ==
  /\ Days \in Nat \ {0} /\ Minutes \in Nat \ {0} /\ QuietTime \in Nat \ {0}
  /\ ArmAt \in 0..(Minutes - 1) /\ DisarmAt \in 0..(Minutes - 1)

VARIABLES
  guard,    \* the alarm, as far as setArmed() tells its states apart
  step,     \* where loop() is
  clock,    \* local time: day of the year and half minute of the day
  looked,   \* lastSchedCheck was in this half minute
  latch,    \* lastArmYday and lastDisarmYday, Days for the code's -1
  idle,     \* now - lastPresenceTime, no further than QuietTime
  was,      \* wasArmed
  acts,     \* history: scheduled acts of this day and boot
  quiet,    \* history: true time without presence and without a guard
  missed    \* history: a guard came and went unseen by auto-arm

vars == <<guard, step, clock, looked, latch, idle, was, acts, quiet, missed>>

Guards == {"off", "on", "alarm"}
Steps == {"schedule", "arm", "disarm?", "disarm", "auto?", "auto"}

Unlatched == [arm |-> Days, disarm |-> Days]
NoActs == [arm |-> 0, disarm |-> 0]

Init ==
  /\ guard = "off"
  /\ step = "schedule"
  /\ clock \in [day : 0..(Days - 1), half : 0..(2 * Minutes - 1)]
  /\ looked = TRUE
  /\ latch = Unlatched
  /\ idle = 0
  /\ was = FALSE
  /\ acts = NoActs
  /\ quiet = 0
  /\ missed = FALSE

-----------------------------------------------------------------------------
IsArmed == guard # "off"
Minute == clock.half \div 2

(* What setArmed(on) may leave: BUSY changes nothing, and neither does     *)
(* arming a standing guard.                                                *)
Outcomes(on) == {guard, IF ~on THEN "off" ELSE IF guard = "off" THEN "on" ELSE guard}

DueNoLatchWrong(minute, last, wanted) == Minute = minute /\ wanted
Due(minute, last, wanted) == Minute = minute /\ last # clock.day /\ wanted

(* Every half minute, with a valid clock, loop() looks at the schedule. *)
Schedule ==
  /\ step = "schedule"
  /\ \/ /\ ~looked
        /\ looked' = TRUE
        /\ step' = IF Due(ArmAt, latch.arm, ~IsArmed) THEN "arm" ELSE "disarm?"
     \/ looked' = looked /\ step' = "auto?"
  /\ UNCHANGED <<guard, clock, latch, idle, was, acts, quiet, missed>>

(* Whatever setArmed() answers, BUSY included, the day is done.            *)
ScheduledArm ==
  /\ step = "arm"
  /\ step' = "disarm?"
  /\ guard' \in Outcomes(TRUE)
  /\ latch' = [latch EXCEPT !.arm = clock.day]
  /\ acts' = [acts EXCEPT !.arm = @ + 1]
  /\ UNCHANGED <<clock, looked, idle, was, quiet, missed>>

LookAtDisarm ==
  /\ step = "disarm?"
  /\ step' = IF Due(DisarmAt, latch.disarm, IsArmed) THEN "disarm" ELSE "auto?"
  /\ UNCHANGED <<guard, clock, looked, latch, idle, was, acts, quiet, missed>>

Ended == guard # "off" /\ guard' = "off"

ScheduledDisarm ==
  /\ step = "disarm"
  /\ step' = "auto?"
  /\ guard' \in Outcomes(FALSE)
  /\ quiet' = IF Ended THEN 0 ELSE quiet
  /\ missed' = (missed \/ (Ended /\ ~was))
  /\ latch' = [latch EXCEPT !.disarm = clock.day]
  /\ acts' = [acts EXCEPT !.disarm = @ + 1]
  /\ UNCHANGED <<clock, looked, idle, was>>

RestartOnPresenceOnlyWrong(present) == present

(* Presence restarts the wait, and so does the end of a guard seen here. *)
WaitRestarts(present) == present \/ (was /\ ~IsArmed)

(* loop() looks at presence and guard. *)
LookAtPresence ==
  /\ step = "auto?"
  /\ \E present \in BOOLEAN :
       /\ idle' = IF WaitRestarts(present) THEN 0 ELSE idle
       /\ quiet' = IF present \/ IsArmed THEN 0 ELSE quiet
       /\ missed' = (missed /\ ~WaitRestarts(present))
  /\ was' = IsArmed
  /\ step' = IF ~IsArmed /\ idle' >= QuietTime THEN "auto" ELSE "schedule"
  /\ UNCHANGED <<guard, clock, looked, latch, acts>>

AutoArm ==
  /\ step = "auto"
  /\ step' = "schedule"
  /\ guard' \in Outcomes(TRUE)
  /\ was' = TRUE
  /\ idle' = 0
  /\ UNCHANGED <<clock, looked, latch, acts, quiet, missed>>

(* A user, or the alarm itself, between any two steps of loop(). *)
UserArm ==
  /\ guard = "off"
  /\ guard' = "on"
  /\ UNCHANGED <<step, clock, looked, latch, idle, was, acts, quiet, missed>>

Alarm ==
  /\ guard = "on"
  /\ guard' = "alarm"
  /\ UNCHANGED <<step, clock, looked, latch, idle, was, acts, quiet, missed>>

(* A user's disarm, or the end of the trigger timeout. *)
GuardEnds ==
  /\ guard # "off"
  /\ guard' = "off"
  /\ quiet' = 0
  /\ missed' = (missed \/ ~was)
  /\ UNCHANGED <<step, clock, looked, latch, idle, was, acts>>

Later(t) == IF t < QuietTime THEN t + 1 ELSE t

HalfMinutePasses ==
  /\ step = "schedule"
  /\ clock' = IF clock.half + 1 < 2 * Minutes
              THEN [clock EXCEPT !.half = @ + 1]
              ELSE [day |-> (clock.day + 1) % Days, half |-> 0]
  /\ looked' = FALSE
  /\ idle' = Later(idle)
  /\ quiet' = IF IsArmed THEN 0 ELSE Later(quiet)
  /\ acts' = IF clock'.day = clock.day THEN acts ELSE NoActs
  /\ UNCHANGED <<guard, step, latch, was, missed>>

(* The guard survives a restart (SecurityMonitor.tla), the latches do not. *)
Restart ==
  /\ guard' = IF guard = "off" THEN "off" ELSE "on"
  /\ step' = "schedule"
  /\ looked' = TRUE
  /\ latch' = Unlatched
  /\ idle' = 0
  /\ was' = FALSE
  /\ acts' = NoActs
  /\ quiet' = 0
  /\ missed' = FALSE
  /\ UNCHANGED clock

Next ==
  \/ Schedule
  \/ ScheduledArm
  \/ LookAtDisarm
  \/ ScheduledDisarm
  \/ LookAtPresence
  \/ AutoArm
  \/ UserArm
  \/ Alarm
  \/ GuardEnds
  \/ HalfMinutePasses
  \/ Restart

Spec == Init /\ [][Next]_vars

-----------------------------------------------------------------------------
TypeOK ==
  /\ guard \in Guards /\ step \in Steps
  /\ clock \in [day : 0..(Days - 1), half : 0..(2 * Minutes - 1)]
  /\ looked \in BOOLEAN /\ was \in BOOLEAN /\ missed \in BOOLEAN
  /\ latch \in [arm : 0..Days, disarm : 0..Days]
  /\ idle \in 0..QuietTime /\ quiet \in 0..QuietTime

(* CHANGELOG.md: the scheduler fires once per day per direction, however   *)
(* users arm and disarm around it; a restart forgets the day's act.        *)
OncePerDay == acts.arm <= 1 /\ acts.disarm <= 1

(* main.cpp: auto-arm waits its full interval after presence and after the *)
(* end of a guard: a user who disarms is not armed in again at once.       *)
(* Excepted is a guard that came and went between two looks of loop().     *)
AutoArmWaitsIfSeen ==
  [][AutoArm /\ guard' # guard /\ ~missed => quiet >= QuietTime]_vars
=============================================================================
