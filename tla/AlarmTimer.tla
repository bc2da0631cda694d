----------------------------- MODULE AlarmTimer -----------------------------
(***************************************************************************)
(* What the alarm promises the household, with no clock arithmetic in it:  *)
(* five modes, the true time spent in the current one, and how many frames *)
(* in a row have shown motion.  AlarmFSM.tla, the translation of           *)
(* include/services/AlarmFSM.h with its 32-bit time stamps, implements     *)
(* this specification.                                                     *)
(***************************************************************************)
EXTENDS Naturals

CONSTANTS
  Configs,   \* the settings records the host may install
  AgeCap,    \* ages of AgeCap and more are not told apart
  MaxStep    \* longest time between two observations of the clock

VARIABLES
  mode,      \* the mode of the alarm
  age,       \* true time since the mode was entered, saturating at AgeCap
  streak,    \* consecutive frames with qualifying motion, in mode ARMED
  cfg        \* the settings in force

vars == <<mode, age, streak, cfg>>

Modes == {"DISARMED", "ARMING", "ARMED", "PENDING", "TRIGGERED"}

Init ==
  /\ mode = "DISARMED"
  /\ age = 0
  /\ streak = 0
  /\ cfg \in Configs

Enter(m) == mode' = m /\ age' = 0 /\ streak' = 0 /\ UNCHANGED cfg

(* A user arms a disarmed alarm, with or without an exit delay. *)
Arm == mode = "DISARMED" /\ (Enter("ARMING") \/ Enter("ARMED"))

(* Only a user (or the trigger timeout, below) ever ends a guard. *)
Disarm == mode # "DISARMED" /\ Enter("DISARMED")

(* The guard starts when the whole exit delay has been granted. *)
ExitDelayOver == mode = "ARMING" /\ age >= cfg.exitDelay /\ Enter("ARMED")

(* The siren starts when the whole entry delay has been granted. *)
EntryDelayOver == mode = "PENDING" /\ age >= cfg.entryDelay /\ Enter("TRIGGERED")

(* An alarm is silenced by itself only after the configured time, and goes *)
(* where the configuration says.                                           *)
AutoSilence ==
  /\ mode = "TRIGGERED"
  /\ cfg.triggerTimeout > 0
  /\ age >= cfg.triggerTimeout
  /\ Enter(IF cfg.autoRearm THEN "ARMED" ELSE "DISARMED")

(* One frame of motion evidence while on guard. *)
Frame ==
  /\ mode = "ARMED"
  /\ \/ /\ streak' \in {0, streak + 1}
        /\ UNCHANGED <<mode, age, cfg>>
     \/ /\ streak + 1 >= cfg.debounceFrames
        /\ Enter("PENDING") \/ Enter("TRIGGERED")

Reconfigure == cfg' \in Configs /\ UNCHANGED <<mode, age, streak>>

TimePasses ==
  /\ \E d \in 1..MaxStep : age' = IF age + d < AgeCap THEN age + d ELSE AgeCap
  /\ UNCHANGED <<mode, streak, cfg>>

Next ==
  \/ Arm
  \/ Disarm
  \/ ExitDelayOver
  \/ EntryDelayOver
  \/ AutoSilence
  \/ Frame
  \/ Reconfigure
  \/ TimePasses

Spec == Init /\ [][Next]_vars
=============================================================================
