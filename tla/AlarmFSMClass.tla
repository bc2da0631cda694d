---------------------------- MODULE AlarmFSMClass ----------------------------
(***************************************************************************)
(* include/services/AlarmFSM.h: the methods of the alarm state machine.    *)
(*                                                                         *)
(* Each method of the class is an operator on a record f with the private  *)
(* members of the class.  AlarmFSM.tla runs the object on its own,         *)
(* SecurityMonitor.tla calls the same operators from its handlers.         *)
(***************************************************************************)
EXTENDS Naturals

CONSTANTS
  Wrap,      \* number of values of the millisecond counter: 2^32
  MaxDelay,  \* largest delay or timeout a setting can have
  MaxGap,    \* longest time the host lets pass between two calls of tick()
  CountMax,  \* largest value of the debounce counter: 255
  Configs    \* the settings records the host may install

ConfigType ==
  [entryDelay : 0..MaxDelay, exitDelay : 0..MaxDelay,
   triggerTimeout : 0..MaxDelay, autoRearm : BOOLEAN,
   debounceFrames : 0..CountMax]

(* The counter must not wrap within one delay: delays are at most an hour  *)
(* (WebRoutes.cpp) and 49.7 days fit in the counter.                       *)
ASSUME ClockAssumption ==
  /\ Wrap \in Nat /\ MaxDelay \in Nat
  /\ MaxGap \in Nat \ {0}
  /\ MaxDelay + MaxGap < Wrap

ASSUME ConfigAssumption ==
  /\ CountMax \in Nat \ {0}
  /\ Configs \subseteq ConfigType

Instants == 0..(Wrap - 1)
States == {"DISARMED", "ARMING", "ARMED", "PENDING", "TRIGGERED"}
Behaviors == 0..3   \* 0 entry delay, 1 immediate, 2 ignore, 3 static zone

FSMType ==
  [state : States, exitStart : Instants, entryStart : Instants,
   triggerStart : Instants, debounce : 0..CountMax]

-----------------------------------------------------------------------------
(* The class.  Names ending in Wrong are deliberate faults, none of which  *)
(* any definition uses: each shows that a property below can fail.         *)

InitialFSM ==
  [state |-> "DISARMED", exitStart |-> 0, entryStart |-> 0,
   triggerStart |-> 0, debounce |-> 0]

(* (uint32_t)(now - start): the difference modulo Wrap. *)
Elapsed(t, start) == IF t >= start THEN t - start ELSE t + Wrap - start

ArmResult(f, immediate) ==
  CASE f.state \in {"PENDING", "TRIGGERED"}   -> "REJECTED"
    [] f.state \in {"ARMING", "ARMED"}        -> "IDEMPOTENT"
    [] f.state = "DISARMED" /\ immediate      -> "ARMED_IMMEDIATE"
    [] f.state = "DISARMED" /\ ~immediate     -> "ARMING_STARTED"

ArmFSM(f, immediate, t) ==
  CASE ArmResult(f, immediate) = "ARMED_IMMEDIATE" ->
         [f EXCEPT !.state = "ARMED", !.debounce = 0]
    [] ArmResult(f, immediate) = "ARMING_STARTED" ->
         [f EXCEPT !.state = "ARMING", !.debounce = 0, !.exitStart = t]
    [] OTHER -> f

DisarmFSM(f) == InitialFSM

TickEventMissesEntryWrong(f, c, t) ==
  CASE f.state = "ARMING" /\ Elapsed(t, f.exitStart) >= c.exitDelay ->
         "EXIT_DELAY_DONE"
    [] /\ f.state = "TRIGGERED" /\ c.triggerTimeout > 0
       /\ Elapsed(t, f.triggerStart) >= c.triggerTimeout ->
         IF c.autoRearm THEN "AUTO_REARMED" ELSE "AUTO_DISARMED"
    [] OTHER -> "NONE"

TickEvent(f, c, t) ==
  CASE f.state = "ARMING" /\ Elapsed(t, f.exitStart) >= c.exitDelay ->
         "EXIT_DELAY_DONE"
    [] /\ f.state = "TRIGGERED" /\ c.triggerTimeout > 0
       /\ Elapsed(t, f.triggerStart) >= c.triggerTimeout ->
         IF c.autoRearm THEN "AUTO_REARMED" ELSE "AUTO_DISARMED"
    [] f.state = "PENDING" /\ Elapsed(t, f.entryStart) >= c.entryDelay ->
         "ENTRY_EXPIRED_TRIGGERED"
    [] OTHER -> "NONE"

TickFSM(f, c, t) ==
  CASE TickEvent(f, c, t) \in {"EXIT_DELAY_DONE", "AUTO_REARMED"} ->
         [f EXCEPT !.state = "ARMED"]
    [] TickEvent(f, c, t) = "AUTO_DISARMED" -> [f EXCEPT !.state = "DISARMED"]
    [] TickEvent(f, c, t) = "ENTRY_EXPIRED_TRIGGERED" ->
         [f EXCEPT !.state = "TRIGGERED", !.triggerStart = t]
    [] OTHER -> f

RequiredFramesIgnoredWrong(c) == 1
RequiredFrames(c) == IF c.debounceFrames < 1 THEN 1 ELSE c.debounceFrames
CountedFrames(f) == IF f.debounce < CountMax THEN f.debounce + 1 ELSE f.debounce

(* The debounce is satisfied by this frame. *)
Confirmed(f, c, qualifies) ==
  f.state = "ARMED" /\ qualifies /\ CountedFrames(f) >= RequiredFrames(c)

MotionEvent(f, c, qualifies, behavior) ==
  CASE ~Confirmed(f, c, qualifies) -> "NONE"
    [] Confirmed(f, c, qualifies) /\ behavior = 2 -> "IGNORED"
    [] Confirmed(f, c, qualifies) /\ behavior = 1 -> "TRIGGERED_IMMEDIATE"
    [] OTHER -> "PENDING_STARTED"

MotionFSM(f, c, qualifies, behavior, t) ==
  IF f.state # "ARMED" THEN f ELSE
  CASE MotionEvent(f, c, qualifies, behavior) = "TRIGGERED_IMMEDIATE" ->
         [f EXCEPT !.state = "TRIGGERED", !.triggerStart = t, !.debounce = 0]
    [] MotionEvent(f, c, qualifies, behavior) = "PENDING_STARTED" ->
         [f EXCEPT !.state = "PENDING", !.entryStart = t, !.debounce = 0]
    [] OTHER ->
         [f EXCEPT !.debounce =
            IF qualifies /\ ~Confirmed(f, c, qualifies)
            THEN CountedFrames(f) ELSE 0]
=============================================================================
