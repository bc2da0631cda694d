-------------------------- MODULE SecurityMonitor --------------------------
(***************************************************************************)
(* src/services/SecurityMonitor.cpp around the alarm state machine: who    *)
(* arms and disarms, the siren, the queue of alarm events, the flags kept  *)
(* in NVS, and setup() of src/main.cpp, which restores the guard.          *)
(*                                                                         *)
(* Every handler holds _mutex from its first to its last statement, so     *)
(* each is one action.  A handler that times out on the mutex returns at   *)
(* once: only setArmed() has a result to show for it.  What radar and CSI  *)
(* make of a frame is the subject of ZoneLogic.tla and Fusion.tla; here a  *)
(* frame qualifies or not, in a zone of any behaviour.                     *)
(***************************************************************************)
EXTENDS AlarmFSMClass, Sequences

CONSTANT
  QueueSize  \* ALARM_QUEUE_SIZE: 4

ASSUME QueueAssumption == QueueSize \in Nat \ {0}

VARIABLES
  mon,      \* the SecurityMonitor object (RAM)
  prefs,    \* sec_armed and sec_home_mode (NVS, survives a restart)
  phase,    \* how far setup() has come
  cfg,      \* delays, timeout, debounce, auto re-arm
  now,      \* millis()
  unsaved   \* history: the guard last changed without reaching NVS

vars == <<mon, prefs, phase, cfg, now, unsaved>>

(* "server": the web server answers, begin() has not run, _prefs is null.  *)
(* "begun": begin() has run, the guard is not restored.  "loop": loop().   *)
Phases == {"server", "begun", "loop"}
Reasons == {"entry_delay", "immediate", "entry_delay_expired", "disarmed"}

MonitorType ==
  [fsm : FSMType, siren : BOOLEAN, home : BOOLEAN, queue : Seq(Reasons),
   last : Reasons \cup {"none"}, dropped : BOOLEAN]

InitialMonitor ==
  [fsm |-> InitialFSM, siren |-> FALSE, home |-> FALSE,
   queue |-> <<>>, last |-> "none",
   dropped |-> FALSE]   \* history: an event was lost since the restart

Init ==
  /\ mon = InitialMonitor
  /\ prefs = [armed |-> FALSE, home |-> FALSE]
  /\ phase = "server"
  /\ cfg \in Configs
  /\ now = 0
  /\ unsaved = FALSE

-----------------------------------------------------------------------------
(* Pieces of the handlers, as operators on the object.                     *)

Full(m) == Len(m.queue) = QueueSize

(* enqueueAlarmEvent(): a full queue loses the newest event, but the event *)
(* still becomes the last one the API shows.                               *)
EnqueueAlarmEvent(m, reason) ==
  [m EXCEPT !.queue = IF Full(m) THEN @ ELSE Append(@, reason),
            !.last = reason,
            !.dropped = @ \/ Full(m)]

TickKeepsSirenWrong(m) ==
  LET e == TickEvent(m.fsm, cfg, now)
      ticked == [m EXCEPT !.fsm = TickFSM(@, cfg, now)]
  IN  IF e = "ENTRY_EXPIRED_TRIGGERED"
      THEN [EnqueueAlarmEvent(ticked, "entry_delay_expired") EXCEPT !.siren = TRUE]
      ELSE ticked

(* applyTick() *)
ApplyTick(m) ==
  LET e == TickEvent(m.fsm, cfg, now)
      ticked == [m EXCEPT !.fsm = TickFSM(@, cfg, now)]
  IN  CASE e \in {"AUTO_REARMED", "AUTO_DISARMED"} -> [ticked EXCEPT !.siren = FALSE]
        [] e = "ENTRY_EXPIRED_TRIGGERED" ->
             [EnqueueAlarmEvent(ticked, "entry_delay_expired") EXCEPT !.siren = TRUE]
        [] OTHER -> ticked

ReportSilentEntryWrong(m, qualifies, behavior) ==
  LET e == MotionEvent(m.fsm, cfg, qualifies, behavior)
      moved == [m EXCEPT !.fsm = MotionFSM(@, cfg, qualifies, behavior, now)]
  IN  IF e = "TRIGGERED_IMMEDIATE"
      THEN [EnqueueAlarmEvent(moved, "immediate") EXCEPT !.siren = TRUE]
      ELSE moved

(* The end of processRadarData(): report the frame to the state machine.   *)
ReportFrame(m, qualifies, behavior) ==
  LET e == MotionEvent(m.fsm, cfg, qualifies, behavior)
      moved == [m EXCEPT !.fsm = MotionFSM(@, cfg, qualifies, behavior, now)]
  IN  CASE e = "PENDING_STARTED" -> EnqueueAlarmEvent(moved, "entry_delay")
        [] e = "TRIGGERED_IMMEDIATE" ->
             [EnqueueAlarmEvent(moved, "immediate") EXCEPT !.siren = TRUE]
        [] OTHER -> moved

SetArmedResult(m, armed, immediate) ==
  IF armed
  THEN LET r == ArmResult(m.fsm, immediate)
       IN  IF r \in {"REJECTED", "IDEMPOTENT"} THEN r ELSE "APPLIED"
  ELSE IF m.fsm.state = "DISARMED" THEN "IDEMPOTENT" ELSE "APPLIED"

(* The object after setArmed(). *)
SetArmedMonitor(m, armed, immediate, home) ==
  LET off == [m EXCEPT !.fsm = DisarmFSM(@), !.siren = FALSE, !.home = FALSE]
  IN  CASE armed /\ SetArmedResult(m, armed, immediate) = "REJECTED" -> m
        [] armed /\ SetArmedResult(m, armed, immediate) # "REJECTED" ->
             [m EXCEPT !.fsm = ArmFSM(@, immediate, now), !.home = home]
        [] ~armed /\ m.fsm.state = "DISARMED" -> off
        [] ~armed /\ m.fsm.state # "DISARMED" ->
             EnqueueAlarmEvent(off, "disarmed")

PersistNoHomeWrong(m, p, armed, immediate, home) ==
  IF SetArmedResult(m, armed, immediate) \in {"REJECTED", "IDEMPOTENT"} /\ armed
  THEN p ELSE [armed |-> armed, home |-> armed /\ home]

(* What setArmed() leaves in NVS: an arm that finds the guard standing     *)
(* saves a changed home mode only, a rejected one nothing.                 *)
Persist(m, p, armed, immediate, home) ==
  CASE ~armed -> [armed |-> FALSE, home |-> FALSE]
    [] armed /\ SetArmedResult(m, armed, immediate) = "APPLIED" ->
         [armed |-> TRUE, home |-> home]
    [] armed /\ SetArmedResult(m, armed, immediate) = "IDEMPOTENT" ->
         IF m.home # home THEN [p EXCEPT !.home = home] ELSE p
    [] armed /\ SetArmedResult(m, armed, immediate) = "REJECTED" -> p

-----------------------------------------------------------------------------
(* putBool() may refuse either value, and nobody asks whether it did. *)
Written(p, saved) ==
  /\ prefs' \in [armed : {prefs.armed, p.armed}, home : {prefs.home, p.home}]
  /\ unsaved' = (prefs' # p \/ (unsaved /\ ~saved))

(* One call of setArmed() that gets the mutex. *)
SetArmed(armed, immediate, home) ==
  LET saved == ~armed \/ SetArmedResult(mon, armed, immediate) = "APPLIED"
  IN  /\ mon' = SetArmedMonitor(mon, armed, immediate, home)
      /\ IF phase = "server"
         THEN /\ prefs' = prefs
              /\ unsaved' = (unsaved \/ mon' # mon)
         ELSE Written(Persist(mon, prefs, armed, immediate, home), saved)

(* The web routes answer from the moment the server is up; they pass no    *)
(* home mode, so an alarm armed at home turns into one armed away.         *)
WebArm ==
  /\ \E immediate \in BOOLEAN : SetArmed(TRUE, immediate, FALSE)
  /\ UNCHANGED <<phase, cfg, now>>

(* MQTT (ARM_AWAY, ARM_HOME) and Telegram (/arm, /arm_now): from loop(). *)
LoopArm ==
  /\ phase = "loop"
  /\ \E immediate, home \in BOOLEAN :
       ~(immediate /\ home) /\ SetArmed(TRUE, immediate, home)
  /\ UNCHANGED <<phase, cfg, now>>

(* Web at any time; MQTT, Telegram and the schedule from loop(). *)
Disarm ==
  /\ SetArmed(FALSE, FALSE, FALSE)
  /\ UNCHANGED <<phase, cfg, now>>

(* update() *)
Update ==
  /\ phase = "loop"
  /\ mon' = ApplyTick(mon)
  /\ UNCHANGED <<prefs, phase, cfg, now, unsaved>>

(* processRadarData(): the frame, then the timers again. *)
ProcessRadarData ==
  /\ phase = "loop"
  /\ \E qualifies \in BOOLEAN, behavior \in Behaviors :
       mon' = ApplyTick(ReportFrame(mon, qualifies, behavior))
  /\ UNCHANGED <<prefs, phase, cfg, now, unsaved>>

(* loop() publishes the oldest event and consumes it (AlarmDelivery.tla). *)
ConsumeAlarmEvent ==
  /\ phase = "loop"
  /\ mon.queue # <<>>
  /\ mon' = [mon EXCEPT !.queue = Tail(@)]
  /\ UNCHANGED <<prefs, phase, cfg, now, unsaved>>

(* setup(): begin() hands the monitor its preferences. *)
Begin ==
  /\ phase = "server"
  /\ phase' = "begun"
  /\ UNCHANGED <<mon, prefs, cfg, now, unsaved>>

(* setup(): the guard of before the restart is resumed, from its exit      *)
(* delay; nobody looks at the result, BUSY included.                       *)
Restore ==
  /\ phase = "begun"
  /\ phase' = "loop"
  /\ \/ prefs.armed /\ SetArmed(TRUE, FALSE, prefs.home)
     \/ /\ prefs.armed
        /\ unsaved' = TRUE
        /\ UNCHANGED <<mon, prefs>>
     \/ ~prefs.armed /\ UNCHANGED <<mon, prefs, unsaved>>
  /\ UNCHANGED <<cfg, now>>

TimePasses ==
  /\ now' = IF now + 1 < Wrap THEN now + 1 ELSE 0
  /\ UNCHANGED <<mon, prefs, phase, cfg, unsaved>>

LoseRAM ==
  /\ mon' = InitialMonitor
  /\ phase' = "server"
  /\ now' = 0
  /\ unsaved' = FALSE
  /\ UNCHANGED cfg

(* Power loss, panic, watchdog, safeRestart(): at any time. *)
Restart == LoseRAM /\ UNCHANGED prefs

(* The same between the two putBool() calls of setArmed(). *)
RestartWhilePersisting ==
  /\ phase # "server"
  /\ \E armed, immediate \in BOOLEAN :
       /\ armed => SetArmedResult(mon, armed, immediate) = "APPLIED"
       /\ prefs' = [prefs EXCEPT !.armed = armed]
  /\ LoseRAM

Next ==
  \/ WebArm
  \/ LoopArm
  \/ Disarm
  \/ Update
  \/ ProcessRadarData
  \/ ConsumeAlarmEvent
  \/ Begin
  \/ Restore
  \/ TimePasses
  \/ Restart
  \/ RestartWhilePersisting

Spec == Init /\ [][Next]_vars

-----------------------------------------------------------------------------
TypeOK ==
  /\ mon \in MonitorType /\ Len(mon.queue) <= QueueSize
  /\ prefs \in [armed : BOOLEAN, home : BOOLEAN]
  /\ phase \in Phases /\ cfg \in Configs /\ now \in Instants
  /\ unsaved \in BOOLEAN

(* The siren sounds exactly while the alarm is triggered: none of the ways *)
(* into and out of that state (activateSiren(), deactivateSiren()) leaves  *)
(* the pin behind.                                                         *)
SirenFollowsAlarm == mon.siren <=> mon.fsm.state = "TRIGGERED"

(* CHANGELOG.md on the armed state: it persists across reboots via NVS. A  *)
(* power cut now would bring back this very guard.  Excepted are the three *)
(* ways for a change to miss NVS: a request served before begin(), a BUSY  *)
(* restore, and a value that NVS refused, of which setArmed() takes no     *)
(* notice.                                                                 *)
StatePersists ==
  phase = "loop" /\ ~unsaved =>
    /\ prefs.armed <=> mon.fsm.state # "DISARMED"
    /\ prefs.armed => prefs.home = mon.home

(* ... and it does, where the trigger timeout re-arms: there the state     *)
(* machine never ends a guard by itself.                                   *)
RestartKeepsGuard == cfg.autoRearm => StatePersists

(* The last event the API shows explains the state, whatever was consumed  *)
(* or dropped: an entry is the last event exactly during its entry delay,  *)
(* and a siren is always explained by what started it.                     *)
LastEventExplains ==
  /\ mon.last = "entry_delay" <=> mon.fsm.state = "PENDING"
  /\ mon.fsm.state = "TRIGGERED" => mon.last \in {"immediate", "entry_delay_expired"}

(* While nothing was dropped, the queue tells a possible story: an expired *)
(* entry delay follows its entry directly, an entry is followed by its     *)
(* outcome, and the newest event is the last one.                          *)
QueueTellsTheStory ==
  ~mon.dropped =>
    /\ \A i \in 1..(Len(mon.queue) - 1) :
         /\ mon.queue[i + 1] = "entry_delay_expired" => mon.queue[i] = "entry_delay"
         /\ mon.queue[i] = "entry_delay" =>
              mon.queue[i + 1] \in {"entry_delay_expired", "disarmed"}
    /\ mon.queue # <<>> => mon.queue[Len(mon.queue)] = mon.last
=============================================================================
