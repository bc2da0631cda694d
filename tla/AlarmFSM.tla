------------------------------ MODULE AlarmFSM ------------------------------
(***************************************************************************)
(* include/services/AlarmFSM.h as an object: a host calls the methods in   *)
(* any order while the millisecond counter advances and wraps.             *)
(***************************************************************************)
EXTENDS AlarmFSMClass

VARIABLES
  fsm,     \* the object
  cfg,     \* its public settings, overwritten by syncFsmConfig()
  now,     \* the millisecond counter
  since,   \* history: true time since the state was entered, up to Wrap
  gap      \* history: time since the last tick()

vars == <<fsm, cfg, now, since, gap>>

Init ==
  /\ fsm = InitialFSM
  /\ cfg \in Configs
  /\ now \in Instants
  /\ since = 0
  /\ gap = 0

Age == since' = IF fsm'.state = fsm.state THEN since ELSE 0

Arm ==
  \E immediate \in BOOLEAN :
    /\ fsm' = ArmFSM(fsm, immediate, now)
    /\ Age
    /\ UNCHANGED <<cfg, now, gap>>

Disarm ==
  /\ fsm' = DisarmFSM(fsm)
  /\ Age
  /\ UNCHANGED <<cfg, now, gap>>

Tick ==
  /\ fsm' = TickFSM(fsm, cfg, now)
  /\ gap' = 0
  /\ Age
  /\ UNCHANGED <<cfg, now>>

ReportMotion ==
  \E qualifies \in BOOLEAN, behavior \in Behaviors :
    /\ fsm' = MotionFSM(fsm, cfg, qualifies, behavior, now)
    /\ Age
    /\ UNCHANGED <<cfg, now, gap>>

Reconfigure == cfg' \in Configs /\ UNCHANGED <<fsm, now, since, gap>>

(* The counter advances, and wraps; the host keeps calling tick(). *)
TimePasses ==
  \E d \in 1..MaxGap :
    /\ gap + d <= MaxGap
    /\ gap' = gap + d
    /\ now' = IF now + d < Wrap THEN now + d ELSE now + d - Wrap
    /\ since' = IF since + d < Wrap THEN since + d ELSE Wrap
    /\ UNCHANGED <<fsm, cfg>>

Next ==
  \/ Arm
  \/ Disarm
  \/ Tick
  \/ ReportMotion
  \/ Reconfigure
  \/ TimePasses

Spec == Init /\ [][Next]_vars

(* The main loop calls update(), and with it tick(), forever. *)
FairSpec == Spec /\ WF_vars(Tick) /\ WF_vars(TimePasses)

-----------------------------------------------------------------------------
TypeOK ==
  /\ fsm \in FSMType
  /\ cfg \in Configs
  /\ now \in Instants
  /\ since \in 0..Wrap
  /\ gap \in 0..MaxGap

(* The 32-bit difference tick() compares is the true waiting time, however *)
(* often the counter has wrapped; where no timeout may run (TRIGGERED with *)
(* auto-silence off) it never exceeds it.                                  *)
TimersTellTheTruth ==
  /\ fsm.state = "ARMING" => Elapsed(now, fsm.exitStart) = since
  /\ fsm.state = "PENDING" => Elapsed(now, fsm.entryStart) = since
  /\ fsm.state = "TRIGGERED" => Elapsed(now, fsm.triggerStart) <= since

(* An entry or exit delay is over at most one loop period after its end,   *)
(* also when the counter wraps in the middle of it (tick()).               *)
DelaysEnd ==
  fsm.state \in {"ARMING", "PENDING"} => since <= MaxDelay + gap

(* The debounce counter counts evidence of one uninterrupted guard: no     *)
(* frame seen in another state, or before a disarm, can count towards an   *)
(* alarm (arm(), disarm(), reportMotion()).                                *)
EvidenceIsOfThisGuard == fsm.debounce > 0 => fsm.state = "ARMED"

(* The firmware's state machine keeps the promises of AlarmTimer: no delay *)
(* is cut short, no alarm comes without its debounce, and no state is      *)
(* entered in another way than the state diagram of README.md has it.      *)
Promise == INSTANCE AlarmTimer WITH
  mode <- fsm.state, age <- since, streak <- fsm.debounce,
  AgeCap <- Wrap, MaxStep <- MaxGap
KeepsThePromise == Promise!Spec

(* An intruder in the entry delay is either disarmed or announced. *)
EntryResolves == fsm.state = "PENDING" ~> fsm.state \in {"TRIGGERED", "DISARMED"}

(* A siren with a timeout does not sound for ever. *)
SirenStops ==
  fsm.state = "TRIGGERED" ~> (fsm.state # "TRIGGERED" \/ cfg.triggerTimeout = 0)
=============================================================================
