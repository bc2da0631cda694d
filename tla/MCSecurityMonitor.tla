------------------------- MODULE MCSecurityMonitor -------------------------
(* SecurityMonitor and the radar it watches over.  What the monitor gets   *)
(* of the radar is any frame, so the two share no variable, and each is    *)
(* checked by itself: `subject' says which one this behaviour runs.        *)
EXTENDS SecurityMonitor, Radar

VARIABLE subject

(* Two settings that differ in what the trigger timeout does, with delays  *)
(* short enough that each state's timer can expire in a few steps.         *)
Setting(rearm, frames) ==
  [entryDelay |-> 1, exitDelay |-> 1, triggerTimeout |-> 1,
   autoRearm |-> rearm, debounceFrames |-> frames]

Rearming == {Setting(TRUE, 2)}
Disarming == {Setting(FALSE, 1)}
Both == Rearming \cup Disarming

OnMonitor == subject = "monitor" /\ UNCHANGED <<subject, radarVars>>
OnRadar == subject = "radar" /\ UNCHANGED <<subject, vars>>

mcVars == <<subject, vars, radarVars>>

(* Of the ways to begin, a part that rests has one. *)
MCInit ==
  /\ subject \in {"monitor", "radar"}
  /\ Init /\ RadarInit
  /\ subject # "monitor" => cfg \in Rearming
  /\ subject # "radar" =>
       sensor = [power |-> FALSE, config |-> FALSE, eng |-> FALSE, speed |-> "slow",
                 old |-> FALSE, target |-> FALSE]

(* The actions one by one, so that TLC tells for each whether it happens.  *)
MCNext ==
  \/ OnMonitor /\ WebArm
  \/ OnMonitor /\ LoopArm
  \/ OnMonitor /\ Disarm
  \/ OnMonitor /\ Update
  \/ OnMonitor /\ ProcessRadarData
  \/ OnMonitor /\ ConsumeAlarmEvent
  \/ OnMonitor /\ Begin
  \/ OnMonitor /\ Restore
  \/ OnMonitor /\ TimePasses
  \/ OnMonitor /\ Restart
  \/ OnMonitor /\ RestartWhilePersisting
  \/ OnRadar /\ UpdateFrame
  \/ OnRadar /\ UpdateSilent
  \/ OnRadar /\ Age
  \/ OnRadar /\ RadarBoot
  \/ OnRadar /\ Configure
  \/ OnRadar /\ Query
  \/ OnRadar /\ RestartRadar
  \/ OnRadar /\ SetEngineering
  \/ OnRadar /\ Suspend
  \/ OnRadar /\ Stop
  \/ OnRadar /\ ResumeTask
  \/ OnRadar /\ RestoreRadar
  \/ OnRadar /\ checkRadarHealth
  \/ OnRadar /\ PowerFails
  \/ OnRadar /\ PowerReturns
  \/ OnRadar /\ TargetMoves

MCSpec ==
  /\ MCInit /\ [][MCNext]_mcVars
  /\ WF_radarVars(OnRadar /\ UpdateFrame)
  /\ WF_radarVars(OnRadar /\ UpdateSilent)
  /\ WF_radarVars(OnRadar /\ Age)
=============================================================================
