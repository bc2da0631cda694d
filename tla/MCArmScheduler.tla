--------------------------- MODULE MCArmScheduler ---------------------------
(* What loop() does by the clock: the schedule and auto-arm over two days  *)
(* of three minutes (the schedule acts in the first and the last of them,  *)
(* auto-arm is due after one and a half minutes), the recoveries and       *)
(* restarts of Supervision, and the checks of Vigilance.  They share no    *)
(* variable, and each is checked by itself: `subject' says which one this  *)
(* behaviour runs.                                                         *)
EXTENDS ArmScheduler, Supervision, Vigilance

VARIABLE subject

Subjects == {"schedule", "restarts", "sensors", "cover", "peers"}

Runs(s) == subject = s /\ UNCHANGED subject
OnSchedule == Runs("schedule") /\ UNCHANGED <<supervisionVars, vigilanceVars>>
OnRestarts == Runs("restarts") /\ UNCHANGED <<vars, vigilanceVars>>
OnSensors == Runs("sensors") /\ UNCHANGED <<vars, supervisionVars>>
OnCover == Runs("cover") /\ UNCHANGED <<vars, supervisionVars>>
OnPeers == Runs("peers") /\ UNCHANGED <<vars, supervisionVars>>

mcVars == <<subject, vars, supervisionVars, vigilanceVars>>

(* Of the ways to begin, a part that rests has one. *)
MCInit ==
  /\ subject \in Subjects
  /\ Init /\ SupervisionInit /\ VigilanceInit
  /\ subject # "schedule" => clock = [day |-> 0, half |-> 0]
  /\ subject # "restarts" => ~unconfirmed /\ ~inhibit

(* The actions one by one, so that TLC tells for each whether it happens.  *)
MCNext ==
  \/ OnSchedule /\ Schedule
  \/ OnSchedule /\ ScheduledArm
  \/ OnSchedule /\ LookAtDisarm
  \/ OnSchedule /\ ScheduledDisarm
  \/ OnSchedule /\ LookAtPresence
  \/ OnSchedule /\ AutoArm
  \/ OnSchedule /\ UserArm
  \/ OnSchedule /\ Alarm
  \/ OnSchedule /\ GuardEnds
  \/ OnSchedule /\ HalfMinutePasses
  \/ OnSchedule /\ Restart
  \/ OnRestarts /\ LoopPass
  \/ OnRestarts /\ LoopRestart
  \/ OnRestarts /\ WatchdogPass
  \/ OnRestarts /\ WatchdogRestart
  \/ OnRestarts /\ PassTick
  \/ OnRestarts /\ OutOfMemory
  \/ OnRestarts /\ Crash
  \/ OnRestarts /\ LinkFails
  \/ OnRestarts /\ LinkReturns
  \/ OnRestarts /\ BrokerTurns
  \/ OnRestarts /\ OtaTurns
  \/ OnRestarts /\ InhibitTurns
  \/ OnSensors /\ checkSystemHealth
  \/ OnCover /\ \E covered \in BOOLEAN : checkTamperState(covered)
  \/ OnCover /\ CoverTick
  \/ OnPeers /\ \E n \in Nodes : supervisionPeerSeen(n)
  \/ OnPeers /\ \E gap \in Gaps : supervisionCheck(gap)

(* Time goes on in the node as well as outside. *)
MCSpec == MCInit /\ [][MCNext]_mcVars /\ WF_supervisionVars(OnRestarts /\ Ticking)
=============================================================================
