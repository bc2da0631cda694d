----------------------------- MODULE MCStorage -----------------------------
(* What the device keeps in flash and works with in RAM: the zones, the    *)
(* models of CSI learning, and the event log.  The three share no variable *)
(* and each is checked by itself: `kept' says which one this behaviour     *)
(* runs.                                                                   *)
EXTENDS MCZoneConfig, CsiModel, EventLog, TLC

VARIABLE kept

OnZones == kept = "zones" /\ UNCHANGED <<kept, csiModelVars, logVars>>
OnModel == kept = "models" /\ UNCHANGED <<kept, vars, logVars>>
OnEvents == kept = "events" /\ UNCHANGED <<kept, vars, csiModelVars>>

mcVars == <<kept, vars, csiModelVars, logVars>>

(* Of the ways to begin, a part that rests has one. *)
MCInit ==
  /\ kept \in {"zones", "models", "events"}
  /\ Init /\ CsiModelInit /\ LogInit
  /\ kept # "models" => models.act = NoModel /\ ~modelNvs.legacy

(* The actions one by one, so that TLC tells for each whether it happens.  *)
MCNext ==
  \/ OnZones /\ PostZones
  \/ OnZones /\ LearnRead
  \/ OnZones /\ LearnWrite
  \/ OnZones /\ TakePending
  \/ OnZones /\ SaveZonesToNVS
  \/ OnZones /\ UpdateZonesFromJSON
  \/ OnZones /\ Restart
  \/ OnModel /\ \E cmd \in Commands, sound \in BOOLEAN : submit(cmd, sound)
  \/ OnModel /\ poll
  \/ OnModel /\ RaiseAbandoned
  \/ OnModel /\ TakeBack
  \/ OnModel /\ LastPoll
  \/ OnModel /\ startSiteLearning
  \/ OnModel /\ stopSiteLearning
  \/ OnModel /\ claimCommand
  \/ OnModel /\ SwitchFirstWrite
  \/ OnModel /\ SwitchSecondWrite
  \/ OnModel /\ clearCandidate
  \/ OnModel /\ clearAll
  \/ OnModel /\ importCandidate
  \/ OnModel /\ CompleteRead
  \/ OnModel /\ CompleteWrite
  \/ OnModel /\ persistDrift
  \/ OnModel /\ FinishLearning
  \/ OnModel /\ DriftRead
  \/ OnModel /\ \E again \in BOOLEAN : DriftWrite(again)
  \/ OnModel /\ DriftPublish
  \/ OnModel /\ PowerCut
  \/ OnEvents /\ addEvent
  \/ OnEvents /\ \E t \in LogTasks : FlushBegins(t)
  \/ OnEvents /\ \E t \in LogTasks : OpenFails(t)
  \/ OnEvents /\ \E t \in LogTasks : NoFileAtAll(t)
  \/ OnEvents /\ \E t \in LogTasks : WriteSlot(t)
  \/ OnEvents /\ \E t \in LogTasks : SlotFails(t)
  \/ OnEvents /\ \E t \in LogTasks : Advance(t)
  \/ OnEvents /\ \E t \in LogTasks : WriteHeader(t)
  \/ OnEvents /\ \E t \in LogTasks : Mark(t)
  \/ OnEvents /\ ClearBuffer
  \/ OnEvents /\ ClearFile
  \/ OnEvents /\ LoadFromDisk

MCSpec == MCInit /\ [][MCNext]_mcVars

(* The tasks that flush are alike. *)
Symmetry == Permutations(LogTasks)
=============================================================================
