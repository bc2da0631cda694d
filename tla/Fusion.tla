------------------------------- MODULE Fusion -------------------------------
(***************************************************************************)
(* The evidence chain of SecurityMonitor::processRadarData(): radar, CSI   *)
(* variance and the MLP are fused into a presence verdict, the verdict     *)
(* qualifies a frame or not, include/services/CorroborationWindow.h may    *)
(* hold it back, and AlarmFSM counts it.                                   *)
(*                                                                         *)
(* Scores, probabilities and confidences are percentages.  A time stamp is *)
(* kept as its age, no further than the longest time it is compared with.  *)
(* "reading" is the radar's part after the static filter (ZoneLogic.tla):  *)
(* nothing, some energy, or energy above the alarm threshold.              *)
(***************************************************************************)
EXTENDS AlarmFSMClass

CONSTANTS
  SuppressFrames,  \* CSI_SUPPRESS_FRAMES: 6
  HoldTime,        \* CSI_ONLY_HOLD_MS: 3 s
  MinScore,        \* CSI_ONLY_MIN_SCORE: 40
  MlMargin,        \* mlThreshold + 0.2: the MLP is strongly convinced
  ConfThreshold,   \* confThreshold: 60
  WindowTime,      \* windowMs: 8 s
  Snapshots,       \* what CSI may report: subset of SnapshotType
  Corroborations   \* the values _corroborationEnabled is set to

SnapshotType ==
  [motion : BOOLEAN, ml : BOOLEAN, score : 0..100, prob : 0..100,
   breathing : BOOLEAN]

ASSUME FusionAssumption ==
  /\ SuppressFrames \in Nat \ {0} /\ HoldTime \in Nat /\ WindowTime \in Nat
  /\ Snapshots \subseteq SnapshotType
  /\ Corroborations \subseteq BOOLEAN

Readings == {"none", "weak", "strong"}
Sources == {"radar", "csi", "ml", "stale"}
(* No age beyond this one is told apart. *)
AgeCap == IF HoldTime > WindowTime THEN HoldTime ELSE WindowTime + 1
Timers == [on : BOOLEAN, age : 0..AgeCap]
Off == [on |-> FALSE, age |-> 0]
Started == [on |-> TRUE, age |-> 0]

VARIABLES
  fsm,          \* the alarm state machine (time stamps left at zero)
  cfg,          \* its settings
  fused,        \* the latest frame's verdict: source, presence, confidence, reading
  suppress,     \* _csiSuppressCount, no further than SuppressFrames
  hold,         \* _csiOnlyStart, as a timer
  window,       \* the corroboration window: its timer and first source
  corroborate,  \* _corroborationEnabled
  seen          \* history: what the latest armed frames had in common

vars == <<fsm, cfg, fused, suppress, hold, window, corroborate, seen>>

Closed == [timer |-> Off, source |-> {}]
Unseen == [primary |-> 0, strong |-> 0, strongFor |-> Off]

Init ==
  /\ fsm = InitialFSM
  /\ cfg \in Configs
  /\ fused = [source |-> {}, presence |-> FALSE, confidence |-> 0,
              reading |-> "none"]
  /\ suppress = 0
  /\ hold = Off
  /\ window = Closed
  /\ corroborate \in Corroborations
  /\ seen = Unseen

-----------------------------------------------------------------------------
(* One frame.  s is the CSI snapshot.                                      *)

Source(reading, s) ==
  {x \in {"radar", "csi", "ml"} :
     \/ x = "radar" /\ reading # "none"
     \/ x = "csi" /\ s.motion
     \/ x = "ml" /\ s.ml}

CsiOnlyConfidence(s) ==
  LET c == 40 + (30 * s.score) \div 100 + (IF s.breathing THEN 10 ELSE 0)
              + (IF s.ml THEN (20 * s.prob) \div 100 ELSE 0)
  IN  IF c < 100 THEN c ELSE 100

Verdict(presence, confidence, count, timer) ==
  [presence |-> presence, confidence |-> confidence,
   suppress |-> count, hold |-> timer]

Disagreeing == IF suppress < SuppressFrames THEN suppress + 1 ELSE suppress
Held == IF hold.on THEN hold ELSE Started
HeldLongEnough(s) == Held.age >= (IF s.ml THEN HoldTime \div 3 ELSE HoldTime)

(* The decision table: the MLP breaks ties between radar and variance. *)
Fuse(reading, s) ==
  LET radar == reading # "none"
  IN  CASE radar /\ s.motion ->
             Verdict(TRUE, IF s.ml THEN 100 ELSE 90 + s.score \div 10, 0, Off)
        [] radar /\ ~s.motion /\ s.ml ->
             Verdict(TRUE, 60 + (20 * s.prob) \div 100, 0, hold)
        [] radar /\ ~s.motion /\ ~s.ml ->
             IF Disagreeing >= SuppressFrames
             THEN Verdict(FALSE, 20, Disagreeing, hold)
             ELSE Verdict(TRUE, 50, Disagreeing, hold)
        [] ~radar /\ s.motion /\ ~(s.score < MinScore /\ ~s.ml) ->
             IF HeldLongEnough(s)
             THEN Verdict(TRUE, CsiOnlyConfidence(s), 0, Held)
             ELSE Verdict(FALSE, 20, 0, Held)
        [] ~radar /\ s.motion /\ s.score < MinScore /\ ~s.ml ->
             Verdict(FALSE, 10, 0, Off)
        [] ~radar /\ ~s.motion /\ s.ml ->
             IF s.prob > MlMargin
             THEN Verdict(TRUE, (30 * s.prob) \div 100, 0, Off)
             ELSE Verdict(FALSE, 10, 0, Off)
        [] OTHER -> Verdict(FALSE, 0, 0, Off)

(* Without usable CSI the radar decides alone. *)
RadarOnly(reading) ==
  Verdict(reading # "none", IF reading # "none" THEN 70 ELSE 0, suppress, hold)

RadarQualifies(reading) == reading = "strong"

CsiOnlyAnySourceWrong(reading, presence, source) ==
  ~RadarQualifies(reading) /\ presence /\ "radar" \notin source

CsiOnlyQualifies(reading, presence, source) ==
  /\ ~RadarQualifies(reading)
  /\ presence
  /\ source \cap {"radar", "csi"} = {"csi"}

(* CorroborationWindow::evaluate(): the gate, and the window it leaves. *)
Corroborate(qualifies, confidence, source) ==
  CASE ~qualifies \/ confidence >= ConfThreshold -> <<"PASS", Closed>>
    [] qualifies /\ confidence < ConfThreshold /\ ~window.timer.on ->
         <<"HOLD", [timer |-> Started, source |-> source]>>
    [] qualifies /\ confidence < ConfThreshold /\ window.timer.on ->
         CASE source \ window.source # {} -> <<"PASS", Closed>>
           [] source \subseteq window.source /\ window.timer.age >= WindowTime ->
                <<"SUPPRESS", Closed>>
           [] OTHER -> <<"HOLD", window>>

(* A CSI-only detection has no zone. *)
Behavior(csiOnly, zoneBehavior) == IF csiOnly THEN 0 ELSE zoneBehavior

VetoWeakConfidenceWrong(gate, presence) == gate = "PASS" /\ presence

(* What reaches the state machine of a qualifying frame. *)
Admitted(gate, presence) == gate = "PASS"

Streak(n, continues) ==
  IF ~continues THEN 0 ELSE IF n < CountMax THEN n + 1 ELSE n

Running(timer, continues) ==
  IF ~continues THEN Off ELSE IF timer.on THEN timer ELSE Started

(* The rest of the frame, from the verdict to the state machine.           *)
Judge(v, source, reading, zoneBehavior) ==
  LET csiOnly == CsiOnlyQualifies(reading, v.presence, source)
      armed == fsm.state = "ARMED"
      strong == armed /\ reading = "strong" /\ zoneBehavior # 2
      qualifies == armed /\ (RadarQualifies(reading) \/ csiOnly)
      gate == IF corroborate THEN Corroborate(qualifies, v.confidence, source)
              ELSE <<"PASS", window>>
  IN  /\ fused' = [source |-> source, presence |-> v.presence,
                   confidence |-> v.confidence, reading |-> reading]
      /\ suppress' = v.suppress
      /\ hold' = v.hold
      /\ window' = gate[2]
      /\ fsm' = MotionFSM(fsm, cfg, qualifies /\ Admitted(gate[1], v.presence),
                          Behavior(csiOnly, zoneBehavior), 0)
      /\ seen' =
           [primary |-> Streak(seen.primary,
                               armed /\ (reading = "strong" \/ "csi" \in source)),
            strong |-> Streak(seen.strong, strong),
            strongFor |-> Running(seen.strongFor, strong)]
      /\ UNCHANGED <<cfg, corroborate>>

(* A frame while CSI has a snapshot to offer. *)
FusedFrame ==
  \E reading \in Readings, s \in Snapshots, zoneBehavior \in 0..2 :
    Judge(Fuse(reading, s), Source(reading, s), reading, zoneBehavior)

(* ... while there is no CSI, its snapshot cannot be read, or (starved) it *)
(* gets no frames.                                                         *)
RadarFrame ==
  \E reading \in Readings, starved \in BOOLEAN, zoneBehavior \in 0..2 :
    Judge(RadarOnly(reading),
          {x \in {"radar", "stale"} :
             \/ x = "radar" /\ reading # "none"
             \/ x = "stale" /\ starved},
          reading, zoneBehavior)

Frame == FusedFrame \/ RadarFrame

Older(timer) ==
  IF timer.on /\ timer.age < AgeCap
  THEN [timer EXCEPT !.age = @ + 1] ELSE timer

TimePasses ==
  /\ hold' = Older(hold)
  /\ window' = [window EXCEPT !.timer = Older(@)]
  /\ seen' = [seen EXCEPT !.strongFor = Older(@)]
  /\ UNCHANGED <<fsm, cfg, fused, suppress, corroborate>>

(* Neither arming nor disarming touches the evidence gathered so far. *)
Arm ==
  /\ fsm' = ArmFSM(fsm, TRUE, 0)
  /\ seen' = IF fsm.state = "DISARMED" THEN Unseen ELSE seen
  /\ UNCHANGED <<cfg, fused, suppress, hold, window, corroborate>>

Disarm ==
  /\ fsm' = DisarmFSM(fsm)
  /\ UNCHANGED <<cfg, fused, suppress, hold, window, corroborate, seen>>

(* Switching corroboration off closes the window. *)
SetCorroborationEnabled ==
  /\ corroborate' \in Corroborations
  /\ window' = IF corroborate' THEN window ELSE Closed
  /\ seen' = [seen EXCEPT !.strong = 0, !.strongFor = Off]
  /\ UNCHANGED <<fsm, cfg, fused, suppress, hold>>

Next == Frame \/ TimePasses \/ Arm \/ Disarm \/ SetCorroborationEnabled

Spec == Init /\ [][Next]_vars

-----------------------------------------------------------------------------
TypeOK ==
  /\ fsm \in FSMType /\ cfg \in Configs
  /\ fused \in [source : SUBSET Sources, presence : BOOLEAN,
                confidence : 0..100, reading : Readings]
  /\ suppress \in 0..SuppressFrames
  /\ hold \in Timers
  /\ window \in [timer : Timers, source : SUBSET Sources]
  /\ corroborate \in Corroborations

Alarms == fsm.state = "ARMED" /\ fsm'.state \in {"PENDING", "TRIGGERED"}

(* README.md: ML is a tiebreaker, not a primary trigger.  An alarm takes   *)
(* debounceFrames armed frames in a row that each had strong radar energy  *)
(* or CSI motion, however presence was explained meanwhile.                *)
AlarmNeedsPrimaryEvidence ==
  [][Alarms => seen'.primary >= cfg.debounceFrames]_vars

(* README.md: a CSI-only detection gets the entry delay.  Only a radar     *)
(* frame, which has a zone, sets the siren off at once.                    *)
ImmediateNeedsRadar ==
  [][Alarms /\ fsm'.state = "TRIGGERED" => fused'.reading = "strong"]_vars

(* SecurityMonitor.cpp: radar above the alarm energy threshold qualifies   *)
(* unconditionally, CSI disagreement must not veto the armed path.  Without *)
(* corroboration, debounceFrames such frames in a row outside ignore zones *)
(* always end the guard, whatever CSI and the fusion verdict say.          *)
StrongRadarAlarms ==
  [][fsm'.state = "ARMED" /\ ~corroborate /\ Frame =>
       seen'.strong < RequiredFrames(cfg)]_vars

(* The same with corroboration, which may hold such frames back, but no    *)
(* longer than its window lasts.                                           *)
StrongRadarIsNotVetoed ==
  [][fsm'.state = "ARMED" /\ seen'.strong >= RequiredFrames(cfg) /\ Frame =>
       corroborate /\ seen'.strongFor.age <= WindowTime]_vars
=============================================================================
