----------------------------- MODULE MCEvidence -----------------------------
(* The stations evidence passes on its way to the alarm: CSI sampling and  *)
(* its thresholds, the CSI verdict, the MLP's guard, the presence and the  *)
(* zones of a radar frame, and the fusion of them all.  They hand each     *)
(* other values that the next one takes as an arbitrary input, and share   *)
(* no variable, so each is checked by itself: `station' says which one     *)
(* this behaviour runs, the others rest in an initial state.               *)
EXTENDS MCFusion, ZoneLogic, CsiMotion, CsiMl, CsiSampling, Presence

VARIABLE station

csiVars == <<csiMotionVars, csiMlVars, samplingVars>>
mcVars == <<vars, zoneVars, csiVars, presenceVars, station>>

-----------------------------------------------------------------------------
(* A corridor seen by one radar: the hall nearest the door, the living     *)
(* room that must be reached through it, a fan behind a reflector zone,    *)
(* and gaps between them that belong to no zone.                           *)
Zone(name, min, max, behavior, prev) ==
  [name |-> name, min |-> min, max |-> max, enabled |-> TRUE,
   behavior |-> behavior, prev |-> prev]

House ==
  << Zone("hall", 1, 2, 0, ""), Zone("living", 2, 3, 0, "hall"),
     Zone("fan", 5, 5, 3, ""), Zone("pets", 6, 6, 2, "") >>

(* The same house with the fan moved. *)
Refitted == [House EXCEPT ![3] = Zone("fan", 4, 4, 3, "")]

(* The same house after the owner made the hall immediate, switched the    *)
(* living room off and dropped the pets' corner.                           *)
Rearranged ==
  << Zone("fan", 5, 5, 3, ""), Zone("hall", 1, 3, 1, ""),
     [Zone("living", 2, 3, 0, "hall") EXCEPT !.enabled = FALSE] >>

Houses == {House, Refitted, Rearranged}

(* Nobody, a cat and a man at the radar, and a man who sits further away.  *)
Seen(moving, static, distance, move, still) ==
  [moving |-> moving, static |-> static, distance |-> distance,
   move |-> move, still |-> still]

Visitors ==
  { Seen(FALSE, FALSE, 0, 0, 0), Seen(TRUE, FALSE, 1, 1, 0),
    Seen(TRUE, TRUE, 1, 2, 1), Seen(FALSE, TRUE, 3, 0, 2) }

-----------------------------------------------------------------------------
MCInit ==
  /\ station \in {"fusion", "zones", "motion", "ml", "sampling", "presence"}
  /\ Init /\ ZoneInit /\ CsiMotionInit /\ CsiMlInit /\ SamplingInit
  /\ PresenceInit
  /\ station # "fusion" => corroborate
  /\ station # "zones" => zones = House
  /\ station # "motion" => detector = EmptyDetector(TRUE) /\ ~retained
  /\ station # "sampling" => ap = CHOOSE a \in Aps : TRUE

AtFusion ==
  /\ station = "fusion"
  /\ UNCHANGED <<station, zoneVars, csiVars, presenceVars>>

AtZones ==
  /\ station = "zones"
  /\ UNCHANGED <<station, vars, csiVars, presenceVars>>

AtMotion ==
  /\ station = "motion"
  /\ UNCHANGED <<station, vars, zoneVars, csiMlVars, samplingVars,
                 presenceVars>>

AtMl ==
  /\ station = "ml"
  /\ UNCHANGED <<station, vars, zoneVars, csiMotionVars, samplingVars,
                 presenceVars>>

AtSampling ==
  /\ station = "sampling"
  /\ UNCHANGED <<station, vars, zoneVars, csiMotionVars, csiMlVars,
                 presenceVars>>

AtPresence ==
  /\ station = "presence"
  /\ UNCHANGED <<station, vars, zoneVars, csiVars>>

(* The actions one by one, so that TLC tells for each whether it happens.  *)
MCNext ==
  \/ AtFusion /\ Frame
  \/ AtFusion /\ TimePasses
  \/ AtFusion /\ Arm
  \/ AtFusion /\ Disarm
  \/ AtFusion /\ SetCorroborationEnabled
  \/ AtZones /\ ZoneFrame
  \/ AtZones /\ ArmZones
  \/ AtZones /\ SetZones
  \/ AtMotion /\ ProcessCSI
  \/ AtMotion /\ MotionTick
  \/ AtMotion /\ resetIdleBaseline
  \/ AtMotion /\ RestartWindow
  \/ AtMotion /\ SwitchModel
  \/ AtMotion /\ emitTestEdge
  \/ AtMotion /\ SessionChanges
  \/ AtMl /\ InferenceTick
  \/ AtMl /\ Distrust
  \/ AtMl /\ setMlEnabled
  \/ AtSampling /\ Frames
  \/ AtSampling /\ \E to \in Aps : Roam(to)
  \/ AtSampling /\ SampleTick
  \/ AtSampling /\ Sense
  \/ AtSampling /\ calibrateThreshold
  \/ AtSampling /\ startSiteLearning
  \/ AtSampling /\ Cancel
  \/ AtSampling /\ switchDetectionToActive
  \/ AtSampling /\ clearLearnedSiteModel
  \/ AtPresence /\ \E r \in RadarFrames : update(r)
  \/ AtPresence /\ startStaticLearn
  \/ AtPresence /\ ReportLearning
  \/ AtPresence /\ processRadarData
  \/ AtPresence /\ GiveUpLook
  \/ AtPresence /\ PresenceTick

MCSpec ==
  /\ MCInit /\ [][MCNext]_mcVars
  /\ WF_csiMotionVars(AtMotion /\ MotionTick)
=============================================================================
