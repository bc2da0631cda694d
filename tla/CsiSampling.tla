----------------------------- MODULE CsiSampling -----------------------------
(***************************************************************************)
(* Where the CSI thresholds come from: the second half of                  *)
(* CSIService::update() (src/src/services/CSIService.cpp) once a second    *)
(* feeds one variance sample to the calibration, the adaptive percentile   *)
(* and the learning of the quiet site, looks for a change of access point, *)
(* and raises a threshold that never goes quiet.                           *)
(*                                                                         *)
(* A sample is told by the access points whose frames are in the window it *)
(* is computed from, and by who moved.                                     *)
(***************************************************************************)
EXTENDS Naturals, FiniteSets

CONSTANTS
  Aps,            \* access points of the network
  LearnTicks,     \* length of a learning run
  LearnMin,       \* quiet samples a candidate needs
  CalibTicks,     \* length of a calibration
  StuckLimit,     \* STUCK_MOTION_LIMIT
  RaiseMax,       \* STUCK_RAISE_MAX
  AdaptiveMin     \* samples before the percentile counts

(* "No access point seen yet" is the all-zero BSSID, which none has.       *)
ASSUME SamplingAssumption == "none" \notin Aps

VARIABLES
  ap,             \* the access point the station is associated with
  lastBSSID,      \* the one update() has seen
  frames,         \* of which access points frames are in the turbulence window
  full,           \* _bufCount >= _windowSize
  motion,         \* _motionState
  radarPresent,   \* _radarPresent
  calib, learn,   \* the running calibration and learning
  quantiles,      \* _varHist: access points its samples came from
  ring,           \* _p95Buffer, likewise, with the number of samples
  adaptive,       \* _adaptiveThreshold: from whose samples, {} for none
  threshold,      \* _threshold: from whose samples, and how often raised
  stuck,          \* _stuckMotionCount
  candidate       \* the last candidate model and its quality report

samplingVars == <<ap, lastBSSID, frames, full, motion, radarPresent, calib, learn,
                  quantiles, ring, adaptive, threshold, stuck, candidate>>

NoBssid == "none"
NoCalib == [active |-> FALSE, left |-> 0, of |-> {}]
NoLearning == [active |-> FALSE, left |-> 0, of |-> {}, accepted |-> 0]
EmptyRing == [of |-> {}, count |-> 0]
Configured == [of |-> {}, raises |-> 0]
NoCandidate == [bssid |-> NoBssid, of |-> {}, report |-> {}]

SamplingInit ==
  /\ ap \in Aps
  /\ lastBSSID = NoBssid
  /\ frames = {} /\ full = FALSE
  /\ motion = FALSE /\ radarPresent = FALSE
  /\ calib = NoCalib /\ learn = NoLearning
  /\ quantiles = {} /\ ring = EmptyRing /\ adaptive = {}
  /\ threshold = Configured
  /\ stuck = 0
  /\ candidate = NoCandidate

-----------------------------------------------------------------------------
(* Frames.                                                                 *)

(* Frames fill the window; in time they push the old ones out.             *)
Frames ==
  /\ \/ frames' = frames \cup {ap} /\ full' \in {full, TRUE}
     \/ frames' = {ap} /\ full' = TRUE
  /\ UNCHANGED <<ap, lastBSSID, motion, radarPresent, calib, learn, quantiles, ring,
                 adaptive, threshold, stuck, candidate>>

(* A station roams once a tick at the most, and not before the first one.  *)
Roam(to) ==
  /\ to # ap
  /\ lastBSSID = ap
  /\ ap' = to
  /\ UNCHANGED <<lastBSSID, frames, full, motion, radarPresent, calib, learn, quantiles,
                 ring, adaptive, threshold, stuck, candidate>>

-----------------------------------------------------------------------------
(* The stages of a tick, in their order.                                   *)

(* A sample; the last one makes the threshold.                             *)
CalibrationEnds == calib.active /\ full /\ calib.left <= 1

Calibrated ==
  IF ~calib.active THEN calib
  ELSE IF CalibrationEnds THEN NoCalib
  ELSE [calib EXCEPT !.left = IF @ > 1 THEN @ - 1 ELSE @,
                     !.of = IF full THEN @ \cup frames ELSE @]

ThresholdAfterCalibration ==
  IF CalibrationEnds THEN [of |-> calib.of \cup frames, raises |-> 0] ELSE threshold

Roamed == lastBSSID # NoBssid /\ lastBSSID # ap

(* Wrong: what was learned stays, only the time starts again. *)
RestartedKeepsSamplesWrong == [learn EXCEPT !.left = LearnTicks]

(* The learning starts over, its _varHist does not. *)
LearnRestarted == [learn EXCEPT !.left = LearnTicks, !.of = {}, !.accepted = 0]

Learnt ==
  IF Roamed /\ learn.active THEN LearnRestarted ELSE learn

RingAfterRoam == IF Roamed THEN EmptyRing ELSE ring

(* resetIdleBaseline(), or the flush when a threshold is raised.           *)
Raises == motion /\ ~Roamed /\ stuck + 1 >= StuckLimit /\ ThresholdAfterCalibration.raises < RaiseMax
Flushed == Roamed \/ Raises
SampleReady == full /\ ~Flushed

Ring ==
  LET old == RingAfterRoam IN
    IF SampleReady
    THEN [of |-> old.of \cup frames, count |-> IF old.count < AdaptiveMin THEN old.count + 1 ELSE old.count]
    ELSE old

(* The percentile is taken every few samples. *)
AdaptiveChoices ==
  LET old == IF Roamed THEN {} ELSE adaptive IN
    IF SampleReady /\ Ring.count >= AdaptiveMin THEN {old, Ring.of} ELSE {old}

Quiet == ~motion /\ ~radarPresent

Accepts == SampleReady /\ Quiet

Sampled ==
  IF ~Learnt.active \/ ~SampleReady THEN Learnt
  ELSE [Learnt EXCEPT !.of = IF Accepts THEN @ \cup frames ELSE @,
                      !.accepted = IF Accepts /\ @ < LearnMin THEN @ + 1 ELSE @,
                      !.left = IF @ > 0 THEN @ - 1 ELSE @]

LearningEnds == Learnt.active /\ SampleReady /\ Sampled.left = 0

(* _finalizeSiteLearning() *)
Finalized ==
  IF LearningEnds /\ Sampled.accepted >= LearnMin
  THEN [bssid |-> ap, of |-> Sampled.of, report |-> quantiles \cup Sampled.of]
  ELSE candidate

Stuck == IF ~motion \/ Roamed THEN 0 ELSE IF Raises THEN 0
         ELSE IF stuck < StuckLimit THEN stuck + 1 ELSE stuck

SampleTick ==
  /\ calib' = Calibrated
  /\ threshold' = [ThresholdAfterCalibration EXCEPT !.raises = IF Raises THEN @ + 1 ELSE @]
  /\ lastBSSID' = ap
  /\ frames' = IF Flushed THEN {} ELSE frames
  /\ full' = SampleReady
  /\ ring' = Ring
  /\ adaptive' \in AdaptiveChoices
  /\ learn' = IF LearningEnds THEN NoLearning ELSE Sampled
  /\ quantiles' = IF Learnt.active /\ Accepts THEN quantiles \cup frames ELSE quantiles
  /\ candidate' = Finalized
  /\ stuck' = Stuck
  /\ motion' = (motion /\ ~Roamed)
  /\ UNCHANGED <<ap, radarPresent>>

-----------------------------------------------------------------------------
(* The detector, the radar and the requests.                               *)

Sense ==
  /\ motion' \in BOOLEAN /\ radarPresent' \in BOOLEAN
  /\ UNCHANGED <<ap, lastBSSID, frames, full, calib, learn, quantiles, ring, adaptive,
                 threshold, stuck, candidate>>

(* The coordinator allows one of them at a time.                           *)
Free == ~calib.active /\ ~learn.active

(* By a request, or by update() itself after a quiet while.                *)
calibrateThreshold ==
  /\ Free
  /\ calib' = [active |-> TRUE, left |-> CalibTicks, of |-> {}]
  /\ UNCHANGED <<ap, lastBSSID, frames, full, motion, radarPresent, learn, quantiles, ring,
                 adaptive, threshold, stuck, candidate>>

startSiteLearning ==
  /\ Free
  /\ learn' = [NoLearning EXCEPT !.active = TRUE, !.left = LearnTicks]
  /\ quantiles' = {}
  /\ frames' = {} /\ full' = FALSE /\ motion' = FALSE
  /\ UNCHANGED <<ap, lastBSSID, radarPresent, calib, ring, adaptive, threshold, stuck, candidate>>

(* Stopped by a request, or by the coordinator's timeout. *)
Cancel ==
  /\ calib.active \/ learn.active
  /\ calib' = NoCalib /\ learn' = NoLearning
  /\ UNCHANGED <<ap, lastBSSID, frames, full, motion, radarPresent, quantiles, ring, adaptive,
                 threshold, stuck, candidate>>

(* _resetShortTermState(), whose window and percentile are of this module. *)
ShortTermReset ==
  /\ frames' = {} /\ full' = FALSE
  /\ ring' = EmptyRing /\ adaptive' = {}

(* A candidate is applied or the model before it comes back, with the      *)
(* threshold learned at its access point.  The request is refused during a *)
(* learning, but may have been let through just before.                    *)
switchDetectionToActive ==
  /\ ShortTermReset
  /\ \E a \in Aps : threshold' = [of |-> {a}, raises |-> 0]
  /\ stuck' = 0
  /\ UNCHANGED <<ap, lastBSSID, motion, radarPresent, calib, learn, quantiles, candidate>>

(* All models are wiped, whether or not the store could.                   *)
clearLearnedSiteModel ==
  /\ ShortTermReset
  /\ learn' = NoLearning
  /\ candidate' \in {NoCandidate, candidate}
  /\ UNCHANGED <<ap, lastBSSID, motion, radarPresent, calib, quantiles, threshold, stuck>>

SamplingNext ==
  \/ Frames
  \/ \E to \in Aps : Roam(to)
  \/ SampleTick
  \/ Sense
  \/ calibrateThreshold \/ startSiteLearning \/ Cancel
  \/ switchDetectionToActive \/ clearLearnedSiteModel

SamplingSpec == SamplingInit /\ [][SamplingNext]_samplingVars

-----------------------------------------------------------------------------
(* What every variable holds. *)
SamplingTypeOK ==
  /\ ap \in Aps /\ lastBSSID \in Aps \cup {NoBssid}
  /\ frames \subseteq Aps /\ {full, motion, radarPresent} \subseteq BOOLEAN
  /\ calib.left \in 0..CalibTicks /\ learn.left \in 0..LearnTicks
  /\ learn.accepted \in 0..LearnMin /\ learn.of \subseteq Aps
  /\ quantiles \subseteq Aps /\ ring.of \subseteq Aps /\ adaptive \subseteq Aps
  /\ threshold.raises \in 0..RaiseMax /\ stuck \in 0..StuckLimit

(* A candidate is learned from samples of the one access point it names,   *)
(* and the adaptive threshold from those of the one last seen, wherever    *)
(* the station roams and whatever models come and go meanwhile (the reset  *)
(* on a change of BSSID).                                                  *)
OneApPerBaseline ==
  /\ candidate.of \subseteq {candidate.bssid}
  /\ adaptive \subseteq {lastBSSID}

(* The same of the quality report that is kept with the candidate          *)
(* (CSIService.cpp:1664, "discard accumulated stats and restart the frames *)
(* on the new AP").                                                        *)
ReportIsOfTheCandidate == candidate.report \subseteq candidate.of

(* The same of a calibrated threshold. *)
CalibrationIsOfOneAp == Cardinality(threshold.of) <= 1
=============================================================================
