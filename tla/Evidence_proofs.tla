--------------------------- MODULE Evidence_proofs ---------------------------
(***************************************************************************)
(* Proofs about the stations that evidence passes: where the CSI           *)
(* thresholds come from (CsiSampling), the CSI verdict (CsiMotion), the    *)
(* trust in the neural net (CsiMl), the presence the radar reports         *)
(* (Presence), what makes an alarm of them (Fusion), and the zones and the *)
(* entry path (ZoneLogic), for every set of access points and zones and    *)
(* every duration and count that their assumptions allow.                  *)
(***************************************************************************)
EXTENDS Fusion, ZoneLogic, CsiSampling, CsiMotion, CsiMl, Presence, AlarmFSMClass_proofs,
        FiniteSetTheorems, SequenceTheorems, WellFoundedInduction, TLAPS

-----------------------------------------------------------------------------
(* CsiSampling: one access point for each baseline.                        *)

(* Whose samples may be in a baseline.                                     *)
LastSeen == IF lastBSSID = NoBssid THEN {} ELSE {lastBSSID}

(* A roam is noticed in the next tick, before a sample is taken: until     *)
(* then frames of two access points are in the window.                     *)
FramesAreRecent ==
  /\ ap \in Aps /\ lastBSSID \in Aps \cup {NoBssid}
  /\ frames \subseteq LastSeen \cup {ap}

BaselinesAreOfOneAp ==
  /\ learn.of \subseteq LastSeen
  /\ ~learn.active => learn.of = {}
  /\ ring.of \subseteq LastSeen
  /\ adaptive \subseteq LastSeen

CandidateIsClean ==
  /\ DOMAIN learn = {"active", "left", "of", "accepted"}
  /\ candidate.of \subseteq {candidate.bssid}

SamplingInv == FramesAreRecent /\ BaselinesAreOfOneAp /\ CandidateIsClean

LEMMA LearntIs ==
  ASSUME SamplingInv
  PROVE  /\ DOMAIN Learnt = {"active", "left", "of", "accepted"}
         /\ Roamed => Learnt.of = {}
         /\ ~Roamed => Learnt.of = learn.of
         /\ ~Learnt.active => Learnt.of = {}
<1>1. CASE Roamed /\ learn.active
  <2>1. Learnt = LearnRestarted
    BY <1>1 DEF Learnt
  <2>2. QED
    BY <2>1, <1>1 DEF LearnRestarted, SamplingInv, CandidateIsClean
<1>2. CASE ~(Roamed /\ learn.active)
  BY <1>2 DEF Learnt, SamplingInv, CandidateIsClean, BaselinesAreOfOneAp
<1>3. QED
  BY <1>1, <1>2

(* Unless the access point changed, all frames are of the one there is.    *)
LEMMA NotRoamed ==
  ASSUME SamplingInv, ~Roamed
  PROVE  frames \subseteq {ap} /\ LastSeen \subseteq {ap}
BY DEF SamplingInv, FramesAreRecent, LastSeen, Roamed

LEMMA SampledIs ==
  ASSUME SamplingInv
  PROVE  /\ DOMAIN Sampled = {"active", "left", "of", "accepted"}
         /\ Sampled.of \subseteq {ap}
         /\ ~Sampled.active => Sampled.of = {}
<1>1. Learnt.of \subseteq {ap}
  BY LearntIs, NotRoamed DEF SamplingInv, BaselinesAreOfOneAp
<1>2. CASE ~Learnt.active \/ ~SampleReady
  BY <1>1, <1>2, LearntIs DEF Sampled
<1>3. CASE Learnt.active /\ SampleReady
  <2>1. ~Roamed
    BY <1>3 DEF SampleReady, Flushed
  <2>2. frames \subseteq {ap}
    BY <2>1, NotRoamed
  <2>3. DOMAIN Sampled = DOMAIN Learnt /\ Sampled.active = Learnt.active
    BY <1>3, LearntIs DEF Sampled
  <2>4. Sampled.of = IF Accepts THEN Learnt.of \cup frames ELSE Learnt.of
    BY <1>3, LearntIs DEF Sampled
  <2>5. QED
    BY <1>1, <1>3, <2>2, <2>3, <2>4, LearntIs
<1>4. QED
  BY <1>2, <1>3

LEMMA RingIs ==
  ASSUME SamplingInv
  PROVE  Ring.of \subseteq {ap}
<1>1. RingAfterRoam.of \subseteq {ap}
  BY NotRoamed DEF RingAfterRoam, EmptyRing, SamplingInv, BaselinesAreOfOneAp
<1>2. Ring.of = IF SampleReady THEN RingAfterRoam.of \cup frames ELSE RingAfterRoam.of
  BY DEF Ring
<1>3. SampleReady => frames \subseteq {ap}
  BY NotRoamed DEF SampleReady, Flushed
<1>4. QED
  BY <1>1, <1>2, <1>3

LEMMA SampleTickStep ==
  ASSUME SamplingInv, SampleTick
  PROVE  SamplingInv'
<1>1. /\ ap' = ap /\ lastBSSID' = ap
      /\ frames' = IF Flushed THEN {} ELSE frames
      /\ ring' = Ring
      /\ adaptive' \in AdaptiveChoices
      /\ learn' = IF LearningEnds THEN NoLearning ELSE Sampled
      /\ candidate' = Finalized
  BY DEF SampleTick
<1>2. ap \in Aps /\ ap # NoBssid
  BY SamplingAssumption DEF SamplingInv, FramesAreRecent, NoBssid
<1>3. LastSeen' = {ap}
  BY <1>1, <1>2 DEF LastSeen
<1>4. FramesAreRecent'
  <2>1. ~Flushed => frames \subseteq {ap}
    BY NotRoamed DEF Flushed
  <2>2. frames' \subseteq {ap}
    BY <2>1, <1>1
  <2>3. QED
    BY <2>2, <1>1, <1>2, <1>3 DEF FramesAreRecent
<1>5. BaselinesAreOfOneAp'
  <2>1. learn'.of \subseteq {ap} /\ (~learn'.active => learn'.of = {})
    BY <1>1, SampledIs DEF NoLearning
  <2>2. adaptive' \subseteq {ap}
    <3>1. ~Roamed => adaptive \subseteq {ap}
      BY NotRoamed DEF SamplingInv, BaselinesAreOfOneAp
    <3>2. adaptive' \in {{}, Ring.of} \/ (~Roamed /\ adaptive' = adaptive)
      BY <1>1 DEF AdaptiveChoices
    <3>3. QED
      BY <3>1, <3>2, RingIs
  <2>3. QED
    BY <2>1, <2>2, <1>1, <1>3, RingIs DEF BaselinesAreOfOneAp
<1>6. CandidateIsClean'
  <2>1. DOMAIN learn' = {"active", "left", "of", "accepted"}
    BY <1>1, SampledIs DEF NoLearning
  <2>2. candidate'.of \subseteq {candidate'.bssid}
    <3>1. CASE candidate' = candidate
      BY <3>1 DEF SamplingInv, CandidateIsClean
    <3>2. CASE candidate' # candidate
      <4>1. candidate'.bssid = ap /\ candidate'.of = Sampled.of
        BY <1>1, <3>2 DEF Finalized
      <4>2. QED
        BY <4>1, SampledIs
    <3>3. QED
      BY <3>1, <3>2
  <2>3. QED
    BY <2>1, <2>2 DEF CandidateIsClean
<1>7. QED
  BY <1>4, <1>5, <1>6 DEF SamplingInv

LEMMA SamplingStep == SamplingInv /\ [SamplingNext]_samplingVars => SamplingInv'
<1> SUFFICES ASSUME SamplingInv, [SamplingNext]_samplingVars PROVE SamplingInv'
  OBVIOUS
<1> USE DEF SamplingInv
<1>1. CASE Frames
  <2>1. UNCHANGED <<ap, lastBSSID, learn, ring, adaptive, candidate>> /\ frames' \subseteq frames \cup {ap}
    BY <1>1 DEF Frames
  <2>2. QED
    BY <2>1 DEF FramesAreRecent, BaselinesAreOfOneAp, CandidateIsClean, LastSeen
<1>2. ASSUME NEW to \in Aps, Roam(to) PROVE SamplingInv'
  <2>1. /\ UNCHANGED <<lastBSSID, frames, learn, ring, adaptive, candidate>>
        /\ ap' = to /\ lastBSSID = ap
    BY <1>2 DEF Roam
  <2>2. LastSeen = {ap}
    BY <2>1, SamplingAssumption DEF FramesAreRecent, LastSeen, NoBssid
  <2>3. LastSeen' = LastSeen
    BY <2>1 DEF LastSeen
  <2>4. FramesAreRecent'
    BY <2>1, <2>2, <2>3 DEF FramesAreRecent
  <2>5. QED
    BY <2>1, <2>3, <2>4 DEF BaselinesAreOfOneAp, CandidateIsClean
<1>3. CASE SampleTick
  BY <1>3, SampleTickStep
<1>4. CASE Sense \/ calibrateThreshold \/ UNCHANGED samplingVars
  <2>1. UNCHANGED <<ap, lastBSSID, frames, learn, ring, adaptive, candidate>>
    BY <1>4 DEF Sense, calibrateThreshold, samplingVars
  <2>2. QED
    BY <2>1 DEF FramesAreRecent, BaselinesAreOfOneAp, CandidateIsClean, LastSeen
<1>5. CASE startSiteLearning \/ Cancel
  <2>1. /\ UNCHANGED <<ap, lastBSSID, ring, adaptive, candidate>>
        /\ frames' \in {frames, {}}
        /\ learn' = NoLearning \/ learn' = [NoLearning EXCEPT !.active = TRUE, !.left = LearnTicks]
    BY <1>5 DEF startSiteLearning, Cancel
  <2>2. DOMAIN learn' = {"active", "left", "of", "accepted"} /\ learn'.of = {}
    <3>1. CASE learn' = NoLearning
      BY <3>1 DEF NoLearning
    <3>2. CASE learn' = [NoLearning EXCEPT !.active = TRUE, !.left = LearnTicks]
      <4>1. learn' = [active |-> TRUE, left |-> LearnTicks, of |-> {}, accepted |-> 0]
        BY <3>2 DEF NoLearning
      <4>2. QED
        BY <4>1
    <3>3. QED
      BY <2>1, <3>1, <3>2
  <2>3. LastSeen' = LastSeen
    BY <2>1 DEF LastSeen
  <2>4. QED
    BY <2>1, <2>2, <2>3 DEF FramesAreRecent, BaselinesAreOfOneAp, CandidateIsClean
<1>6. CASE switchDetectionToActive \/ clearLearnedSiteModel
  <2>1. /\ UNCHANGED <<ap, lastBSSID>>
        /\ frames' = {} /\ ring' = EmptyRing /\ adaptive' = {}
        /\ learn' \in {learn, NoLearning} /\ candidate' \in {candidate, NoCandidate}
    BY <1>6 DEF switchDetectionToActive, clearLearnedSiteModel, ShortTermReset
  <2>2. DOMAIN learn' = DOMAIN learn /\ learn'.of \subseteq LastSeen /\ (~learn'.active => learn'.of = {})
    BY <2>1 DEF BaselinesAreOfOneAp, CandidateIsClean, NoLearning
  <2>3. candidate'.of \subseteq {candidate'.bssid}
    BY <2>1 DEF CandidateIsClean, NoCandidate
  <2>4. LastSeen' = LastSeen
    BY <2>1 DEF LastSeen
  <2>5. QED
    BY <2>1, <2>2, <2>3, <2>4
       DEF FramesAreRecent, BaselinesAreOfOneAp, CandidateIsClean, EmptyRing
<1>7. QED
  BY <1>1, <1>2, <1>3, <1>4, <1>5, <1>6 DEF SamplingNext

(* Wherever the station roams: a candidate is learned from samples of the  *)
(* one access point it names, and the adaptive threshold from those of the *)
(* one last seen.                                                          *)
THEOREM BaselinesKeepToTheirAp == SamplingSpec => []OneApPerBaseline
<1>1. SamplingInit => SamplingInv
  BY DEF SamplingInit, SamplingInv, FramesAreRecent, BaselinesAreOfOneAp, CandidateIsClean,
         LastSeen, NoLearning, EmptyRing, NoCandidate
<1>2. SamplingInv => OneApPerBaseline
  BY DEF SamplingInv, BaselinesAreOfOneAp, CandidateIsClean, LastSeen, OneApPerBaseline
<1>3. QED
  BY <1>1, <1>2, SamplingStep, PTL DEF SamplingSpec

-----------------------------------------------------------------------------
(* CsiMotion: a verdict of motion ends.                                    *)

LEMMA PushIs ==
  ASSUME NEW votes \in Seq(BOOLEAN), Len(votes) <= SmoothWindow, NEW raw \in BOOLEAN
  PROVE  /\ Push(votes, raw) \in Seq(BOOLEAN)
         /\ Len(Push(votes, raw)) = IF Len(votes) < SmoothWindow THEN Len(votes) + 1
                                                                 ELSE SmoothWindow
         /\ Push(votes, raw)[1] = raw
         /\ \A i \in 2 .. Len(Push(votes, raw)) : Push(votes, raw)[i] = votes[i - 1]
<1> DEFINE all == <<raw>> \o votes
           n == IF Len(votes) < SmoothWindow THEN Len(votes) + 1 ELSE SmoothWindow
<1>1. /\ all \in Seq(BOOLEAN) /\ Len(all) = Len(votes) + 1
      /\ all[1] = raw
      /\ \A i \in 2 .. Len(votes) + 1 : all[i] = votes[i - 1]
  OBVIOUS
<1>2. n \in 1 .. Len(all)
  BY <1>1, SmoothAssumption
<1> HIDE DEF all, n
<1>3. n \in Int /\ \A i \in 1 .. n : all[i] \in BOOLEAN
  BY <1>1, <1>2
<1>4. /\ SubSeq(all, 1, n) \in Seq(BOOLEAN)
      /\ Len(SubSeq(all, 1, n)) = n
      /\ \A i \in 1 .. n : SubSeq(all, 1, n)[i] = all[i]
  BY <1>1, <1>2, <1>3, SubSeqProperties
<1>5. Push(votes, raw) = SubSeq(all, 1, n)
  BY DEF Push, all, n
<1>6. \A i \in 2 .. n : SubSeq(all, 1, n)[i] = votes[i - 1]
  BY <1>1, <1>2, <1>4
<1>7. n = IF Len(votes) < SmoothWindow THEN Len(votes) + 1 ELSE SmoothWindow
  BY DEF n
<1>8. 1 \in 1 .. n
  BY <1>2
<1>9. QED
  BY <1>1, <1>4, <1>5, <1>6, <1>7, <1>8

(* The latest votes against motion are among all of them. *)
LEMMA NoesAtLeast ==
  ASSUME NEW votes \in Seq(BOOLEAN), NEW q \in 0 .. Len(votes),
         \A i \in 1 .. q : ~votes[i]
  PROVE  /\ Ayes(votes) \in Nat /\ Noes(votes) = Len(votes) - Ayes(votes)
         /\ Noes(votes) >= q
<1> DEFINE ayes == {i \in DOMAIN votes : votes[i]}
<1>1. Len(votes) \in Nat /\ DOMAIN votes = 1 .. Len(votes)
  OBVIOUS
<1>2. ayes \in SUBSET ((q + 1) .. Len(votes))
  <2> SUFFICES ASSUME NEW i \in ayes PROVE i \in (q + 1) .. Len(votes)
    OBVIOUS
  <2>1. i \in 1 .. Len(votes) /\ votes[i]
    BY <1>1
  <2>2. ~(i \in 1 .. q)
    BY <2>1
  <2>3. QED
    BY <2>1, <2>2, <1>1
<1>3. /\ IsFiniteSet((q + 1) .. Len(votes))
      /\ Cardinality((q + 1) .. Len(votes)) =
           IF q + 1 > Len(votes) THEN 0 ELSE Len(votes) - (q + 1) + 1
  <2>1. q + 1 \in Int /\ Len(votes) \in Int
    BY <1>1
  <2>2. QED
    BY <2>1, FS_Interval
<1>4. Cardinality((q + 1) .. Len(votes)) = Len(votes) - q
  BY <1>1, <1>3
<1>5. IsFiniteSet(ayes) /\ Cardinality(ayes) <= Cardinality((q + 1) .. Len(votes))
  BY <1>2, <1>3, FS_Subset
<1>6. Cardinality(ayes) \in Nat
  BY <1>5, FS_CardinalityType
<1>7. Ayes(votes) = Cardinality(ayes)
  BY DEF Ayes
<1> HIDE DEF ayes
<1>8. QED
  BY <1>1, <1>4, <1>5, <1>6, <1>7 DEF Noes

DetectorTyped ==
  /\ DOMAIN detector = {"full", "motion", "votes", "hold", "idleKnown"}
  /\ detector.votes \in Seq(BOOLEAN) /\ Len(detector.votes) <= SmoothWindow
  /\ detector.hold \in 0 .. HoldMax
  /\ quiet \in 0 .. SmoothExit + HoldMax

(* The latest votes are those of the quiet ticks; each tick has one.       *)
QuietVotes ==
  /\ \A i \in 1 .. Len(detector.votes) : i <= quiet => ~detector.votes[i]
  /\ quiet <= Len(detector.votes) \/ Len(detector.votes) = SmoothWindow

(* What of the quiet the votes do not explain the hold does.               *)
HoldExplains == detector.motion => quiet <= SmoothExit - 1 + detector.hold

MotionInv == DetectorTyped /\ QuietVotes /\ HoldExplains

(* A tick that decides, with its vote. *)
LEMMA DecidedStep ==
  ASSUME MotionInv, NEW level \in Levels, NEW breathes \in BOOLEAN,
         detector' = Decided(detector, level, breathes),
         quiet' = IF Raw(detector.motion, level) THEN 0
                  ELSE IF quiet < SmoothExit + HoldMax THEN quiet + 1 ELSE quiet
  PROVE  MotionInv'
<1>1. PICK raw \in BOOLEAN : raw <=> Raw(detector.motion, level)
  OBVIOUS
<1>2. PICK votes : votes = Push(detector.votes, Raw(detector.motion, level))
  OBVIOUS
<1>3. votes = Push(detector.votes, raw)
  BY <1>1, <1>2 DEF Raw
<1>4. PICK old : old = detector.votes
  OBVIOUS
<1>5. old \in Seq(BOOLEAN) /\ Len(old) <= SmoothWindow
  BY <1>4 DEF MotionInv, DetectorTyped
<1>6. /\ votes \in Seq(BOOLEAN)
      /\ Len(votes) = IF Len(old) < SmoothWindow THEN Len(old) + 1 ELSE SmoothWindow
      /\ votes[1] = raw
      /\ \A i \in 2 .. Len(votes) : votes[i] = old[i - 1]
  BY <1>3, <1>4, <1>5, PushIs
<1>7. quiet' = IF raw THEN 0 ELSE IF quiet < SmoothExit + HoldMax THEN quiet + 1 ELSE quiet
  BY <1>1
<1>8. SmoothWindow \in Nat /\ SmoothExit \in 1 .. SmoothWindow /\ SmoothEnter \in 1 .. SmoothWindow
      /\ HoldMax \in Nat /\ SmoothEnter + SmoothExit > SmoothWindow
  BY SmoothAssumption
<1>9. quiet \in 0 .. SmoothExit + HoldMax /\ quiet' \in 0 .. SmoothExit + HoldMax
  BY <1>7, <1>8 DEF MotionInv, DetectorTyped
<1>10. Len(old) \in Nat /\ Len(votes) \in 1 .. SmoothWindow
  BY <1>5, <1>6, <1>8
<1>11. \A i \in 1 .. Len(votes) : i <= quiet' => ~votes[i]
  <2> SUFFICES ASSUME NEW i \in 1 .. Len(votes), i <= quiet' PROVE ~votes[i]
    OBVIOUS
  <2>1. ~raw
    BY <1>7, <1>9
  <2>2. CASE i = 1
    BY <2>1, <2>2, <1>6
  <2>3. CASE i # 1
    <3>1. i \in 2 .. Len(votes) /\ i - 1 \in 1 .. Len(old) /\ i - 1 <= quiet
      BY <2>1, <2>3, <1>6, <1>7, <1>9, <1>10
    <3>2. ~old[i - 1]
      BY <3>1, <1>4 DEF MotionInv, QuietVotes
    <3>3. QED
      BY <3>1, <3>2, <1>6
  <2>4. QED
    BY <2>2, <2>3
<1>12. quiet' <= Len(votes) \/ Len(votes) = SmoothWindow
  <2>1. quiet <= Len(old) \/ Len(old) = SmoothWindow
    BY <1>4 DEF MotionInv, QuietVotes
  <2>2. QED
    BY <2>1, <1>5, <1>6, <1>7, <1>9, <1>10
<1>13. /\ Ayes(votes) \in Nat /\ Noes(votes) = Len(votes) - Ayes(votes)
       /\ quiet' >= SmoothExit => Noes(votes) >= SmoothExit
  <2>1. PICK q : q = IF quiet' <= Len(votes) THEN quiet' ELSE Len(votes)
    OBVIOUS
  <2>2. q \in 0 .. Len(votes) /\ q <= quiet' /\ (quiet' >= SmoothExit => q >= SmoothExit)
    BY <2>1, <1>8, <1>9, <1>10, <1>12
  <2>3. \A i \in 1 .. q : ~votes[i]
    BY <2>2, <1>9, <1>10, <1>11
  <2>4. /\ Ayes(votes) \in Nat /\ Noes(votes) = Len(votes) - Ayes(votes)
        /\ Noes(votes) >= q
    BY <2>2, <2>3, <1>6, NoesAtLeast
  <2>5. QED
    BY <2>2, <2>4, <1>8, <1>9, <1>10
<1>14. CASE BreathingHolds(detector, votes, breathes)
  <2>1. detector' = [detector EXCEPT !.votes = votes, !.hold = @ + 1]
    BY <1>2, <1>14 DEF Decided
  <2>2. /\ DOMAIN detector' = {"full", "motion", "votes", "hold", "idleKnown"}
        /\ detector'.votes = votes /\ detector'.hold = detector.hold + 1
        /\ detector'.motion = detector.motion
    BY <2>1 DEF MotionInv, DetectorTyped
  <2>3. detector.motion /\ detector.hold < HoldMax
    BY <1>14 DEF BreathingHolds
  <2>4. detector.hold \in 0 .. HoldMax /\ quiet <= SmoothExit - 1 + detector.hold
    BY <2>3 DEF MotionInv, DetectorTyped, HoldExplains
  <2>a. detector'.hold \in 0 .. HoldMax
    BY <2>2, <2>3, <2>4, <1>8
  <2>b. Len(votes) <= SmoothWindow
    BY <1>10
  <2>5. DetectorTyped'
    BY <2>2, <2>a, <2>b, <1>6, <1>9 DEF DetectorTyped
  <2>6. quiet' <= SmoothExit - 1 + detector'.hold
    BY <2>2, <2>4, <1>7, <1>8, <1>9
  <2>7. QED
    BY <2>2, <2>5, <2>6, <1>11, <1>12 DEF MotionInv, QuietVotes, HoldExplains
<1>15. CASE ~BreathingHolds(detector, votes, breathes)
  <2>1. PICK on : on = Smoothed(detector.motion, votes)
    OBVIOUS
  <2>2. detector' = [detector EXCEPT !.votes = votes, !.hold = 0, !.motion = on,
                                     !.idleKnown = @ \/ ~on]
    BY <2>1, <1>2, <1>15 DEF Decided
  <2>3. /\ DOMAIN detector' = {"full", "motion", "votes", "hold", "idleKnown"}
        /\ detector'.votes = votes /\ detector'.hold = 0
        /\ detector'.motion = on
    BY <2>2 DEF MotionInv, DetectorTyped
  <2>4. DetectorTyped'
    BY <2>3, <1>6, <1>8, <1>9, <1>10 DEF DetectorTyped
  <2>5. on => Noes(votes) < SmoothExit \/ Ayes(votes) >= SmoothEnter
    BY <2>1 DEF Smoothed
  <2>6. Noes(votes) < SmoothExit \/ Ayes(votes) >= SmoothEnter => quiet' <= SmoothExit - 1
    BY <1>8, <1>9, <1>10, <1>13
  <2>7. on => quiet' <= SmoothExit - 1 + 0
    BY <2>5, <2>6, <1>8
  <2>8. HoldExplains'
    BY <2>3, <2>7 DEF HoldExplains
  <2>9. QED
    BY <2>3, <2>4, <2>8, <1>11, <1>12 DEF MotionInv, QuietVotes
<1>16. QED
  BY <1>14, <1>15

LEMMA EmptyDetectorInv ==
  ASSUME NEW known \in BOOLEAN, detector = EmptyDetector(known), quiet = 0
  PROVE  MotionInv
<1>1. /\ DOMAIN detector = {"full", "motion", "votes", "hold", "idleKnown"}
      /\ detector.votes = << >> /\ detector.hold = 0 /\ detector.motion = FALSE
  BY DEF EmptyDetector
<1>2. DetectorTyped
  BY <1>1, SmoothAssumption DEF DetectorTyped
<1>3. QED
  BY <1>1, <1>2 DEF MotionInv, QuietVotes, HoldExplains

LEMMA ResetInv == detector = EmptyDetector(FALSE) /\ quiet = 0 => MotionInv
BY EmptyDetectorInv

LEMMA MotionStep == MotionInv /\ [CsiMotionNext]_csiMotionVars => MotionInv'
<1> SUFFICES ASSUME MotionInv, [CsiMotionNext]_csiMotionVars PROVE MotionInv'
  OBVIOUS
<1>1. CASE MotionTick
  <2>1. PICK starved \in BOOLEAN, level \in Levels, breathes \in BOOLEAN :
          /\ detector' = updateMotionState(detector, starved, level, breathes)
          /\ quiet' = IF ~Decides(detector, starved) THEN quiet
                      ELSE IF Raw(detector.motion, level) THEN 0
                      ELSE IF quiet < SmoothExit + HoldMax THEN quiet + 1 ELSE quiet
    BY <1>1 DEF MotionTick
  <2>2. CASE Decides(detector, starved)
    BY <2>1, <2>2, DecidedStep DEF updateMotionState
  <2>3. CASE ~Decides(detector, starved)
    BY <2>1, <2>3
       DEF updateMotionState, MotionInv, DetectorTyped, QuietVotes, HoldExplains
  <2>4. QED
    BY <2>2, <2>3
<1>2. CASE resetIdleBaseline
  <2>1. detector' = EmptyDetector(FALSE) /\ quiet' = 0 /\ FALSE \in BOOLEAN
    BY <1>2 DEF resetIdleBaseline
  <2>2. (detector = EmptyDetector(FALSE) /\ quiet = 0 => MotionInv)'
    BY ResetInv, PTL
  <2>3. QED
    BY <2>1, <2>2
<1>3. CASE ProcessCSI \/ RestartWindow
  <2>1. PICK enough : detector' = [detector EXCEPT !.full = enough] /\ quiet' = quiet
    BY <1>3 DEF ProcessCSI, RestartWindow
  <2>2. /\ DOMAIN detector' = DOMAIN detector
        /\ detector'.votes = detector.votes /\ detector'.hold = detector.hold
        /\ detector'.motion = detector.motion
    BY <2>1 DEF MotionInv, DetectorTyped
  <2>3. QED
    BY <2>1, <2>2 DEF MotionInv, DetectorTyped, QuietVotes, HoldExplains
<1>4. CASE emitTestEdge \/ SessionChanges \/ UNCHANGED csiMotionVars
  <2>1. UNCHANGED <<detector, quiet>>
    BY <1>4 DEF emitTestEdge, SessionChanges, csiMotionVars
  <2>2. QED
    BY <2>1 DEF MotionInv, DetectorTyped, QuietVotes, HoldExplains
<1>5. CASE SwitchModel
  <2>1. PICK fingerprint \in BOOLEAN :
          /\ detector' = [detector EXCEPT !.full = FALSE, !.votes = << >>, !.hold = 0,
                                          !.idleKnown = @ \/ fingerprint]
          /\ quiet' = 0
    BY <1>5 DEF SwitchModel
  <2>2. /\ DOMAIN detector' = {"full", "motion", "votes", "hold", "idleKnown"}
        /\ detector'.votes = << >> /\ detector'.hold = 0
    BY <2>1 DEF MotionInv, DetectorTyped
  <2>3. DetectorTyped'
    BY <2>1, <2>2, SmoothAssumption DEF DetectorTyped
  <2>4. QED
    BY <2>1, <2>2, <2>3, SmoothAssumption DEF MotionInv, QuietVotes, HoldExplains
<1>6. QED
  BY <1>1, <1>2, <1>3, <1>4, <1>5 DEF CsiMotionNext

(* Breath alone does not keep a verdict of motion longer than SmoothExit   *)
(* plus HoldMax decided ticks after the last vote for motion or the last   *)
(* switch of the site model, however hysteresis, lost packets and refilled *)
(* windows come in between.                                                *)
THEOREM VerdictEnds == CsiMotionSpec => []MotionEnds
<1>1. CsiMotionInit => MotionInv
  BY EmptyDetectorInv DEF CsiMotionInit
<1>2. MotionInv => MotionEnds
  BY SmoothAssumption DEF MotionInv, DetectorTyped, HoldExplains, MotionEnds
<1>3. QED
  BY <1>1, <1>2, MotionStep, PTL DEF CsiMotionSpec

-----------------------------------------------------------------------------
(* Presence: nobody is gone, covered or loitering too early or too late.   *)

(* Each miss is a frame without anybody, and the hold begins no earlier    *)
(* than the last frame with somebody.                                      *)
AbsenceCounts ==
  /\ driver.state \in {"IDLE", "PRESENCE_DETECTED", "HOLD_TIMEOUT"}
  /\ DOMAIN driver = {"state", "misses", "held"}
  /\ driver.misses \in 0 .. Misses /\ driver.held \in {Never} \cup 0 .. Hold + 1
  /\ without \in 0 .. Misses /\ sinceSomebody \in {Never} \cup 0 .. Hold + 1

AbsenceIsMeasured ==
  /\ driver.state = "PRESENCE_DETECTED" =>
       sinceSomebody # Never /\ driver.misses <= without
  /\ driver.state = "HOLD_TIMEOUT" =>
       without = Misses /\ driver.held # Never /\ driver.held <= sinceSomebody
  /\ driver.state = "IDLE" /\ sinceSomebody # Never =>
       without = Misses /\ sinceSomebody > Hold

(* What loop() measures at its looks: it starts within a look of the       *)
(* beginning, and it reports at the first look after the limit.            *)
Reports(limit, age, flag, since, look) ==
  /\ age = Never => ~flag /\ since <= look
  /\ age # Never =>
       /\ age <= since
       /\ age <= limit => since <= age + LookGap
       /\ ~flag => since <= limit + LookGap + look
       /\ flag => since > limit

LookTyped ==
  /\ sinceLook \in 0 .. LookGap
  /\ DOMAIN silence = {"age", "blind"} /\ DOMAIN close = {"age", "loitering"}
  /\ silence.age \in {Never} \cup 0 .. MaskTime + 1
  /\ close.age \in {Never} \cup 0 .. LoiterTime + 1
  /\ sinceEnergy \in 0 .. MaskTime + 2 * LookGap + 1
  /\ sinceFar \in 0 .. LoiterTime + 2 * LookGap + 1

FlagsTyped == silence.blind \in BOOLEAN /\ close.loitering \in BOOLEAN

LooksReport ==
  /\ Reports(MaskTime, silence.age, silence.blind, sinceEnergy, sinceLook)
  /\ Reports(LoiterTime, close.age, close.loitering, sinceFar, sinceLook)

PresenceInv ==
  AbsenceCounts /\ AbsenceIsMeasured /\ LookTyped /\ FlagsTyped /\ LooksReport

LEMMA ElderIs ==
  ASSUME NEW cap \in Nat, NEW age \in {Never} \cup 0 .. cap
  PROVE  /\ Elder(age, cap) \in {Never} \cup 0 .. cap
         /\ Elder(age, cap) = Never <=> age = Never
         /\ age # Never => Elder(age, cap) \in 0 .. cap
         /\ age # Never => Elder(age, cap) = (IF age < cap THEN age + 1 ELSE cap)
BY DEF Elder, Never

LEMMA ReportsTick ==
  ASSUME NEW limit \in Nat, NEW age \in {Never} \cup 0 .. limit + 1, NEW flag \in BOOLEAN,
         NEW since \in 0 .. limit + 2 * LookGap + 1, NEW look \in 0 .. LookGap, look < LookGap,
         Reports(limit, age, flag, since, look)
  PROVE  Reports(limit, Elder(age, limit + 1), flag, Elder(since, limit + 2 * LookGap + 1), look + 1)
<1>1. PICK older : older = Elder(age, limit + 1)
  OBVIOUS
<1>2. PICK later : later = Elder(since, limit + 2 * LookGap + 1)
  OBVIOUS
<1>3. LookGap \in Nat /\ limit + 1 \in Nat /\ limit + 2 * LookGap + 1 \in Nat /\ Never = -1
  BY PresenceAssumption DEF Never
<1>4. /\ older = Never <=> age = Never
      /\ age # Never => older = (IF age < limit + 1 THEN age + 1 ELSE limit + 1)
  BY <1>1, <1>3, ElderIs
<1>5. later = (IF since < limit + 2 * LookGap + 1 THEN since + 1 ELSE limit + 2 * LookGap + 1)
  BY <1>2, <1>3 DEF Elder
<1>6. CASE age = Never
  <2>1. ~flag /\ since <= look
    BY <1>6 DEF Reports
  <2>2. later <= look + 1
    BY <2>1, <1>3, <1>5
  <2>3. QED
    BY <2>1, <2>2, <1>1, <1>2, <1>4, <1>6 DEF Reports
<1>7. CASE age # Never
  <2>1. age <= since /\ (age <= limit => since <= age + LookGap)
    BY <1>7 DEF Reports
  <2>2. age \in 0 .. limit + 1
    BY <1>7
  <2>3. older <= later /\ (older <= limit => later <= older + LookGap)
    BY <2>1, <2>2, <1>3, <1>4, <1>5, <1>7
  <2>4. ~flag => later <= limit + LookGap + (look + 1)
    <3>1. ~flag => since <= limit + LookGap + look
      BY <1>7 DEF Reports
    <3>2. since <= limit + LookGap + look => later <= limit + LookGap + (look + 1)
      BY <1>3, <1>5
    <3>3. QED
      BY <3>1, <3>2
  <2>5. flag => later > limit
    <3>1. flag => since > limit
      BY <1>7 DEF Reports
    <3>2. since > limit => later > limit
      BY <1>3, <1>5
    <3>3. QED
      BY <3>1, <3>2
  <2>6. older # Never
    BY <1>4, <1>7
  <2>7. QED
    BY <2>3, <2>4, <2>5, <2>6, <1>1, <1>2 DEF Reports
<1>8. QED
  BY <1>6, <1>7

(* A look that finds nothing to measure, and one that does.                *)
LEMMA ReportsNothing ==
  ASSUME NEW limit \in Nat
  PROVE  Reports(limit, Never, FALSE, 0, 0)
BY DEF Reports

LEMMA ReportsLook ==
  ASSUME NEW limit \in Nat, NEW age \in {Never} \cup 0 .. limit + 1, NEW flag \in BOOLEAN,
         NEW since \in 0 .. limit + 2 * LookGap + 1, NEW look \in 0 .. LookGap,
         Reports(limit, age, flag, since, look),
         NEW age2, age2 = IF age = Never THEN 0 ELSE age,
         NEW flag2 \in BOOLEAN, flag2 <=> (flag \/ age2 > limit)
  PROVE  Reports(limit, age2, flag2, since, 0)
<1>1. LookGap \in Nat /\ Never = -1
  BY PresenceAssumption DEF Never
<1>2. age2 \in 0 .. limit + 1 /\ age2 # Never
  BY <1>1
<1>3. age2 <= since /\ (age2 <= limit => since <= age2 + LookGap)
  <2>1. CASE age = Never
    <3>1. since <= look
      BY <2>1 DEF Reports
    <3>2. QED
      BY <2>1, <3>1, <1>1
  <2>2. CASE age # Never
    BY <2>2 DEF Reports
  <2>3. QED
    BY <2>1, <2>2
<1>4. ~flag2 => since <= limit + LookGap + 0
  <2>1. ~flag2 => age2 <= limit
    BY <1>2
  <2>2. age2 <= limit => since <= limit + LookGap + 0
    BY <1>1, <1>2, <1>3
  <2>3. QED
    BY <2>1, <2>2
<1>5. flag2 => since > limit
  <2>1. flag => since > limit
    BY DEF Reports
  <2>2. age2 > limit => since > limit
    BY <1>2, <1>3
  <2>3. QED
    BY <2>1, <2>2
<1>6. QED
  BY <1>2, <1>3, <1>4, <1>5 DEF Reports

(* update() with a frame: the driver's side.                               *)
LEMMA updateStep ==
  ASSUME PresenceInv, NEW r \in RadarFrames, update(r)
  PROVE  PresenceInv'
<1>1. /\ driver' = IF Detected(r) THEN Present ELSE Absent
      /\ sinceSomebody' = IF Detected(r) THEN 0 ELSE sinceSomebody
      /\ without' = IF Detected(r) THEN 0 ELSE Elder(without, Misses)
      /\ UNCHANGED <<silence, close, sinceLook, sinceEnergy, sinceFar>>
  BY DEF update, loopSide
<1>2. LookTyped' /\ FlagsTyped' /\ LooksReport'
  BY <1>1 DEF PresenceInv, LookTyped, FlagsTyped, LooksReport
<1>3. Misses \in Nat /\ Hold \in Nat /\ Never = -1
  BY PresenceAssumption DEF Never
<1>4. CASE Detected(r)
  <2>1. driver' = Present /\ sinceSomebody' = 0 /\ without' = 0
    BY <1>1, <1>4
  <2>2. AbsenceCounts'
    BY <2>1, <1>3 DEF AbsenceCounts, Present
  <2>3. AbsenceIsMeasured'
    BY <2>1, <1>3 DEF AbsenceIsMeasured, Present
  <2>4. QED
    BY <2>2, <2>3, <1>2 DEF PresenceInv
<1>5. CASE ~Detected(r)
  <2>1. driver' = Absent /\ sinceSomebody' = sinceSomebody
    BY <1>1, <1>5
  <2>2. without \in 0 .. Misses /\ without' = IF without < Misses THEN without + 1 ELSE Misses
    BY <1>1, <1>3, <1>5 DEF PresenceInv, AbsenceCounts, Elder
  <2>3. CASE driver.state = "PRESENCE_DETECTED"
    <3>1. driver' = Missed
      BY <2>1, <2>3 DEF Absent
    <3>2. /\ driver.misses \in 0 .. Misses /\ driver.misses <= without
          /\ sinceSomebody \in 0 .. Hold + 1
      BY <2>3 DEF PresenceInv, AbsenceCounts, AbsenceIsMeasured
    <3>3. CASE driver.misses + 1 >= Misses
      <4>1. driver'.state = "HOLD_TIMEOUT" /\ driver'.misses = Misses /\ driver'.held = 0
            /\ DOMAIN driver' = {"state", "misses", "held"}
        BY <3>1, <3>3 DEF Missed
      <4>2. without' = Misses
        BY <3>2, <3>3, <2>2, <1>3
      <4>3. AbsenceCounts'
        BY <4>1, <4>2, <3>2, <2>1, <1>3 DEF AbsenceCounts
      <4>4. AbsenceIsMeasured'
        BY <4>1, <4>2, <3>2, <2>1, <1>3 DEF AbsenceIsMeasured
      <4>5. QED
        BY <4>3, <4>4, <1>2 DEF PresenceInv
    <3>4. CASE ~(driver.misses + 1 >= Misses)
      <4>1. driver' = [driver EXCEPT !.misses = @ + 1]
        BY <3>1, <3>4 DEF Missed
      <4>2. /\ driver'.state = "PRESENCE_DETECTED" /\ driver'.misses = driver.misses + 1
            /\ driver'.held = driver.held
            /\ DOMAIN driver' = {"state", "misses", "held"}
        BY <4>1, <2>3 DEF PresenceInv, AbsenceCounts
      <4>3. driver'.misses \in 0 .. Misses /\ driver'.misses <= without' /\ without' \in 0 .. Misses
        BY <4>2, <3>2, <3>4, <2>2, <1>3
      <4>4. AbsenceCounts'
        BY <4>2, <4>3, <3>2, <2>1 DEF PresenceInv, AbsenceCounts
      <4>5. AbsenceIsMeasured'
        BY <4>2, <4>3, <3>2, <2>1, <1>3 DEF AbsenceIsMeasured
      <4>6. QED
        BY <4>4, <4>5, <1>2 DEF PresenceInv
    <3>5. QED
      BY <3>3, <3>4
  <2>4. CASE driver.state = "HOLD_TIMEOUT" /\ driver.held > Hold
    <3>1. driver' = [driver EXCEPT !.state = "IDLE", !.held = Never]
      BY <2>1, <2>4 DEF Absent
    <3>2. /\ driver'.state = "IDLE" /\ driver'.misses = driver.misses /\ driver'.held = Never
          /\ DOMAIN driver' = {"state", "misses", "held"}
      BY <3>1 DEF PresenceInv, AbsenceCounts
    <3>3. driver.held <= sinceSomebody /\ without = Misses
      BY <2>4 DEF PresenceInv, AbsenceIsMeasured
    <3>4. sinceSomebody > Hold /\ without' = Misses
      BY <3>3, <2>2, <2>4, <1>3 DEF PresenceInv, AbsenceCounts
    <3>5. AbsenceCounts'
      BY <3>2, <3>4, <2>1, <1>3 DEF PresenceInv, AbsenceCounts
    <3>6. AbsenceIsMeasured'
      BY <3>2, <3>4, <2>1 DEF AbsenceIsMeasured
    <3>7. QED
      BY <3>5, <3>6, <1>2 DEF PresenceInv
  <2>5. CASE /\ driver.state # "PRESENCE_DETECTED"
             /\ ~(driver.state = "HOLD_TIMEOUT" /\ driver.held > Hold)
    <3>1. driver' = driver
      BY <2>1, <2>5 DEF Absent
    <3>2. without' \in 0 .. Misses /\ (without = Misses => without' = Misses)
      BY <2>2, <1>3
    <3>3. AbsenceCounts'
      BY <3>1, <3>2, <2>1 DEF PresenceInv, AbsenceCounts
    <3>4. AbsenceIsMeasured'
      BY <3>1, <3>2, <2>1, <2>5 DEF PresenceInv, AbsenceIsMeasured
    <3>5. QED
      BY <3>3, <3>4, <1>2 DEF PresenceInv
  <2>6. QED
    BY <2>3, <2>4, <2>5
<1>6. QED
  BY <1>4, <1>5

(* processRadarData(): a look of loop() at what the radar said last.       *)
LEMMA lookStep ==
  ASSUME PresenceInv, processRadarData
  PROVE  PresenceInv'
<1>1. /\ silence' = SilenceNow /\ close' = CloseNow /\ sinceLook' = 0
      /\ sinceEnergy' = IF Energetic THEN 0 ELSE sinceEnergy
      /\ sinceFar' = IF Close THEN sinceFar ELSE 0
      /\ UNCHANGED <<driver, sinceSomebody, without>>
  BY DEF processRadarData, radarSide
<1>2. AbsenceCounts' /\ AbsenceIsMeasured'
  BY <1>1 DEF PresenceInv, AbsenceCounts, AbsenceIsMeasured
<1>3. /\ MaskTime \in Nat /\ LoiterTime \in Nat /\ LookGap \in Nat /\ Never = -1
      /\ sinceLook \in 0 .. LookGap
      /\ silence.age \in {Never} \cup 0 .. MaskTime + 1
      /\ close.age \in {Never} \cup 0 .. LoiterTime + 1
      /\ sinceEnergy \in 0 .. MaskTime + 2 * LookGap + 1
      /\ sinceFar \in 0 .. LoiterTime + 2 * LookGap + 1
  BY PresenceAssumption DEF Never, PresenceInv, LookTyped
<1>4. silence.blind \in BOOLEAN /\ close.loitering \in BOOLEAN
  BY DEF PresenceInv, FlagsTyped
<1>5. /\ DOMAIN silence' = {"age", "blind"} /\ silence'.blind \in BOOLEAN
      /\ silence'.age \in {Never} \cup 0 .. MaskTime + 1
      /\ sinceEnergy' \in 0 .. MaskTime + 2 * LookGap + 1
      /\ Reports(MaskTime, silence'.age, silence'.blind, sinceEnergy', 0)
  <2>1. CASE Energetic
    <3>1. silence' = [age |-> Never, blind |-> FALSE] /\ sinceEnergy' = 0
      BY <2>1, <1>1 DEF SilenceNow
    <3>2. Reports(MaskTime, Never, FALSE, 0, 0)
      BY <1>3, ReportsNothing
    <3>3. /\ DOMAIN silence' = {"age", "blind"}
          /\ silence'.blind = FALSE /\ silence'.age = Never
      BY <3>1
    <3>4. 0 \in 0 .. MaskTime + 2 * LookGap + 1
      BY <1>3
    <3>5. QED
      BY <3>1, <3>2, <3>3, <3>4
  <2>2. CASE ~Energetic
    <3>1. PICK age : age = IF silence.age = Never THEN 0 ELSE silence.age
      OBVIOUS
    <3>2. PICK blind \in BOOLEAN : blind = (silence.blind \/ age > MaskTime)
      OBVIOUS
    <3>3. silence' = [age |-> age, blind |-> blind] /\ sinceEnergy' = sinceEnergy
      BY <2>2, <3>1, <3>2, <1>1 DEF SilenceNow
    <3>4. Reports(MaskTime, silence.age, silence.blind, sinceEnergy, sinceLook)
      BY DEF PresenceInv, LooksReport
    <3>5. blind <=> (silence.blind \/ age > MaskTime)
      BY <3>2
    <3>6. Reports(MaskTime, age, blind, sinceEnergy, 0)
      BY <3>1, <3>4, <3>5, <1>3, <1>4, ReportsLook
    <3>7. age \in {Never} \cup 0 .. MaskTime + 1
      BY <3>1, <1>3
    <3>8. DOMAIN silence' = {"age", "blind"} /\ silence'.blind = blind /\ silence'.age = age
      BY <3>3
    <3>9. QED
      BY <3>3, <3>6, <3>7, <3>8, <1>3
  <2>3. QED
    BY <2>1, <2>2
<1>6. /\ DOMAIN close' = {"age", "loitering"} /\ close'.loitering \in BOOLEAN
      /\ close'.age \in {Never} \cup 0 .. LoiterTime + 1
      /\ sinceFar' \in 0 .. LoiterTime + 2 * LookGap + 1
      /\ Reports(LoiterTime, close'.age, close'.loitering, sinceFar', 0)
  <2>1. CASE ~Close
    <3>1. close' = [age |-> Never, loitering |-> FALSE] /\ sinceFar' = 0
      BY <2>1, <1>1 DEF CloseNow
    <3>2. Reports(LoiterTime, Never, FALSE, 0, 0)
      BY <1>3, ReportsNothing
    <3>3. /\ DOMAIN close' = {"age", "loitering"}
          /\ close'.loitering = FALSE /\ close'.age = Never
      BY <3>1
    <3>4. 0 \in 0 .. LoiterTime + 2 * LookGap + 1
      BY <1>3
    <3>5. QED
      BY <3>1, <3>2, <3>3, <3>4
  <2>2. CASE Close
    <3>1. PICK age : age = IF close.age = Never THEN 0 ELSE close.age
      OBVIOUS
    <3>2. PICK loitering \in BOOLEAN : loitering = (close.loitering \/ age > LoiterTime)
      OBVIOUS
    <3>3. close' = [age |-> age, loitering |-> loitering] /\ sinceFar' = sinceFar
      BY <2>2, <3>1, <3>2, <1>1 DEF CloseNow
    <3>4. Reports(LoiterTime, close.age, close.loitering, sinceFar, sinceLook)
      BY DEF PresenceInv, LooksReport
    <3>5. loitering <=> (close.loitering \/ age > LoiterTime)
      BY <3>2
    <3>6. Reports(LoiterTime, age, loitering, sinceFar, 0)
      BY <3>1, <3>4, <3>5, <1>3, <1>4, ReportsLook
    <3>7. age \in {Never} \cup 0 .. LoiterTime + 1
      BY <3>1, <1>3
    <3>8. /\ DOMAIN close' = {"age", "loitering"}
          /\ close'.loitering = loitering /\ close'.age = age
      BY <3>3
    <3>9. QED
      BY <3>3, <3>6, <3>7, <3>8, <1>3
  <2>3. QED
    BY <2>1, <2>2
<1>7. LookTyped'
  BY <1>1, <1>3, <1>5, <1>6 DEF LookTyped
<1>8. FlagsTyped' /\ LooksReport'
  BY <1>1, <1>5, <1>6 DEF FlagsTyped, LooksReport
<1>9. QED
  BY <1>2, <1>7, <1>8 DEF PresenceInv

(* PresenceTick: every age grows, up to its cap.                           *)
LEMMA presenceTickStep ==
  ASSUME PresenceInv, PresenceTick
  PROVE  PresenceInv'
<1>1. /\ sinceLook < LookGap
      /\ driver' = [driver EXCEPT !.held = Elder(@, Hold + 1)]
      /\ silence' = [silence EXCEPT !.age = Elder(@, MaskTime + 1)]
      /\ close' = [close EXCEPT !.age = Elder(@, LoiterTime + 1)]
      /\ sinceLook' = sinceLook + 1
      /\ sinceSomebody' = Elder(sinceSomebody, Hold + 1)
      /\ sinceEnergy' = Elder(sinceEnergy, MaskTime + 2 * LookGap + 1)
      /\ sinceFar' = Elder(sinceFar, LoiterTime + 2 * LookGap + 1)
      /\ without' = without
  BY DEF PresenceTick
<1>2. /\ Hold \in Nat /\ MaskTime \in Nat /\ LoiterTime \in Nat /\ LookGap \in Nat
      /\ Never = -1 /\ Misses \in Nat
  BY PresenceAssumption DEF Never
<1>3. AbsenceCounts /\ AbsenceIsMeasured /\ LookTyped /\ FlagsTyped /\ LooksReport
  BY DEF PresenceInv
<1>4. /\ DOMAIN driver' = {"state", "misses", "held"}
      /\ driver'.state = driver.state /\ driver'.misses = driver.misses
      /\ driver'.held = Elder(driver.held, Hold + 1)
  BY <1>1, <1>3 DEF AbsenceCounts
<1>5. /\ driver.held \in {Never} \cup 0 .. Hold + 1
      /\ sinceSomebody \in {Never} \cup 0 .. Hold + 1
      /\ Hold + 1 \in Nat
  BY <1>2, <1>3 DEF AbsenceCounts
<1>6. /\ driver'.held \in {Never} \cup 0 .. Hold + 1
      /\ driver'.held = Never <=> driver.held = Never
      /\ driver.held # Never =>
           driver'.held = IF driver.held < Hold + 1 THEN driver.held + 1 ELSE Hold + 1
  BY <1>4, <1>5, ElderIs
<1>7. /\ sinceSomebody' \in {Never} \cup 0 .. Hold + 1
      /\ sinceSomebody' = Never <=> sinceSomebody = Never
      /\ sinceSomebody # Never =>
           sinceSomebody' = IF sinceSomebody < Hold + 1 THEN sinceSomebody + 1 ELSE Hold + 1
  BY <1>1, <1>5, ElderIs
<1>8. AbsenceCounts'
  BY <1>1, <1>3, <1>4, <1>6, <1>7 DEF AbsenceCounts
<1>9. AbsenceIsMeasured'
  <2>1. driver.state = "PRESENCE_DETECTED" => sinceSomebody' # Never /\ driver.misses <= without
    BY <1>3, <1>7 DEF AbsenceIsMeasured
  <2>2. driver.state = "HOLD_TIMEOUT" =>
          without = Misses /\ driver'.held # Never /\ driver'.held <= sinceSomebody'
    <3>1. driver.state = "HOLD_TIMEOUT" =>
            without = Misses /\ driver.held # Never /\ driver.held <= sinceSomebody
      BY <1>3 DEF AbsenceIsMeasured
    <3>2. driver.held # Never /\ driver.held <= sinceSomebody => driver'.held <= sinceSomebody'
      BY <1>2, <1>5, <1>6, <1>7
    <3>3. QED
      BY <3>1, <3>2, <1>6
  <2>3. driver.state = "IDLE" /\ sinceSomebody' # Never =>
          without = Misses /\ sinceSomebody' > Hold
    <3>1. driver.state = "IDLE" /\ sinceSomebody # Never => without = Misses /\ sinceSomebody > Hold
      BY <1>3 DEF AbsenceIsMeasured
    <3>2. sinceSomebody # Never /\ sinceSomebody > Hold => sinceSomebody' > Hold
      BY <1>2, <1>5, <1>7
    <3>3. QED
      BY <3>1, <3>2, <1>7
  <2>4. QED
    BY <2>1, <2>2, <2>3, <1>1, <1>4 DEF AbsenceIsMeasured
<1>10. /\ DOMAIN silence' = {"age", "blind"} /\ silence'.blind = silence.blind
       /\ silence'.age = Elder(silence.age, MaskTime + 1)
       /\ DOMAIN close' = {"age", "loitering"} /\ close'.loitering = close.loitering
       /\ close'.age = Elder(close.age, LoiterTime + 1)
  BY <1>1, <1>3 DEF LookTyped
<1>11. /\ silence.age \in {Never} \cup 0 .. MaskTime + 1
       /\ close.age \in {Never} \cup 0 .. LoiterTime + 1
       /\ sinceEnergy \in 0 .. MaskTime + 2 * LookGap + 1
       /\ sinceFar \in 0 .. LoiterTime + 2 * LookGap + 1
       /\ sinceLook \in 0 .. LookGap
       /\ MaskTime + 1 \in Nat /\ LoiterTime + 1 \in Nat
       /\ MaskTime + 2 * LookGap + 1 \in Nat /\ LoiterTime + 2 * LookGap + 1 \in Nat
  BY <1>2, <1>3 DEF LookTyped
<1>12. silence'.age \in {Never} \cup 0 .. MaskTime + 1
  BY <1>10, <1>11, ElderIs
<1>13. close'.age \in {Never} \cup 0 .. LoiterTime + 1
  BY <1>10, <1>11, ElderIs
<1>14. /\ sinceEnergy' \in 0 .. MaskTime + 2 * LookGap + 1
       /\ sinceFar' \in 0 .. LoiterTime + 2 * LookGap + 1
       /\ sinceLook' \in 0 .. LookGap
  BY <1>1, <1>2, <1>11 DEF Elder
<1>15. LookTyped'
  BY <1>10, <1>12, <1>13, <1>14 DEF LookTyped
<1>16. FlagsTyped'
  BY <1>3, <1>10 DEF FlagsTyped
<1>17. Reports(MaskTime, silence'.age, silence'.blind, sinceEnergy', sinceLook')
  <2>1. Reports(MaskTime, silence.age, silence.blind, sinceEnergy, sinceLook)
        /\ silence.blind \in BOOLEAN
    BY <1>3 DEF LooksReport, FlagsTyped
  <2>2. Reports(MaskTime, Elder(silence.age, MaskTime + 1), silence.blind,
                Elder(sinceEnergy, MaskTime + 2 * LookGap + 1), sinceLook + 1)
    BY <2>1, <1>1, <1>2, <1>11, ReportsTick
  <2>3. QED
    BY <2>2, <1>1, <1>10
<1>18. Reports(LoiterTime, close'.age, close'.loitering, sinceFar', sinceLook')
  <2>1. Reports(LoiterTime, close.age, close.loitering, sinceFar, sinceLook)
        /\ close.loitering \in BOOLEAN
    BY <1>3 DEF LooksReport, FlagsTyped
  <2>2. Reports(LoiterTime, Elder(close.age, LoiterTime + 1), close.loitering,
                Elder(sinceFar, LoiterTime + 2 * LookGap + 1), sinceLook + 1)
    BY <2>1, <1>1, <1>2, <1>11, ReportsTick
  <2>3. QED
    BY <2>2, <1>1, <1>10
<1>19. QED
  BY <1>8, <1>9, <1>15, <1>16, <1>17, <1>18 DEF PresenceInv, LooksReport

LEMMA PresenceStep == PresenceInv /\ [PresenceNext]_presenceVars => PresenceInv'
<1> SUFFICES ASSUME PresenceInv, [PresenceNext]_presenceVars PROVE PresenceInv'
  OBVIOUS
<1>1. CASE \E r \in RadarFrames : update(r)
  BY <1>1, updateStep
<1>2. CASE processRadarData
  BY <1>2, lookStep
<1>3. CASE PresenceTick
  BY <1>3, presenceTickStep
<1>4. CASE startStaticLearn \/ ReportLearning \/ GiveUpLook \/ UNCHANGED presenceVars
  <2>1. UNCHANGED <<driver, silence, close, histories>>
    BY <1>4 DEF startStaticLearn, ReportLearning, GiveUpLook, presenceVars,
                radarSide, loopSide, histories
  <2>2. QED
    BY <2>1 DEF histories, PresenceInv, AbsenceCounts, AbsenceIsMeasured,
                LookTyped, FlagsTyped, LooksReport
<1>5. QED
  BY <1>1, <1>2, <1>3, <1>4 DEF PresenceNext

(* Whatever the pace of the radar's frames and loop()'s looks, and whoever  *)
(* gives up on a mutex: somebody seen is gone only after enough frames and *)
(* the hold time, and a covered sensor and a loiterer are reported in time *)
(* and never too early (LD2412Service::update(), processRadarData()).      *)
THEOREM AbsenceIsAlwaysEarned == PresenceSpec => []AbsenceIsEarned
<1>1. PresenceInit => PresenceInv
  <2> SUFFICES ASSUME PresenceInit PROVE PresenceInv
    OBVIOUS
  <2>1. /\ driver = [state |-> "IDLE", misses |-> 0, held |-> Never]
        /\ silence = [age |-> Never, blind |-> FALSE]
        /\ close = [age |-> Never, loitering |-> FALSE]
        /\ sinceLook = 0 /\ sinceSomebody = Never /\ without = 0
        /\ sinceEnergy = 0 /\ sinceFar = 0
    BY DEF PresenceInit
  <2>2. /\ Hold \in Nat /\ MaskTime \in Nat /\ LoiterTime \in Nat /\ LookGap \in Nat
        /\ Never = -1 /\ Misses \in Nat
    BY PresenceAssumption DEF Never
  <2>3. AbsenceCounts /\ AbsenceIsMeasured
    BY <2>1, <2>2 DEF AbsenceCounts, AbsenceIsMeasured
  <2>4. LookTyped
    BY <2>1, <2>2 DEF LookTyped
  <2>5. FlagsTyped
    BY <2>1 DEF FlagsTyped
  <2>6. Reports(MaskTime, Never, FALSE, 0, 0) /\ Reports(LoiterTime, Never, FALSE, 0, 0)
    BY <2>2, ReportsNothing
  <2>7. LooksReport
    BY <2>1, <2>6 DEF LooksReport
  <2>8. QED
    BY <2>3, <2>4, <2>5, <2>7 DEF PresenceInv
<1>2. PresenceInv => AbsenceIsEarned
  <2> SUFFICES ASSUME PresenceInv PROVE AbsenceIsEarned
    OBVIOUS
  <2>1. /\ Hold \in Nat /\ MaskTime \in Nat /\ LoiterTime \in Nat /\ LookGap \in Nat
        /\ Never = -1
    BY PresenceAssumption DEF Never
  <2>2. sinceSomebody # Never =>
          /\ driver.state # "PRESENCE_DETECTED" => without = Misses
          /\ driver.state = "IDLE" => sinceSomebody > Hold
    BY DEF PresenceInv, AbsenceCounts, AbsenceIsMeasured
  <2>3. ASSUME NEW limit \in Nat, NEW age \in {Never} \cup 0 .. limit + 1, NEW flag \in BOOLEAN,
               NEW since \in 0 .. limit + 2 * LookGap + 1,
               Reports(limit, age, flag, since, sinceLook)
        PROVE  (flag => since > limit) /\ (since > limit + 2 * LookGap => flag)
    <3>1. sinceLook \in 0 .. LookGap
      BY DEF PresenceInv, LookTyped
    <3>2. flag => since > limit
      BY <2>3 DEF Reports
    <3>3. ~flag => since <= limit + LookGap + sinceLook
      <4>1. age = Never => since <= sinceLook
        BY <2>3 DEF Reports
      <4>2. age = Never => since <= limit + LookGap + sinceLook
        BY <4>1, <3>1, <2>1, <2>3
      <4>3. QED
        BY <4>2, <2>3 DEF Reports
    <3>4. since <= limit + LookGap + sinceLook => ~(since > limit + 2 * LookGap)
      BY <3>1, <2>1, <2>3
    <3>5. QED
      BY <3>2, <3>3, <3>4
  <2>4. (silence.blind => sinceEnergy > MaskTime)
        /\ (sinceEnergy > MaskTime + 2 * LookGap => silence.blind)
    BY <2>1, <2>3 DEF PresenceInv, LookTyped, FlagsTyped, LooksReport
  <2>5. (close.loitering => sinceFar > LoiterTime)
        /\ (sinceFar > LoiterTime + 2 * LookGap => close.loitering)
    BY <2>1, <2>3 DEF PresenceInv, LookTyped, FlagsTyped, LooksReport
  <2>6. QED
    BY <2>2, <2>4, <2>5 DEF AbsenceIsEarned
<1>3. QED
  BY <1>1, <1>2, PresenceStep, PTL DEF PresenceSpec

-----------------------------------------------------------------------------
(* Fusion: what an alarm takes, and what is enough for one.                *)

GuardTyped ==
  /\ fsm \in FSMType /\ cfg \in Configs /\ fsm.debounce < CountMax
  /\ DOMAIN seen = {"primary", "strong", "strongFor"}
  /\ seen.primary \in 0 .. CountMax /\ seen.strong \in 0 .. CountMax

(* The debounce counts no frame that had neither strong radar nor CSI, and *)
(* every strong one that nothing may hold back; and it has not yet had     *)
(* enough.                                                                 *)
DebounceIsOfEvidence ==
  fsm.state = "ARMED" =>
    /\ fsm.debounce <= seen.primary
    /\ fsm.debounce < RequiredFrames(cfg)
    /\ ~corroborate => seen.strong <= fsm.debounce

FusionInv == GuardTyped /\ DebounceIsOfEvidence

(* reportMotion() of a state machine on guard, frame by frame.             *)
LEMMA CountEffect ==
  ASSUME NEW f \in FSMType, NEW c \in ConfigType, NEW q \in BOOLEAN,
         NEW b \in Behaviors, f.debounce < CountMax, f.state = "ARMED",
         NEW g, g = MotionFSM(f, c, q, b, 0)
  PROVE  /\ ~q => g.state = "ARMED" /\ g.debounce = 0
         /\ q /\ f.debounce + 1 < RequiredFrames(c) =>
              g.state = "ARMED" /\ g.debounce = f.debounce + 1
         /\ q /\ f.debounce + 1 >= RequiredFrames(c) =>
              /\ g.state \in {"PENDING", "TRIGGERED"} \/ (b = 2 /\ g.state = "ARMED")
              /\ g.debounce = 0
              /\ g.state = "TRIGGERED" => b = 1
<1>1. CountedFrames(f) = f.debounce + 1 /\ f.debounce \in Nat /\ RequiredFrames(c) \in Nat
  BY ConfigAssumption DEF CountedFrames, FSMType, RequiredFrames, ConfigType
<1>2. CASE ~q
  <2>1. ~Confirmed(f, c, q)
    BY <1>2 DEF Confirmed
  <2>2. g = [f EXCEPT !.debounce = 0]
    BY <1>2, <2>1 DEF MotionFSM, MotionEvent
  <2>3. QED
    BY <1>2, <2>2 DEF FSMType
<1>3. CASE q /\ f.debounce + 1 < RequiredFrames(c)
  <2>1. ~Confirmed(f, c, q)
    BY <1>1, <1>3 DEF Confirmed
  <2>2. g = [f EXCEPT !.debounce = f.debounce + 1]
    BY <1>1, <1>3, <2>1 DEF MotionFSM, MotionEvent
  <2>3. g.state = "ARMED" /\ g.debounce = f.debounce + 1
    BY <2>2 DEF FSMType
  <2>4. ~(f.debounce + 1 >= RequiredFrames(c))
    BY <1>1, <1>3
  <2>5. QED
    BY <1>3, <2>3, <2>4
<1>4. CASE q /\ f.debounce + 1 >= RequiredFrames(c)
  <2>1. Confirmed(f, c, q)
    BY <1>1, <1>4 DEF Confirmed
  <2>a. ~(f.debounce + 1 < RequiredFrames(c))
    BY <1>1, <1>4
  <2>2. CASE b = 2
    <3>1. g = [f EXCEPT !.debounce = 0]
      BY <2>1, <2>2 DEF MotionFSM, MotionEvent
    <3>2. g.state = "ARMED" /\ g.debounce = 0
      BY <3>1 DEF FSMType
    <3>3. QED
      BY <2>a, <1>4, <2>2, <3>2
  <2>3. CASE b = 1
    <3>1. g = [f EXCEPT !.state = "TRIGGERED", !.triggerStart = 0, !.debounce = 0]
      BY <2>1, <2>3 DEF MotionFSM, MotionEvent
    <3>2. g.state = "TRIGGERED" /\ g.debounce = 0
      BY <3>1 DEF FSMType
    <3>3. QED
      BY <2>a, <1>4, <2>3, <3>2
  <2>4. CASE b \notin {1, 2}
    <3>1. g = [f EXCEPT !.state = "PENDING", !.entryStart = 0, !.debounce = 0]
      BY <2>1, <2>4 DEF MotionFSM, MotionEvent
    <3>2. g.state = "PENDING" /\ g.debounce = 0
      BY <3>1 DEF FSMType
    <3>3. QED
      BY <2>a, <1>4, <3>2
  <2>5. QED
    BY <2>2, <2>3, <2>4
<1>5. QED
  BY <1>1, <1>2, <1>3, <1>4

(* What a frame means to the state machine, and to the histories.          *)
LEMMA JudgeEffect ==
  ASSUME NEW v, NEW source, NEW reading \in Readings, NEW zoneBehavior \in 0..2,
         Judge(v, source, reading, zoneBehavior)
  PROVE  \E q \in BOOLEAN, b \in Behaviors, p \in BOOLEAN, st \in BOOLEAN :
           /\ fsm' = MotionFSM(fsm, cfg, q, b, 0)
           /\ seen'.primary = Streak(seen.primary, p)
           /\ seen'.strong = Streak(seen.strong, st)
           /\ DOMAIN seen' = {"primary", "strong", "strongFor"}
           /\ fused'.reading = reading
           /\ q => fsm.state = "ARMED" /\ p
           /\ q /\ b = 1 => reading = "strong"
           /\ st /\ ~corroborate => q /\ b # 2
           /\ UNCHANGED <<cfg, corroborate>>
<1>1. PICK csiOnly \in BOOLEAN : csiOnly = CsiOnlyQualifies(reading, v.presence, source)
  BY DEF CsiOnlyQualifies
<1>2. PICK p \in BOOLEAN : p = (fsm.state = "ARMED" /\ (reading = "strong" \/ "csi" \in source))
  OBVIOUS
<1>3. PICK st \in BOOLEAN : st = (fsm.state = "ARMED" /\ reading = "strong" /\ zoneBehavior # 2)
  OBVIOUS
<1>4. PICK qualifies \in BOOLEAN :
        qualifies = (fsm.state = "ARMED" /\ (RadarQualifies(reading) \/ csiOnly))
  OBVIOUS
<1>5. PICK gate : gate = IF corroborate THEN Corroborate(qualifies, v.confidence, source)
                         ELSE <<"PASS", window>>
  OBVIOUS
<1>6. PICK q \in BOOLEAN : q = (qualifies /\ gate[1] = "PASS")
  OBVIOUS
<1>7. PICK b : b = Behavior(csiOnly, zoneBehavior)
  OBVIOUS
<1>8. /\ fsm' = MotionFSM(fsm, cfg, q, b, 0)
      /\ seen' = [primary |-> Streak(seen.primary, p), strong |-> Streak(seen.strong, st),
                  strongFor |-> Running(seen.strongFor, st)]
      /\ fused' = [source |-> source, presence |-> v.presence,
                   confidence |-> v.confidence, reading |-> reading]
      /\ UNCHANGED <<cfg, corroborate>>
  BY <1>1, <1>2, <1>3, <1>4, <1>5, <1>6, <1>7 DEF Judge, Admitted
<1>9. b \in Behaviors
  BY <1>7 DEF Behavior, Behaviors
<1>10. csiOnly => reading # "strong" /\ "csi" \in source
  BY <1>1 DEF CsiOnlyQualifies, RadarQualifies
<1>11. q => fsm.state = "ARMED" /\ p
  BY <1>2, <1>4, <1>6, <1>10 DEF RadarQualifies
<1>12. q /\ b = 1 => reading = "strong"
  BY <1>4, <1>6, <1>7 DEF Behavior, RadarQualifies
<1>13. st /\ ~corroborate => q /\ b # 2
  <2> SUFFICES ASSUME st, ~corroborate PROVE q /\ b # 2
    OBVIOUS
  <2>1. fsm.state = "ARMED" /\ reading = "strong" /\ zoneBehavior # 2
    BY <1>3
  <2>2. qualifies /\ ~csiOnly
    BY <2>1, <1>4, <1>10 DEF RadarQualifies
  <2>3. gate[1] = "PASS"
    BY <1>5
  <2>4. b = zoneBehavior
    BY <2>2, <1>7 DEF Behavior
  <2>5. QED
    BY <2>1, <2>2, <2>3, <2>4, <1>6
<1>14. /\ seen'.primary = Streak(seen.primary, p) /\ seen'.strong = Streak(seen.strong, st)
       /\ DOMAIN seen' = {"primary", "strong", "strongFor"} /\ fused'.reading = reading
  BY <1>8
<1>15. QED
  BY <1>8, <1>9, <1>11, <1>12, <1>13, <1>14

(* A frame keeps the invariant, and an alarm has its evidence.             *)
LEMMA FrameStep ==
  ASSUME FusionInv, Frame
  PROVE  /\ FusionInv'
         /\ Alarms => seen'.primary >= cfg.debounceFrames
         /\ Alarms /\ fsm'.state = "TRIGGERED" => fused'.reading = "strong"
         /\ UNCHANGED <<cfg, corroborate>>
<1>1. \E v, source : \E reading \in Readings, zoneBehavior \in 0..2 :
        Judge(v, source, reading, zoneBehavior)
  <2>1. CASE FusedFrame
    <3>1. PICK reading \in Readings, s \in Snapshots, zoneBehavior \in 0..2 :
            Judge(Fuse(reading, s), Source(reading, s), reading, zoneBehavior)
      BY <2>1 DEF FusedFrame
    <3>2. QED
      BY <3>1
  <2>2. CASE RadarFrame
    <3>1. PICK reading \in Readings, starved \in BOOLEAN, zoneBehavior \in 0..2 :
            Judge(RadarOnly(reading),
                  {x \in {"radar", "stale"} :
                     \/ x = "radar" /\ reading # "none"
                     \/ x = "stale" /\ starved},
                  reading, zoneBehavior)
      BY <2>2 DEF RadarFrame
    <3>2. QED
      BY <3>1
  <2>3. QED
    BY <2>1, <2>2 DEF Frame
<1>2. PICK q \in BOOLEAN, b \in Behaviors, p \in BOOLEAN, st \in BOOLEAN, reading \in Readings :
           /\ fsm' = MotionFSM(fsm, cfg, q, b, 0)
           /\ seen'.primary = Streak(seen.primary, p)
           /\ seen'.strong = Streak(seen.strong, st)
           /\ DOMAIN seen' = {"primary", "strong", "strongFor"}
           /\ fused'.reading = reading
           /\ q => fsm.state = "ARMED" /\ p
           /\ q /\ b = 1 => reading = "strong"
           /\ st /\ ~corroborate => q /\ b # 2
           /\ UNCHANGED <<cfg, corroborate>>
  BY <1>1, JudgeEffect
<1>3. /\ fsm \in FSMType /\ cfg \in ConfigType /\ cfg \in Configs
      /\ fsm.debounce \in Nat /\ fsm.debounce < CountMax /\ CountMax \in Nat \ {0}
      /\ seen.primary \in 0 .. CountMax /\ seen.strong \in 0 .. CountMax
      /\ cfg.debounceFrames \in 0 .. CountMax
      /\ RequiredFrames(cfg) = IF cfg.debounceFrames < 1 THEN 1 ELSE cfg.debounceFrames
  BY ConfigAssumption DEF FusionInv, GuardTyped, FSMType, ConfigType, RequiredFrames
<1>4. 0 \in Instants
  BY ClockAssumption DEF Instants
<1>5. fsm' \in FSMType
  BY <1>2, <1>3, <1>4, MethodTypes
<1>6. /\ seen'.primary = (IF ~p THEN 0 ELSE IF seen.primary < CountMax THEN seen.primary + 1
                          ELSE seen.primary)
      /\ seen'.strong = (IF ~st THEN 0 ELSE IF seen.strong < CountMax THEN seen.strong + 1
                         ELSE seen.strong)
  BY <1>2 DEF Streak
<1>7. seen'.primary \in 0 .. CountMax /\ seen'.strong \in 0 .. CountMax
  BY <1>3, <1>6
<1>8. CASE fsm.state # "ARMED"
  <2>1. fsm' = fsm
    BY <1>2, <1>8 DEF MotionFSM
  <2>2. QED
    BY <2>1, <1>2, <1>3, <1>5, <1>7, <1>8 DEF FusionInv, GuardTyped, DebounceIsOfEvidence, Alarms
<1>9. CASE fsm.state = "ARMED"
  <2>1. /\ fsm.debounce <= seen.primary /\ fsm.debounce < RequiredFrames(cfg)
        /\ ~corroborate => seen.strong <= fsm.debounce
    BY <1>9 DEF FusionInv, DebounceIsOfEvidence
  <2>2. /\ ~q => fsm'.state = "ARMED" /\ fsm'.debounce = 0
        /\ q /\ fsm.debounce + 1 < RequiredFrames(cfg) =>
             fsm'.state = "ARMED" /\ fsm'.debounce = fsm.debounce + 1
        /\ q /\ fsm.debounce + 1 >= RequiredFrames(cfg) =>
             /\ fsm'.state \in {"PENDING", "TRIGGERED"} \/ (b = 2 /\ fsm'.state = "ARMED")
             /\ fsm'.debounce = 0
             /\ fsm'.state = "TRIGGERED" => b = 1
    BY <1>2, <1>3, <1>9, CountEffect
  <2>3. CASE ~q
    <3>1. fsm'.state = "ARMED" /\ fsm'.debounce = 0
      BY <2>2, <2>3
    <3>2. ~corroborate => seen'.strong = 0
      BY <1>2, <1>6, <2>3
    <3>3. fsm'.debounce < RequiredFrames(cfg) /\ fsm'.debounce <= seen'.primary
          /\ fsm'.debounce < CountMax
      BY <3>1, <1>3, <1>7
    <3>4. DebounceIsOfEvidence'
      BY <3>1, <3>2, <3>3, <1>2, <1>7 DEF DebounceIsOfEvidence
    <3>5. GuardTyped'
      BY <3>3, <1>2, <1>3, <1>5, <1>7 DEF GuardTyped
    <3>6. QED
      BY <3>1, <3>4, <3>5, <1>2 DEF FusionInv, Alarms
  <2>4. CASE q /\ fsm.debounce + 1 < RequiredFrames(cfg)
    <3>1. fsm'.state = "ARMED" /\ fsm'.debounce = fsm.debounce + 1
      BY <2>2, <2>4
    <3>2. p
      BY <1>2, <2>4
    <3>3. fsm.debounce + 1 < CountMax /\ fsm.debounce + 1 <= seen'.primary
      BY <3>2, <2>1, <2>4, <1>3, <1>6
    <3>4. ~corroborate => seen'.strong <= fsm.debounce + 1
      <4>1. seen'.strong = 0 \/ seen'.strong = seen.strong + 1 \/ seen'.strong = seen.strong
        BY <1>6
      <4>2. seen.strong <= fsm.debounce => seen'.strong <= fsm.debounce + 1
        BY <4>1, <1>3
      <4>3. QED
        BY <4>2, <2>1
    <3>5. fsm'.debounce < RequiredFrames(cfg)
      BY <3>1, <2>4
    <3>6. DebounceIsOfEvidence'
      BY <3>1, <3>3, <3>4, <3>5, <1>2 DEF DebounceIsOfEvidence
    <3>7. GuardTyped'
      BY <3>1, <3>3, <1>2, <1>3, <1>5, <1>7 DEF GuardTyped
    <3>8. QED
      BY <3>1, <3>6, <3>7, <1>2 DEF FusionInv, Alarms
  <2>5. CASE q /\ ~(fsm.debounce + 1 < RequiredFrames(cfg))
    <3>1. fsm.debounce + 1 >= RequiredFrames(cfg)
      BY <2>5, <1>3
    <3>2. /\ fsm'.state \in {"PENDING", "TRIGGERED"} \/ (b = 2 /\ fsm'.state = "ARMED")
          /\ fsm'.debounce = 0 /\ (fsm'.state = "TRIGGERED" => b = 1)
      BY <2>2, <2>5, <3>1
    <3>3. p
      BY <1>2, <2>5
    <3>4. seen'.primary >= cfg.debounceFrames
      <4>1. fsm.debounce + 1 <= seen'.primary
        BY <3>3, <2>1, <1>3, <1>6
      <4>2. fsm.debounce + 1 >= cfg.debounceFrames
        BY <3>1, <1>3
      <4>3. QED
        BY <4>1, <4>2, <1>3, <1>7
    <3>5. b = 2 /\ ~corroborate => seen'.strong = 0
      BY <1>2, <1>6
    <3>6. fsm'.debounce < RequiredFrames(cfg) /\ fsm'.debounce < CountMax
          /\ fsm'.debounce <= seen'.primary
      BY <3>2, <1>3, <1>7
    <3>7. GuardTyped'
      BY <3>6, <1>2, <1>3, <1>5, <1>7 DEF GuardTyped
    <3>8. DebounceIsOfEvidence'
      <4>1. fsm'.state = "ARMED" => b = 2
        BY <3>2
      <4>2. 0 <= fsm'.debounce
        BY <3>2
      <4>3. QED
        BY <4>1, <4>2, <3>5, <3>6, <1>2 DEF DebounceIsOfEvidence
    <3>9. fsm'.state = "TRIGGERED" => fused'.reading = "strong"
      BY <3>2, <2>5, <1>2
    <3>10. QED
      BY <3>4, <3>7, <3>8, <3>9, <1>2 DEF FusionInv, Alarms
  <2>6. QED
    BY <2>3, <2>4, <2>5
<1>10. QED
  BY <1>8, <1>9

LEMMA FusionStep ==
  ASSUME FusionInv, [Next]_vars
  PROVE  /\ FusionInv'
         /\ Alarms => seen'.primary >= cfg.debounceFrames
         /\ Alarms /\ fsm'.state = "TRIGGERED" => fused'.reading = "strong"
<1>1. CASE Frame
  BY <1>1, FrameStep
<1>2. CASE TimePasses
  <2>1. /\ UNCHANGED <<fsm, cfg, corroborate>>
        /\ seen' = [seen EXCEPT !.strongFor = Older(@)]
    BY <1>2 DEF TimePasses
  <2>2. /\ DOMAIN seen' = DOMAIN seen /\ seen'.primary = seen.primary
        /\ seen'.strong = seen.strong
    BY <2>1 DEF FusionInv, GuardTyped
  <2>3. QED
    BY <2>1, <2>2 DEF FusionInv, GuardTyped, DebounceIsOfEvidence, Alarms
<1>3. CASE Arm
  <2>1. /\ fsm' = ArmFSM(fsm, TRUE, 0) /\ UNCHANGED <<cfg, corroborate>>
        /\ seen' = IF fsm.state = "DISARMED" THEN Unseen ELSE seen
    BY <1>3 DEF Arm
  <2>2. CASE fsm.state = "DISARMED"
    <3>1. fsm' = [fsm EXCEPT !.state = "ARMED", !.debounce = 0] /\ seen' = Unseen
      BY <2>1, <2>2 DEF ArmFSM, ArmResult
    <3>2. /\ 0 \in 0 .. CountMax /\ 0 < CountMax /\ cfg \in ConfigType
      BY ConfigAssumption DEF FusionInv, GuardTyped
    <3>3. fsm' \in FSMType /\ fsm'.state = "ARMED" /\ fsm'.debounce = 0
      BY <3>1, <3>2 DEF FusionInv, GuardTyped, FSMType, States
    <3>4. /\ DOMAIN seen' = {"primary", "strong", "strongFor"}
          /\ seen'.primary = 0 /\ seen'.strong = 0
      BY <3>1 DEF Unseen
    <3>5. RequiredFrames(cfg) > 0
      BY <3>2 DEF RequiredFrames, ConfigType
    <3>6. GuardTyped'
      BY <3>2, <3>3, <3>4, <2>1 DEF FusionInv, GuardTyped
    <3>7. fsm'.debounce <= seen'.primary /\ seen'.strong <= fsm'.debounce
      BY <3>3, <3>4
    <3>8. fsm'.debounce < RequiredFrames(cfg)
      BY <3>2, <3>3, <3>5 DEF RequiredFrames, ConfigType
    <3>9. DebounceIsOfEvidence'
      BY <3>7, <3>8, <2>1 DEF DebounceIsOfEvidence, RequiredFrames
    <3>10. QED
      BY <3>6, <3>9, <2>2 DEF FusionInv, Alarms
  <2>3. CASE fsm.state # "DISARMED"
    <3>1. fsm' = fsm /\ seen' = seen
      BY <2>1, <2>3 DEF ArmFSM, ArmResult, FusionInv, GuardTyped, FSMType, States
    <3>2. QED
      BY <3>1, <2>1 DEF FusionInv, GuardTyped, DebounceIsOfEvidence, Alarms
  <2>4. QED
    BY <2>2, <2>3
<1>4. CASE Disarm
  <2>1. fsm' = InitialFSM /\ UNCHANGED <<cfg, seen, corroborate>>
    BY <1>4 DEF Disarm, DisarmFSM
  <2>2. fsm' \in FSMType /\ fsm'.state = "DISARMED" /\ fsm'.debounce = 0 /\ 0 < CountMax
    BY <2>1, ClockAssumption, ConfigAssumption DEF InitialFSM, FSMType, States, Instants
  <2>3. QED
    BY <2>1, <2>2 DEF FusionInv, GuardTyped, DebounceIsOfEvidence, Alarms
<1>5. CASE SetCorroborationEnabled
  <2>1. /\ UNCHANGED <<fsm, cfg>>
        /\ seen' = [seen EXCEPT !.strong = 0, !.strongFor = Off]
    BY <1>5 DEF SetCorroborationEnabled
  <2>2. /\ DOMAIN seen' = DOMAIN seen /\ seen'.primary = seen.primary /\ seen'.strong = 0
    BY <2>1 DEF FusionInv, GuardTyped
  <2>3. fsm.debounce \in Nat /\ 0 \in 0 .. CountMax
    BY ConfigAssumption DEF FusionInv, GuardTyped, FSMType
  <2>4. QED
    BY <2>1, <2>2, <2>3 DEF FusionInv, GuardTyped, DebounceIsOfEvidence, Alarms
<1>6. CASE UNCHANGED vars
  BY <1>6 DEF vars, FusionInv, GuardTyped, DebounceIsOfEvidence, Alarms
<1>7. QED
  BY <1>1, <1>2, <1>3, <1>4, <1>5, <1>6 DEF Next

(* The invariant of the guard's evidence, inductive.                       *)
LEMMA FusionInvariance == Spec => []FusionInv
<1>1. Init => FusionInv
  BY ClockAssumption, ConfigAssumption
     DEF Init, InitialFSM, Unseen, FusionInv, GuardTyped, DebounceIsOfEvidence, FSMType,
         States, Instants
<1>2. FusionInv /\ [Next]_vars => FusionInv'
  BY FusionStep
<1>3. QED
  BY <1>1, <1>2, PTL DEF Spec

(* An alarm takes debounceFrames armed frames in a row that each had       *)
(* strong radar energy or CSI motion, whatever the MLP, the corroboration  *)
(* and the zones say (SecurityMonitor::processRadarData()).                *)
THEOREM AlarmsHaveEvidence == Spec => AlarmNeedsPrimaryEvidence
<1>1. FusionInv /\ [Next]_vars => [Alarms => seen'.primary >= cfg.debounceFrames]_vars
  BY FusionStep
<1>2. QED
  BY <1>1, FusionInvariance, PTL DEF Spec, AlarmNeedsPrimaryEvidence

(* Only a radar frame, which has a zone, sets the siren off at once.       *)
THEOREM ImmediateHasRadar == Spec => ImmediateNeedsRadar
<1>1. FusionInv /\ [Next]_vars =>
        [Alarms /\ fsm'.state = "TRIGGERED" => fused'.reading = "strong"]_vars
  BY FusionStep
<1>2. QED
  BY <1>1, FusionInvariance, PTL DEF Spec, ImmediateNeedsRadar

(* Strong radar frames in a row, outside ignore zones, end the guard as    *)
(* soon as the debounce is over, whatever CSI and the fusion verdict say,  *)
(* unless corroboration is on.                                             *)
THEOREM StrongRadarEndsGuard == Spec => StrongRadarAlarms
<1>1. FusionInv /\ [Next]_vars =>
        [fsm'.state = "ARMED" /\ ~corroborate /\ Frame => seen'.strong < RequiredFrames(cfg)]_vars
  <2> SUFFICES ASSUME FusionInv, [Next]_vars, fsm'.state = "ARMED", ~corroborate, Frame
               PROVE  seen'.strong < RequiredFrames(cfg)
    OBVIOUS
  <2>1. FusionInv' /\ UNCHANGED <<cfg, corroborate>>
    BY FrameStep
  <2>2. /\ fsm'.debounce < RequiredFrames(cfg) /\ seen'.strong <= fsm'.debounce
        /\ fsm'.debounce \in Nat /\ seen'.strong \in Nat
    BY <2>1 DEF FusionInv, GuardTyped, DebounceIsOfEvidence, FSMType
  <2>3. RequiredFrames(cfg) \in Nat
    BY ConfigAssumption DEF FusionInv, GuardTyped, RequiredFrames, ConfigType
  <2>4. QED
    BY <2>2, <2>3
<1>2. QED
  BY <1>1, FusionInvariance, PTL DEF Spec, StrongRadarAlarms

-----------------------------------------------------------------------------
(* ZoneLogic: the way somebody came.                                       *)

CurrentTyped ==
  /\ zones \in ZoneLists
  /\ DOMAIN current = {"index", "name"}
  /\ DOMAIN way = {"name", "before", "wobbled", "strong", "refitted"}
  /\ current.index = 0 <=> current.name = "none"

(* Unless the list was changed under a stay, the remembered index is one   *)
(* of the zone with the remembered name.                                   *)
IndexIsOfName ==
  ~way.refitted /\ current.index # 0 =>
    current.index \in DOMAIN zones /\ zones[current.index].name = current.name

(* The zone left last is the one before on the way, gaps left out.         *)
PrevIsBefore ==
  current.name # "none" =>
    way.name = current.name /\ (prevName # "none" => way.before = prevName)

ZoneInv == CurrentTyped /\ IndexIsOfName /\ PrevIsBefore

(* Every set of naturals with a member has a least one.                    *)
LEMMA LeastOf ==
  ASSUME NEW T, T \subseteq Nat, T # {}
  PROVE  \E i \in T : \A j \in T : i <= j
<1>1. PICK below : below = {1 .. i : i \in T}
  OBVIOUS
<1>2. below # {} /\ below \subseteq FiniteSubsetsOf(Nat)
  <2>1. \A i \in T : 1 .. i \subseteq Nat /\ IsFiniteSet(1 .. i)
    BY FS_Interval
  <2>2. QED
    BY <2>1, <1>1 DEF FiniteSubsetsOf
<1>3. PICK b \in below : \A c \in below : ~ (<<c, b>> \in StrictSubsetOrdering(Nat))
  BY <1>2, FS_StrictSubsetOrderingWellFounded, WFMin, Zenon
<1>4. PICK i \in T : b = 1 .. i
  BY <1>1, <1>3
<1>5. ASSUME NEW j \in T, j < i
      PROVE  FALSE
  <2>1. 1 .. j \in below
    BY <1>1
  <2>2. 1 .. j \subseteq 1 .. i /\ 1 .. j # 1 .. i /\ 1 .. i \subseteq Nat /\ 1 .. j \subseteq Nat
    <3>1. i \in 1 .. i /\ i \notin 1 .. j
      BY <1>5
    <3>2. QED
      BY <3>1, <1>5
  <2>3. <<1 .. j, 1 .. i>> \in StrictSubsetOrdering(Nat)
    BY <2>2 DEF StrictSubsetOrdering
  <2>4. QED
    BY <1>3, <1>4, <2>1, <2>3
<1>6. QED
  BY <1>5

LEMMA MatchIs ==
  ASSUME zones \in ZoneLists, NEW distance
  PROVE  Match(distance) = 0 \/ Match(distance) \in DOMAIN zones
<1>1. PICK holding : holding = {i \in DOMAIN zones : Holds(zones[i], distance)}
  OBVIOUS
<1>2. CASE distance = 0 \/ holding = {}
  BY <1>1, <1>2 DEF Match
<1>3. CASE ~(distance = 0 \/ holding = {})
  <2>1. zones \in Seq(ZoneType)
    BY ZoneAssumption
  <2>2. holding \subseteq Nat
    BY <1>1, <2>1
  <2>3. \E i \in holding : \A j \in holding : i <= j
    BY <2>2, <1>3, LeastOf
  <2>4. Match(distance) = CHOOSE i \in holding : \A j \in holding : i <= j
    BY <1>1, <1>3 DEF Match
  <2>5. Match(distance) \in holding
    BY <2>3, <2>4
  <2>6. QED
    BY <1>1, <2>5
<1>4. QED
  BY <1>2, <1>3

(* A frame, if no zone bears the name that stands for none.                *)
LEMMA ZoneFrameStep ==
  ASSUME "none" \notin Names, ZoneInv, ZoneFrame
  PROVE  /\ ZoneInv'
         /\ current'.index # 0 /\ verdict'.behavior = 0 /\ ~way'.refitted =>
              zones[current'.index].prev \in {"", way'.before}
<1>1. PICK distance \in 0..MaxDistance, moving \in BOOLEAN, stays \in BOOLEAN :
        LET match == Match(distance)
            entered == Enter(match)
            left == Leave(entered)
        IN  /\ current' = entered
            /\ prevName' = left
            /\ verdict'.behavior = ZoneBehavior(entered, left)
            /\ DOMAIN way' = {"name", "before", "wobbled", "strong", "refitted"}
            /\ way'.name = (IF entered.name = "none" THEN way.name ELSE entered.name)
            /\ way'.before = (IF entered.name \in {"none", way.name} THEN way.before
                              ELSE way.name)
            /\ way'.refitted = (way.refitted /\ entered.name = current.name)
            /\ zones' = zones
  BY DEF ZoneFrame
<1>2. PICK match : match = Match(distance)
  OBVIOUS
<1>3. PICK entered : entered = Enter(match)
  OBVIOUS
<1>4. PICK left : left = Leave(entered)
  OBVIOUS
<1>5. /\ current' = entered /\ prevName' = left /\ zones' = zones
      /\ verdict'.behavior = ZoneBehavior(entered, left)
      /\ DOMAIN way' = {"name", "before", "wobbled", "strong", "refitted"}
      /\ way'.name = (IF entered.name = "none" THEN way.name ELSE entered.name)
      /\ way'.before = (IF entered.name \in {"none", way.name} THEN way.before ELSE way.name)
      /\ way'.refitted = (way.refitted /\ entered.name = current.name)
  BY <1>1, <1>2, <1>3, <1>4
<1>6. /\ zones \in ZoneLists /\ zones \in Seq(ZoneType) /\ DOMAIN current = {"index", "name"}
      /\ current.index = 0 <=> current.name = "none"
  BY ZoneAssumption DEF ZoneInv, CurrentTyped
<1>7. match = 0 \/ match \in DOMAIN zones
  BY <1>2, <1>6, MatchIs
<1>8. \A i \in DOMAIN zones : zones[i] \in ZoneType /\ zones[i].name \in Names /\ i # 0
  BY <1>6 DEF Names
<1>9. /\ NameAt(match) = "none" <=> match = 0
      /\ match # 0 => match \in DOMAIN zones /\ NameAt(match) = zones[match].name
  BY <1>7, <1>8 DEF NameAt
<1>10. \/ entered = current /\ left = prevName
       \/ /\ entered.name # current.name /\ left = current.name
          /\ entered.index = match /\ entered.name = NameAt(match)
          /\ DOMAIN entered = {"index", "name"}
  BY <1>3, <1>4 DEF Enter, Leave
<1>11. CurrentTyped'
  BY <1>5, <1>6, <1>9, <1>10 DEF CurrentTyped
<1>12. IndexIsOfName'
  BY <1>5, <1>6, <1>9, <1>10 DEF ZoneInv, IndexIsOfName
<1>13. PrevIsBefore'
  BY <1>5, <1>10 DEF ZoneInv, PrevIsBefore
<1>14. ASSUME current'.index # 0, verdict'.behavior = 0, ~way'.refitted
       PROVE  zones[current'.index].prev \in {"", way'.before}
  <2>1. entered.index \in DOMAIN zones /\ entered.name # "none"
    BY <1>5, <1>11, <1>12, <1>14 DEF CurrentTyped, IndexIsOfName
  <2>2. ZoneBehavior(entered, left) = 0 /\ Valid(entered)
    BY <2>1, <1>5, <1>14 DEF Valid
  <2>3. zones[entered.index].prev \in {"", left}
    <3>1. CASE zones[entered.index].behavior = 0
      <4>1. zones[entered.index].prev \notin {"", left} => ZoneBehavior(entered, left) = 1
        BY <3>1, <2>2, Zenon DEF ZoneBehavior
      <4>2. 0 # 1
        OBVIOUS
      <4>3. QED
        BY <4>1, <4>2, <2>2, Zenon
    <3>2. CASE zones[entered.index].behavior # 0
      BY <3>2, <2>2 DEF ZoneBehavior
    <3>3. QED
      BY <3>1, <3>2
  <2>4. zones[entered.index].prev \in Names \cup {""}
    BY <2>1, <1>8 DEF ZoneType
  <2>5. left # "none" => way'.before = left
    BY <2>1, <1>5, <1>13 DEF PrevIsBefore
  <2>6. QED
    BY <2>3, <2>4, <2>5, <1>5
<1>15. QED
  BY <1>11, <1>12, <1>13, <1>14 DEF ZoneInv

LEMMA ZoneStep ==
  ASSUME "none" \notin Names, ZoneInv, [ZoneNext]_zoneVars
  PROVE  ZoneInv'
<1>1. CASE ZoneFrame
  BY <1>1, ZoneFrameStep
<1>2. CASE ArmZones
  <2>1. UNCHANGED <<zones, current, prevName>> /\ way' = [way EXCEPT !.wobbled = FALSE]
    BY <1>2 DEF ArmZones
  <2>2. /\ DOMAIN way' = DOMAIN way /\ way'.name = way.name /\ way'.before = way.before
        /\ way'.refitted = way.refitted
    BY <2>1 DEF ZoneInv, CurrentTyped
  <2>3. QED
    BY <2>1, <2>2 DEF ZoneInv, CurrentTyped, IndexIsOfName, PrevIsBefore
<1>3. CASE SetZones
  <2>1. /\ UNCHANGED <<current, prevName>> /\ zones' \in ZoneLists
        /\ way' = [way EXCEPT !.refitted = @ \/ Outdated(zones')]
    BY <1>3 DEF SetZones
  <2>2. /\ DOMAIN way' = DOMAIN way /\ way'.name = way.name /\ way'.before = way.before
        /\ way'.refitted = (way.refitted \/ Outdated(zones'))
    BY <2>1 DEF ZoneInv, CurrentTyped
  <2>3. ~way'.refitted /\ current.index # 0 =>
          current.index \in DOMAIN zones' /\ zones'[current.index].name = current.name
    BY <2>2 DEF Outdated
  <2>4. QED
    BY <2>1, <2>2, <2>3 DEF ZoneInv, CurrentTyped, IndexIsOfName, PrevIsBefore
<1>4. CASE UNCHANGED zoneVars
  BY <1>4 DEF zoneVars, ZoneInv, CurrentTyped, IndexIsOfName, PrevIsBefore
<1>5. QED
  BY <1>1, <1>2, <1>3, <1>4 DEF ZoneNext

(* Whoever gets the entry delay of a zone that must be reached through     *)
(* another was last seen, outside it, in the right one, however the list   *)
(* of zones was replaced meanwhile -- as long as no zone is itself called  *)
(* "none", the name processRadarData() uses for no zone at all.            *)
THEOREM DelayNeedsThePath ==
  ASSUME "none" \notin Names
  PROVE  ZoneSpec => DelayOnlyOnTheRightPath
<1>1. ZoneInit => ZoneInv
  BY DEF ZoneInit, ZoneInv, CurrentTyped, IndexIsOfName, PrevIsBefore
<1>2. ZoneInv /\ [ZoneNext]_zoneVars => ZoneInv'
  BY ZoneStep
<1>3. ZoneInv /\ [ZoneNext]_zoneVars =>
        [current'.index # 0 /\ verdict'.due = 0 /\ verdict'.behavior = 0
           /\ ~way'.refitted /\ ZoneFrame =>
             zones[current'.index].prev \in {"", way'.before}]_zoneVars
  BY ZoneFrameStep
<1>4. QED
  BY <1>1, <1>2, <1>3, PTL DEF ZoneSpec, DelayOnlyOnTheRightPath

-----------------------------------------------------------------------------
(* CsiMl: what the ring of shares holds, and what their averages say.      *)

(* Induction up to m, for a property that is given as a set.               *)
LEMMA UpTo ==
  ASSUME NEW m \in Nat, NEW S, 0 \in S, \A n \in 0 .. m - 1 : n \in S => n + 1 \in S
  PROVE  0 .. m \subseteq S
<1>1. PICK rest : rest = {n \in 0 .. m : n \notin S}
  OBVIOUS
<1>2. SUFFICES ASSUME rest # {} PROVE FALSE
  BY <1>1
<1>3. PICK n \in rest : \A j \in rest : n <= j
  BY <1>1, <1>2, LeastOf
<1>4. n \in 0 .. m /\ n # 0 /\ n - 1 \in 0 .. m - 1 /\ n = (n - 1) + 1
  BY <1>1, <1>3
<1>5. n - 1 \in S
  BY <1>1, <1>3, <1>4
<1>6. QED
  BY <1>1, <1>3, <1>4, <1>5

Shares == 0 .. 100

LEMMA SharesAre == \A x \in Shares : x \in Nat /\ x <= 100
BY DEF Shares

(* The sums of the first n shares; the definition in Average has a value.  *)
SumsOf(f, s) == f = [n \in 0 .. Len(s) |-> IF n = 0 THEN 0 ELSE f[n - 1] + s[n]]
SumsTo(f, s, m) ==
  /\ f \in [0 .. m -> Nat] /\ f[0] = 0
  /\ \A n \in 1 .. m : f[n] = f[n - 1] + s[n]

LEMMA SumsExist ==
  ASSUME NEW s \in Seq(Shares)
  PROVE  \E f : SumsOf(f, s)
<1>1. Len(s) \in Nat /\ \A n \in 1 .. Len(s) : s[n] \in Nat
  <2>1. Len(s) \in Nat /\ \A n \in 1 .. Len(s) : s[n] \in Shares
    OBVIOUS
  <2>2. QED
    BY <2>1, SharesAre
<1>2. PICK S : S = {m \in 0 .. Len(s) : \E f : SumsTo(f, s, m)}
  OBVIOUS
<1>3. 0 \in S
  <2>1. SumsTo([n \in 0 .. 0 |-> 0], s, 0)
    BY DEF SumsTo
  <2>2. QED
    BY <1>1, <1>2, <2>1
<1>4. ASSUME NEW m \in 0 .. Len(s) - 1, m \in S
      PROVE  m + 1 \in S
  <2>1. PICK f : SumsTo(f, s, m)
    BY <1>2, <1>4
  <2>2. m \in Nat /\ m + 1 \in 0 .. Len(s) /\ s[m + 1] \in Nat
    BY <1>1
  <2>3. f \in [0 .. m -> Nat] /\ f[0] = 0 /\ \A n \in 1 .. m : f[n] = f[n - 1] + s[n]
    BY <2>1 DEF SumsTo
  <2>4. PICK g : g = [n \in 0 .. m + 1 |-> IF n <= m THEN f[n] ELSE f[m] + s[m + 1]]
    OBVIOUS
  <2>5. g \in [0 .. m + 1 -> Nat] /\ g[0] = 0
    BY <2>2, <2>3, <2>4
  <2>6. ASSUME NEW n \in 1 .. m + 1
        PROVE  g[n] = g[n - 1] + s[n]
    <3>1. CASE n <= m
      <4>1. n \in 1 .. m /\ n \in 0 .. m + 1 /\ n - 1 \in 0 .. m + 1 /\ n - 1 <= m
        BY <2>2, <3>1
      <4>2. g[n] = f[n] /\ g[n - 1] = f[n - 1]
        BY <2>4, <3>1, <4>1
      <4>3. QED
        BY <2>3, <4>1, <4>2
    <3>2. CASE n = m + 1
      <4>1. n \in 0 .. m + 1 /\ n - 1 \in 0 .. m + 1 /\ n - 1 = m /\ ~(n <= m) /\ m <= m
        BY <2>2, <3>2
      <4>2. g[n] = f[m] + s[m + 1] /\ g[n - 1] = f[m]
        BY <2>4, <4>1
      <4>3. QED
        BY <3>2, <4>2
    <3>3. QED
      BY <2>2, <3>1, <3>2
  <2>7. SumsTo(g, s, m + 1)
    BY <2>5, <2>6 DEF SumsTo
  <2>8. QED
    BY <1>2, <2>2, <2>7
<1>5. Len(s) \in S
  <2>1. PICK m : m = Len(s)
    OBVIOUS
  <2>2. m \in Nat /\ \A n \in 0 .. m - 1 : n \in S => n + 1 \in S
    BY <1>1, <1>4, <2>1
  <2>3. 0 .. m \subseteq S
    BY <1>3, <2>2, UpTo
  <2>4. QED
    BY <2>1, <2>2, <2>3
<1>6. PICK f : SumsTo(f, s, Len(s))
  BY <1>2, <1>5
<1>7. f = [n \in 0 .. Len(s) |-> f[n]]
  BY <1>6 DEF SumsTo
<1>8. \A n \in 0 .. Len(s) : f[n] = IF n = 0 THEN 0 ELSE f[n - 1] + s[n]
  BY <1>1, <1>6 DEF SumsTo
<1>9. f = [n \in 0 .. Len(s) |-> IF n = 0 THEN 0 ELSE f[n - 1] + s[n]]
  BY <1>7, <1>8
<1>10. QED
  BY <1>9 DEF SumsOf

LEMMA AverageIs ==
  ASSUME NEW s \in Seq(Shares)
  PROVE  \E f : SumsOf(f, s) /\ Average(s) = f[Len(s)] \div Len(s)
<1>1. Average(s) = (CHOOSE f : SumsOf(f, s))[Len(s)] \div Len(s)
  BY DEF Average, SumsOf
<1>2. QED
  BY <1>1, SumsExist

LEMMA SumsAre ==
  ASSUME NEW s \in Seq(Shares), NEW f, SumsOf(f, s)
  PROVE  /\ f[0] = 0
         /\ \A n \in 1 .. Len(s) : f[n] = f[n - 1] + s[n] /\ s[n] \in Shares
         /\ \A n \in 0 .. Len(s) : f[n] \in Nat
<1>1. Len(s) \in Nat /\ \A n \in 1 .. Len(s) : s[n] \in Shares
  OBVIOUS
<1>2. \A n \in 1 .. Len(s) : s[n] \in Nat
  BY <1>1, SharesAre
<1>3. \A n \in 0 .. Len(s) : f[n] = IF n = 0 THEN 0 ELSE f[n - 1] + s[n]
  BY DEF SumsOf
<1>4. f[0] = 0 /\ \A n \in 1 .. Len(s) : f[n] = f[n - 1] + s[n]
  BY <1>1, <1>3
<1>5. PICK m : m = Len(s)
  OBVIOUS
<1>6. PICK S : S = {n \in 0 .. m : f[n] \in Nat}
  OBVIOUS
<1>7. m \in Nat /\ 0 \in S
  BY <1>1, <1>4, <1>5, <1>6
<1>8. ASSUME NEW n \in 0 .. m - 1, n \in S
      PROVE  n + 1 \in S
  <2>1. n + 1 \in 1 .. m /\ n + 1 \in 0 .. m /\ (n + 1) - 1 = n /\ f[n] \in Nat
    BY <1>6, <1>7, <1>8
  <2>2. f[n + 1] = f[n] + s[n + 1] /\ s[n + 1] \in Nat
    BY <1>2, <1>4, <1>5, <2>1
  <2>3. QED
    BY <1>6, <2>1, <2>2
<1>9. 0 .. m \subseteq S
  BY <1>7, <1>8, UpTo
<1>10. QED
  BY <1>1, <1>4, <1>5, <1>6, <1>9

(* k more shares add at most 100 each.                                     *)
LEMMA SumsGrow ==
  ASSUME NEW s \in Seq(Shares), NEW f, SumsOf(f, s), NEW r \in 0 .. Len(s)
  PROVE  f[Len(s)] <= f[r] + 100 * (Len(s) - r)
<1>1. /\ Len(s) \in Nat /\ r \in Nat /\ r <= Len(s)
      /\ \A n \in 0 .. Len(s) : f[n] \in Nat
      /\ \A n \in 1 .. Len(s) : f[n] = f[n - 1] + s[n] /\ s[n] \in Nat /\ s[n] <= 100
  BY SumsAre, SharesAre
<1>2. PICK m : m = Len(s) - r
  OBVIOUS
<1>3. PICK S : S = {k \in 0 .. m : f[r + k] <= f[r] + 100 * k}
  OBVIOUS
<1>4. m \in Nat /\ 0 \in S
  <2>1. m \in Nat /\ r + 0 = r /\ f[r] <= f[r] + 100 * 0
    BY <1>1, <1>2
  <2>2. QED
    BY <1>3, <2>1
<1>5. ASSUME NEW k \in 0 .. m - 1, k \in S
      PROVE  k + 1 \in S
  <2>1. /\ r + (k + 1) \in 1 .. Len(s) /\ (r + (k + 1)) - 1 = r + k /\ k + 1 \in 0 .. m
        /\ r + k \in 0 .. Len(s) /\ k \in Nat
    BY <1>1, <1>2, <1>4
  <2>2. /\ f[r + (k + 1)] = f[r + k] + s[r + (k + 1)]
        /\ s[r + (k + 1)] \in Nat /\ s[r + (k + 1)] <= 100
    BY <1>1, <2>1
  <2>3. f[r + k] \in Nat /\ f[r] \in Nat /\ f[r + k] <= f[r] + 100 * k
    BY <1>1, <1>3, <1>5, <2>1
  <2>4. f[r + (k + 1)] <= f[r] + 100 * (k + 1)
    <3>1. PICK x, y, z, w : x = f[r + (k + 1)] /\ y = f[r + k] /\ z = s[r + (k + 1)] /\ w = f[r]
      OBVIOUS
    <3>2. /\ x = y + z /\ y \in Nat /\ z \in Nat /\ w \in Nat /\ z <= 100
          /\ y <= w + 100 * k /\ k \in Nat
      BY <2>1, <2>2, <2>3, <3>1
    <3>3. x <= w + 100 * (k + 1)
      BY <3>2
    <3>4. QED
      BY <3>1, <3>3
  <2>5. QED
    BY <1>3, <2>1, <2>4
<1>6. 0 .. m \subseteq S
  BY <1>4, <1>5, UpTo
<1>7. m \in S /\ r + m = Len(s)
  BY <1>1, <1>2, <1>4, <1>6
<1>8. QED
  BY <1>2, <1>3, <1>7

(* The newest r shares sum up to what all do after r.                      *)
LEMMA SumsOfNewest ==
  ASSUME NEW s \in Seq(Shares), NEW r \in 1 .. Len(s), NEW f, NEW g,
         SumsOf(f, s), SumsOf(g, SubSeq(s, 1, r))
  PROVE  f[r] = g[r]
<1>1. PICK p : p = SubSeq(s, 1, r)
  OBVIOUS
<1>2. /\ p \in Seq(Shares) /\ Len(p) = r /\ r \in Nat /\ r <= Len(s) /\ Len(s) \in Nat
      /\ \A n \in 1 .. r : p[n] = s[n]
  BY <1>1
<1>3. /\ f[0] = 0 /\ g[0] = 0
      /\ \A n \in 1 .. Len(s) : f[n] = f[n - 1] + s[n]
      /\ \A n \in 1 .. r : g[n] = g[n - 1] + p[n]
  <2>1. SumsOf(g, p)
    BY <1>1
  <2>2. g[0] = 0 /\ \A n \in 1 .. Len(p) : g[n] = g[n - 1] + p[n]
    BY <1>2, <2>1, SumsAre
  <2>3. f[0] = 0 /\ \A n \in 1 .. Len(s) : f[n] = f[n - 1] + s[n]
    BY SumsAre
  <2>4. QED
    BY <1>2, <2>2, <2>3
<1>4. PICK S : S = {n \in 0 .. r : f[n] = g[n]}
  OBVIOUS
<1>5. 0 \in S
  BY <1>2, <1>3, <1>4
<1>6. ASSUME NEW n \in 0 .. r - 1, n \in S
      PROVE  n + 1 \in S
  <2>1. /\ n + 1 \in 1 .. r /\ n + 1 \in 1 .. Len(s) /\ n + 1 \in 0 .. r /\ (n + 1) - 1 = n
    BY <1>2
  <2>2. f[n + 1] = f[n] + s[n + 1] /\ g[n + 1] = g[n] + p[n + 1] /\ p[n + 1] = s[n + 1]
    BY <1>2, <1>3, <2>1
  <2>3. f[n] = g[n]
    BY <1>4, <1>6
  <2>4. QED
    BY <1>4, <2>1, <2>2, <2>3
<1>7. 0 .. r \subseteq S
  BY <1>2, <1>5, <1>6, UpTo
<1>8. QED
  BY <1>2, <1>4, <1>7

LEMMA DivAtLeast ==
  ASSUME NEW x \in Nat, NEW n \in Nat \ {0}
  PROVE  /\ x \div n \in Nat
         /\ x \div n >= 95 => x >= 95 * n
         /\ x >= 50 * n => x \div n >= 50
         /\ x <= 100 * n => x \div n <= 100
<1>1. PICK q : q = x \div n
  OBVIOUS
<1>2. q \in Nat /\ x = n * q + (x % n) /\ x % n \in 0 .. n - 1
  BY <1>1
<1>3. QED
  BY <1>1, <1>2

(* A window that saturates the guard does not end with a recovery.         *)
LEMMA StuckIsNotBehaving ==
  ASSUME NEW s \in Seq(Shares), Len(s) = WindowMinutes, Average(s) >= 95
  PROVE  Average(SubSeq(s, 1, RecoverMinutes)) >= 50
<1>1. /\ WindowMinutes \in Nat \ {0} /\ RecoverMinutes \in Nat \ {0}
      /\ RecoverMinutes <= WindowMinutes /\ WindowMinutes <= 10 * RecoverMinutes
      /\ RecoverMinutes \in 1 .. Len(s) /\ RecoverMinutes \in 0 .. Len(s)
  BY GuardAssumption
<1>2. PICK p : p = SubSeq(s, 1, RecoverMinutes)
  OBVIOUS
<1>3. p \in Seq(Shares) /\ Len(p) = RecoverMinutes
  BY <1>1, <1>2
<1>4. PICK f : SumsOf(f, s) /\ Average(s) = f[WindowMinutes] \div WindowMinutes
  BY AverageIs
<1>5. PICK g : SumsOf(g, p) /\ Average(p) = g[RecoverMinutes] \div RecoverMinutes
  BY <1>3, AverageIs
<1>6. /\ f[WindowMinutes] \in Nat /\ f[RecoverMinutes] \in Nat
      /\ f[WindowMinutes] <= f[RecoverMinutes] + 100 * (WindowMinutes - RecoverMinutes)
      /\ f[RecoverMinutes] = g[RecoverMinutes]
  BY <1>1, <1>2, <1>4, <1>5, SumsAre, SumsGrow, SumsOfNewest
<1>7. f[WindowMinutes] >= 95 * WindowMinutes
  BY <1>1, <1>4, <1>6, DivAtLeast
<1>8. g[RecoverMinutes] \in Nat /\ g[RecoverMinutes] >= 50 * RecoverMinutes
  BY <1>1, <1>6, <1>7
<1>9. QED
  BY <1>1, <1>2, <1>5, <1>8, DivAtLeast

(* The ring: where the i-th share counted from the newest is.              *)
Back(x) == IF x < WindowMinutes THEN x ELSE x - WindowMinutes
Place(g, i) == Back(g.head + g.count - i)

GuardType ==
  [duty : [0 .. WindowMinutes - 1 -> Shares], head : 0 .. WindowMinutes - 1,
   count : 0 .. WindowMinutes, curTicks : Nat, curTrue : Nat, saturated : BOOLEAN]

LEMMA GuardFields ==
  ASSUME NEW g \in GuardType
  PROVE  /\ g.head \in 0 .. WindowMinutes - 1 /\ g.count \in 0 .. WindowMinutes
         /\ g.curTicks \in Nat /\ g.curTrue \in Nat
         /\ g.duty \in [0 .. WindowMinutes - 1 -> Shares] /\ g.saturated \in BOOLEAN
BY DEF GuardType

LEMMA InRing ==
  ASSUME NEW x \in 0 .. (2 * WindowMinutes - 1)
  PROVE  x % WindowMinutes = Back(x) /\ Back(x) \in 0 .. WindowMinutes - 1
<1>1. WindowMinutes \in Nat \ {0}
  BY GuardAssumption
<1>2. CASE x < WindowMinutes
  BY <1>1, <1>2 DEF Back
<1>3. CASE x >= WindowMinutes
  <2>1. x - WindowMinutes \in 0 .. (WindowMinutes - 1)
    BY <1>1, <1>3
  <2>2. x % WindowMinutes = (x - WindowMinutes) % WindowMinutes
    BY <1>1, <1>3
  <2>3. QED
    BY <1>1, <1>3, <2>1, <2>2 DEF Back
<1>4. QED
  BY <1>1, <1>2, <1>3

LEMMA PlaceIs ==
  ASSUME NEW g \in GuardType, NEW i \in 1 .. g.count
  PROVE  /\ Place(g, i) \in 0 .. WindowMinutes - 1
         /\ (g.head + g.count - i) % WindowMinutes = Place(g, i)
<1>1. PICK x : x = g.head + g.count - i
  OBVIOUS
<1>2. x \in 0 .. (2 * WindowMinutes - 1)
  BY <1>1, GuardFields, GuardAssumption
<1>3. x % WindowMinutes = Back(x) /\ Back(x) \in 0 .. WindowMinutes - 1
  BY <1>2, InRing
<1>4. QED
  BY <1>1, <1>3 DEF Place

(* Counting back, in a ring that grows and in one that is full.            *)
LEMMA Growing ==
  ASSUME NEW a \in 0 .. WindowMinutes - 1, NEW c \in 0 .. WindowMinutes - 1,
         NEW i \in 2 .. c + 1
  PROVE  /\ i - 1 \in 1 .. c /\ Back(a + (c + 1) - i) = Back(a + c - (i - 1))
         /\ Back(a + (c + 1) - i) \in 0 .. WindowMinutes - 1
         /\ Back(a + (c + 1) - i) # Back(a + c)
<1>1. WindowMinutes \in Nat \ {0}
  BY GuardAssumption
<1>2. i - 1 \in 1 .. c /\ a + (c + 1) - i = a + c - (i - 1)
  BY <1>1
<1>3. QED
  BY <1>1, <1>2 DEF Back

LEMMA Turning ==
  ASSUME NEW a \in 0 .. WindowMinutes - 1, NEW i \in 2 .. WindowMinutes
  PROVE  /\ i - 1 \in 1 .. WindowMinutes
         /\ Back(Back(a + 1) + WindowMinutes - i) = Back(a + WindowMinutes - (i - 1))
         /\ Back(Back(a + 1) + WindowMinutes - i) \in 0 .. WindowMinutes - 1
         /\ Back(Back(a + 1) + WindowMinutes - i) # a
BY GuardAssumption DEF Back

LEMMA Newest1 ==
  ASSUME NEW a \in 0 .. WindowMinutes - 1
  PROVE  Back(Back(a + 1) + WindowMinutes - 1) = a
BY GuardAssumption DEF Back

(* A share pushed is the newest; the others move back by one.              *)
LEMMA PushedIs ==
  ASSUME NEW g \in GuardType, NEW pct \in Shares
  PROVE  \E h \in GuardType :
           /\ h = pushBucket(g, pct)
           /\ h.count = IF g.count < WindowMinutes THEN g.count + 1 ELSE WindowMinutes
           /\ h.duty[Place(h, 1)] = pct
           /\ \A i \in 2 .. h.count : i - 1 \in 1 .. g.count
                                      /\ h.duty[Place(h, i)] = g.duty[Place(g, i - 1)]
           /\ h.saturated = g.saturated /\ h.curTicks = g.curTicks /\ h.curTrue = g.curTrue
<1>1. /\ WindowMinutes \in Nat \ {0}
      /\ g.head \in 0 .. WindowMinutes - 1 /\ g.count \in 0 .. WindowMinutes
      /\ g.duty \in [0 .. WindowMinutes - 1 -> Shares]
  BY GuardFields, GuardAssumption
<1>2. CASE g.count < WindowMinutes
  <2>1. PICK p : p = Back(g.head + g.count)
    OBVIOUS
  <2>2. g.head + g.count \in 0 .. (2 * WindowMinutes - 1)
    BY <1>1, <1>2
  <2>3. (g.head + g.count) % WindowMinutes = p /\ p \in 0 .. WindowMinutes - 1
    BY <2>1, <2>2, InRing
  <2>4. PICK h : h = [g EXCEPT !.duty[p] = pct, !.count = @ + 1]
    OBVIOUS
  <2>5. h = pushBucket(g, pct)
    BY <1>2, <2>3, <2>4 DEF pushBucket
  <2>6. [g.duty EXCEPT ![p] = pct] \in [0 .. WindowMinutes - 1 -> Shares]
    BY <1>1
  <2>7. /\ h \in GuardType /\ h.head = g.head /\ h.count = g.count + 1
        /\ h.duty = [g.duty EXCEPT ![p] = pct]
        /\ h.saturated = g.saturated /\ h.curTicks = g.curTicks /\ h.curTrue = g.curTrue
    <3>1. g.count + 1 \in 0 .. WindowMinutes
      BY <1>1, <1>2
    <3>2. QED
      BY <2>4, <2>6, <3>1 DEF GuardType
  <2>8. Place(h, 1) = p
    <3>1. g.head + (g.count + 1) - 1 = g.head + g.count
      BY <1>1
    <3>2. QED
      BY <2>1, <2>7, <3>1 DEF Place
  <2>9. ASSUME NEW i \in 2 .. h.count
        PROVE  /\ i - 1 \in 1 .. g.count
               /\ Place(h, i) = Place(g, i - 1) /\ Place(h, i) # p
               /\ Place(h, i) \in 0 .. WindowMinutes - 1
    <3>1. g.count \in 0 .. WindowMinutes - 1 /\ i \in 2 .. g.count + 1
      BY <1>1, <1>2, <2>7, <2>9
    <3>2. /\ i - 1 \in 1 .. g.count
          /\ Back(g.head + (g.count + 1) - i) = Back(g.head + g.count - (i - 1))
          /\ Back(g.head + (g.count + 1) - i) \in 0 .. WindowMinutes - 1
          /\ Back(g.head + (g.count + 1) - i) # Back(g.head + g.count)
      BY <1>1, <3>1, Growing
    <3>3. QED
      BY <2>1, <2>7, <3>2 DEF Place
  <2>10. h.duty[p] = pct /\ \A q \in 0 .. WindowMinutes - 1 : q # p => h.duty[q] = g.duty[q]
    <3>1. h.duty = [g.duty EXCEPT ![p] = pct]
      BY <2>7
    <3>2. QED
      BY <1>1, <2>3, <3>1
  <2>11. /\ h.count = IF g.count < WindowMinutes THEN g.count + 1 ELSE WindowMinutes
         /\ h.duty[Place(h, 1)] = pct
         /\ \A i \in 2 .. h.count : i - 1 \in 1 .. g.count
                                    /\ h.duty[Place(h, i)] = g.duty[Place(g, i - 1)]
    BY <1>2, <2>7, <2>8, <2>9, <2>10
  <2>12. QED
    BY <2>5, <2>7, <2>11
<1>3. CASE g.count >= WindowMinutes
  <2>1. PICK p : p = g.head
    OBVIOUS
  <2>2. p \in 0 .. WindowMinutes - 1 /\ g.count = WindowMinutes
    BY <1>1, <1>3, <2>1
  <2>3. (g.head + 1) % WindowMinutes = Back(p + 1) /\ Back(p + 1) \in 0 .. WindowMinutes - 1
    <3>1. p + 1 \in 0 .. (2 * WindowMinutes - 1)
      BY <1>1, <2>2
    <3>2. QED
      BY <2>1, <3>1, InRing
  <2>4. PICK h : h = [g EXCEPT !.duty[p] = pct, !.head = Back(p + 1)]
    OBVIOUS
  <2>5. h = pushBucket(g, pct)
    <3>1. ~(g.count < WindowMinutes)
      BY <1>1, <1>3
    <3>2. pushBucket(g, pct) = [g EXCEPT !.duty[g.head] = pct, !.head = (@ + 1) % WindowMinutes]
      BY <3>1 DEF pushBucket
    <3>3. QED
      BY <2>1, <2>3, <2>4, <3>2
  <2>6. [g.duty EXCEPT ![p] = pct] \in [0 .. WindowMinutes - 1 -> Shares]
    BY <1>1
  <2>7. /\ h \in GuardType /\ h.head = Back(p + 1) /\ h.count = WindowMinutes
        /\ h.duty = [g.duty EXCEPT ![p] = pct]
        /\ h.saturated = g.saturated /\ h.curTicks = g.curTicks /\ h.curTrue = g.curTrue
    BY <2>2, <2>3, <2>4, <2>6 DEF GuardType
  <2>8. Place(h, 1) = p
    BY <2>2, <2>7, Newest1 DEF Place
  <2>9. ASSUME NEW i \in 2 .. h.count
        PROVE  /\ i - 1 \in 1 .. g.count
               /\ Place(h, i) = Place(g, i - 1) /\ Place(h, i) # p
               /\ Place(h, i) \in 0 .. WindowMinutes - 1
    <3>1. i \in 2 .. WindowMinutes
      BY <2>7, <2>9
    <3>2. QED
      BY <2>1, <2>2, <2>7, <3>1, Turning DEF Place
  <2>10. h.duty[p] = pct /\ \A q \in 0 .. WindowMinutes - 1 : q # p => h.duty[q] = g.duty[q]
    <3>1. h.duty = [g.duty EXCEPT ![p] = pct]
      BY <2>7
    <3>2. QED
      BY <1>1, <2>2, <3>1
  <2>11. h.count = IF g.count < WindowMinutes THEN g.count + 1 ELSE WindowMinutes
    BY <1>1, <2>2, <2>7
  <2>12. /\ h.duty[Place(h, 1)] = pct
         /\ \A i \in 2 .. h.count : i - 1 \in 1 .. g.count
                                    /\ h.duty[Place(h, i)] = g.duty[Place(g, i - 1)]
    BY <2>8, <2>9, <2>10
  <2>13. QED
    BY <2>5, <2>7, <2>11, <2>12
<1>4. QED
  BY <1>1, <1>2, <1>3

-----------------------------------------------------------------------------
(* The guard g and the shares s of the last minutes, the newest first.     *)

RingHolds(g, s) ==
  /\ g \in GuardType /\ s \in Seq(Shares) /\ Len(s) = g.count
  /\ \A i \in 1 .. g.count : s[i] = g.duty[Place(g, i)]

Trusts(g, s) ==
  /\ g.saturated => /\ Len(s) = WindowMinutes
                    /\ Average(SubSeq(s, 1, RecoverMinutes)) >= 50
  /\ Len(s) = WindowMinutes /\ Average(SubSeq(s, 1, WindowMinutes)) >= 95 => g.saturated

Judges(g, s) == RingHolds(g, s) /\ g.curTrue <= g.curTicks /\ Trusts(g, s)

LEMMA DutyIs ==
  ASSUME NEW g, NEW s, RingHolds(g, s), NEW n \in 1 .. g.count
  PROVE  /\ dutyPct(g, n) = Average(SubSeq(s, 1, n)) /\ dutyPct(g, n) \in Nat
         /\ SubSeq(s, 1, n) \in Seq(Shares) /\ Len(SubSeq(s, 1, n)) = n
<1>1. /\ g \in GuardType /\ s \in Seq(Shares) /\ Len(s) = g.count
      /\ \A i \in 1 .. g.count : s[i] = g.duty[Place(g, i)]
  BY DEF RingHolds
<1>2. g.count \in Nat /\ n \in Nat /\ n # 0 /\ n <= g.count
  BY <1>1, GuardFields, GuardAssumption
<1>3. PICK p : p = SubSeq(s, 1, n)
  OBVIOUS
<1>4. p \in Seq(Shares) /\ Len(p) = n /\ \A i \in 1 .. n : p[i] = s[i]
  BY <1>1, <1>2, <1>3
<1>5. \A i \in 1 .. n : p[i] = g.duty[(g.head + g.count - i) % WindowMinutes]
  <2> SUFFICES ASSUME NEW i \in 1 .. n
               PROVE  p[i] = g.duty[(g.head + g.count - i) % WindowMinutes]
    OBVIOUS
  <2>1. i \in 1 .. g.count
    BY <1>2
  <2>2. QED
    BY <1>1, <1>4, <2>1, PlaceIs
<1>6. p = [i \in 1 .. n |-> g.duty[(g.head + g.count - i) % WindowMinutes]]
  <2>1. p = [i \in 1 .. n |-> p[i]]
    BY <1>4
  <2>2. QED
    BY <1>5, <2>1
<1>7. ~(g.count < n)
  BY <1>2
<1>8. dutyPct(g, n) = Average(p)
  BY <1>2, <1>6, <1>7 DEF dutyPct
<1>9. Average(p) \in Nat
  <2>1. PICK f : SumsOf(f, p) /\ Average(p) = f[n] \div n
    BY <1>4, AverageIs
  <2>2. n \in 0 .. Len(p)
    BY <1>2, <1>4
  <2>3. f[n] \in Nat
    BY <1>4, <2>1, <2>2, SumsAre
  <2>4. QED
    BY <1>2, <2>1, <2>3, DivAtLeast
<1>10. QED
  BY <1>3, <1>4, <1>8, <1>9

LEMMA ShareIs ==
  ASSUME NEW g \in GuardType, g.curTrue <= g.curTicks, g.curTicks > 0
  PROVE  Share(g) \in Shares
<1>1. PICK a, b : a = g.curTrue /\ b = g.curTicks
  OBVIOUS
<1>2. a \in Nat /\ b \in Nat \ {0} /\ a * 100 \in Nat /\ a * 100 <= 100 * b
  BY <1>1, GuardFields
<1>3. (a * 100) \div b \in Nat /\ (a * 100) \div b <= 100
  BY <1>2, DivAtLeast
<1>4. Share(g) = (a * 100) \div b
  BY <1>1 DEF Share
<1>5. QED
  BY <1>3, <1>4 DEF Shares

LEMMA Counted ==
  ASSUME NEW g, NEW s, NEW v, Judges(g, s)
  PROVE  Judges(Count(g, v), s)
<1>1. g \in GuardType /\ g.curTrue <= g.curTicks /\ RingHolds(g, s) /\ Trusts(g, s)
  BY DEF Judges, RingHolds
<1>2. g.curTicks \in Nat /\ g.curTrue \in Nat
  BY <1>1, GuardFields
<1>3. PICK n : n = IF v THEN g.curTrue + 1 ELSE g.curTrue
  OBVIOUS
<1>4. n \in Nat /\ n <= g.curTicks + 1 /\ g.curTicks + 1 \in Nat
  BY <1>1, <1>2, <1>3
<1>5. PICK h : h = [g EXCEPT !.curTicks = g.curTicks + 1, !.curTrue = n]
  OBVIOUS
<1>6. h = Count(g, v)
  BY <1>3, <1>5 DEF Count
<1>7. /\ h \in GuardType /\ h.curTrue <= h.curTicks
      /\ h.duty = g.duty /\ h.head = g.head /\ h.count = g.count /\ h.saturated = g.saturated
  BY <1>1, <1>4, <1>5 DEF GuardType
<1>8. Judges(h, s)
  BY <1>1, <1>7 DEF Judges, RingHolds, Trusts, Place
<1>9. QED
  BY <1>6, <1>8

LEMMA MinuteCloses ==
  ASSUME NEW g, NEW s, Judges(g, s), g.curTicks > 0
  PROVE  Judges(CloseMinute(g), SubSeq(<<Share(g)>> \o s, 1,
                                       IF Len(s) < WindowMinutes THEN Len(s) + 1
                                                                 ELSE WindowMinutes))
<1>1. /\ g \in GuardType /\ g.curTrue <= g.curTicks /\ RingHolds(g, s) /\ Trusts(g, s)
      /\ s \in Seq(Shares) /\ Len(s) = g.count
      /\ \A i \in 1 .. g.count : s[i] = g.duty[Place(g, i)]
  BY DEF Judges, RingHolds
<1>2. /\ WindowMinutes \in Nat \ {0} /\ g.count \in 0 .. WindowMinutes
      /\ RecoverMinutes \in 1 .. WindowMinutes
  BY <1>1, GuardFields, GuardAssumption
<1>3. PICK x : x = Share(g)
  OBVIOUS
<1>4. x \in Shares
  BY <1>1, <1>3, ShareIs
<1>5. PICK h \in GuardType :
        /\ h = pushBucket(g, x)
        /\ h.count = IF g.count < WindowMinutes THEN g.count + 1 ELSE WindowMinutes
        /\ h.duty[Place(h, 1)] = x
        /\ \A i \in 2 .. h.count : i - 1 \in 1 .. g.count
                                   /\ h.duty[Place(h, i)] = g.duty[Place(g, i - 1)]
        /\ h.saturated = g.saturated
  BY <1>1, <1>4, PushedIs
<1>6. PICK k : k = [h EXCEPT !.curTicks = 0, !.curTrue = 0]
  OBVIOUS
<1>7. /\ k \in GuardType /\ k.duty = h.duty /\ k.head = h.head /\ k.count = h.count
      /\ k.saturated = g.saturated /\ k.curTicks = 0 /\ k.curTrue = 0
  BY <1>5, <1>6 DEF GuardType
<1>8. CloseMinute(g) = evaluate(k)
  BY <1>3, <1>5, <1>6 DEF CloseMinute
<1>9. PICK m : m = SubSeq(<<x>> \o s, 1, h.count)
  OBVIOUS
<1>10. /\ m \in Seq(Shares) /\ Len(m) = h.count /\ h.count \in 1 .. WindowMinutes
       /\ m[1] = x /\ \A i \in 2 .. h.count : m[i] = s[i - 1]
  <2>1. PICK l : l = <<x>> \o s
    OBVIOUS
  <2>2. /\ l \in Seq(Shares) /\ Len(l) = Len(s) + 1 /\ l[1] = x
        /\ \A i \in 2 .. Len(s) + 1 : l[i] = s[i - 1]
    BY <1>1, <1>4, <2>1
  <2>3. h.count \in 1 .. WindowMinutes /\ h.count <= Len(l) /\ h.count \in 1 .. Len(l)
    BY <1>1, <1>2, <1>5, <2>2
  <2>4. m = SubSeq(l, 1, h.count)
    BY <1>9, <2>1
  <2>5. m \in Seq(Shares) /\ Len(m) = h.count /\ \A i \in 1 .. h.count : m[i] = l[i]
    BY <2>2, <2>3, <2>4
  <2>6. \A i \in 2 .. h.count : i \in 1 .. h.count /\ i \in 2 .. Len(s) + 1
    BY <1>1, <1>2, <2>2, <2>3
  <2>7. 1 \in 1 .. h.count
    BY <1>2, <2>3
  <2>8. QED
    BY <2>2, <2>3, <2>5, <2>6, <2>7
<1>11. RingHolds(k, m)
  <2>1. ASSUME NEW i \in 1 .. h.count
        PROVE  m[i] = h.duty[Place(h, i)]
    <3>1. CASE i = 1
      BY <1>5, <1>10, <3>1
    <3>2. CASE i # 1
      <4>1. i \in 2 .. h.count
        BY <1>2, <1>10, <3>2
      <4>2. m[i] = s[i - 1] /\ i - 1 \in 1 .. g.count
            /\ h.duty[Place(h, i)] = g.duty[Place(g, i - 1)]
        BY <1>5, <1>10, <4>1
      <4>3. QED
        BY <1>1, <4>2
    <3>3. QED
      BY <3>1, <3>2
  <2>2. QED
    BY <1>7, <1>10, <2>1 DEF RingHolds, Place
<1>12. ASSUME h.count = WindowMinutes
       PROVE  /\ dutyPct(k, WindowMinutes) = Average(SubSeq(m, 1, WindowMinutes))
              /\ dutyPct(k, RecoverMinutes) = Average(SubSeq(m, 1, RecoverMinutes))
              /\ dutyPct(k, RecoverMinutes) \in Nat
              /\ dutyPct(k, WindowMinutes) >= 95 => dutyPct(k, RecoverMinutes) >= 50
  <2>1. WindowMinutes \in 1 .. k.count /\ RecoverMinutes \in 1 .. k.count
    BY <1>2, <1>7, <1>12
  <2>2. /\ dutyPct(k, WindowMinutes) = Average(SubSeq(m, 1, WindowMinutes))
        /\ dutyPct(k, RecoverMinutes) = Average(SubSeq(m, 1, RecoverMinutes))
        /\ dutyPct(k, RecoverMinutes) \in Nat
    BY <1>11, <2>1, DutyIs
  <2>3. SubSeq(m, 1, WindowMinutes) = m
    BY <1>2, <1>10, <1>12
  <2>4. Average(m) >= 95 => Average(SubSeq(m, 1, RecoverMinutes)) >= 50
    BY <1>10, <1>12, StuckIsNotBehaving
  <2>5. QED
    BY <2>2, <2>3, <2>4
<1>13. PICK e : e = evaluate(k)
  OBVIOUS
<1>14. /\ e \in GuardType /\ e.duty = k.duty /\ e.head = k.head /\ e.count = k.count
       /\ e.curTicks = 0 /\ e.curTrue = 0
       /\ ~g.saturated => (e.saturated <=> /\ k.count >= WindowMinutes
                                           /\ dutyPct(k, WindowMinutes) >= 95)
       /\ g.saturated => (e.saturated <=> ~ /\ k.count >= RecoverMinutes
                                            /\ dutyPct(k, RecoverMinutes) < 50)
  <2>1. PICK b : b = IF ~k.saturated THEN /\ k.count >= WindowMinutes
                                          /\ dutyPct(k, WindowMinutes) >= SATURATE_PCT
                     ELSE ~ /\ k.count >= RecoverMinutes
                            /\ dutyPct(k, RecoverMinutes) < RECOVER_PCT
    OBVIOUS
  <2>2. b \in BOOLEAN
    BY <2>1
  <2>3. e = [k EXCEPT !.saturated = b]
    BY <1>13, <2>1 DEF evaluate
  <2>4. /\ e \in GuardType /\ e.duty = k.duty /\ e.head = k.head /\ e.count = k.count
        /\ e.curTicks = 0 /\ e.curTrue = 0 /\ e.saturated = b
    BY <1>7, <2>2, <2>3 DEF GuardType
  <2>5. QED
    BY <1>7, <2>1, <2>4 DEF SATURATE_PCT, RECOVER_PCT
<1>15. Trusts(e, m)
  <2>1. k.count = h.count /\ Len(m) = h.count
    BY <1>7, <1>10
  <2>2. CASE ~g.saturated
    <3>1. e.saturated => h.count = WindowMinutes /\ dutyPct(k, WindowMinutes) >= 95
      BY <1>2, <1>10, <1>14, <2>1, <2>2
    <3>2. h.count = WindowMinutes /\ dutyPct(k, WindowMinutes) >= 95 => e.saturated
      BY <1>2, <1>14, <2>1, <2>2
    <3>3. QED
      BY <1>12, <2>1, <3>1, <3>2 DEF Trusts
  <2>3. CASE g.saturated
    <3>1. h.count = WindowMinutes
      BY <1>1, <1>2, <1>5, <2>3 DEF Trusts
    <3>2. k.count >= RecoverMinutes
      BY <1>2, <2>1, <3>1
    <3>3. e.saturated <=> dutyPct(k, RecoverMinutes) >= 50
      BY <1>12, <1>14, <2>3, <3>1, <3>2
    <3>4. QED
      BY <1>12, <2>1, <3>1, <3>3 DEF Trusts
  <2>4. QED
    BY <2>2, <2>3
<1>16. RingHolds(e, m)
  BY <1>11, <1>14 DEF RingHolds, Place
<1>17. Judges(e, m)
  BY <1>14, <1>15, <1>16 DEF Judges
<1>18. m = SubSeq(<<Share(g)>> \o s, 1, IF Len(s) < WindowMinutes THEN Len(s) + 1
                                                                 ELSE WindowMinutes)
  BY <1>1, <1>3, <1>5, <1>9
<1>19. QED
  BY <1>8, <1>13, <1>17, <1>18

MlInv == Judges(satGuard, minutes)

(* The guard of the neural net keeps its word through the filling and the  *)
(* wrapping of its ring (CsiMlSaturation.h, tick()), for every window and  *)
(* recovery of which GuardAssumption holds.                                *)
THEOREM GuardJudgesTheLastMinutes == CsiMlSpec => []TrustFollowsTheLastMinutes
<1>1. CsiMlInit => MlInv
  <2> SUFFICES ASSUME CsiMlInit PROVE MlInv
    OBVIOUS
  <2>1. minutes = <<>> /\ Len(minutes) = 0 /\ minutes \in Seq(Shares)
    BY DEF CsiMlInit
  <2>2. /\ satGuard \in GuardType /\ satGuard.count = 0 /\ satGuard.saturated = FALSE
        /\ satGuard.curTrue = 0 /\ satGuard.curTicks = 0
    <3>1. 0 \in Shares /\ 0 \in 0 .. WindowMinutes - 1 /\ 0 \in 0 .. WindowMinutes
      BY GuardAssumption DEF Shares
    <3>2. QED
      BY <3>1 DEF CsiMlInit, GuardType
  <2>3. Len(minutes) # WindowMinutes
    BY <2>1, GuardAssumption
  <2>4. RingHolds(satGuard, minutes)
    BY <2>1, <2>2 DEF RingHolds
  <2>5. Trusts(satGuard, minutes)
    BY <2>2, <2>3 DEF Trusts
  <2>6. QED
    BY <2>2, <2>4, <2>5 DEF MlInv, Judges
<1>2. MlInv /\ [CsiMlNext]_csiMlVars => MlInv'
  <2> SUFFICES ASSUME Judges(satGuard, minutes), [CsiMlNext]_csiMlVars
               PROVE  Judges(satGuard', minutes')
    BY DEF MlInv
  <2>1. CASE InferenceTick
    <3>1. PICK minuteEnds, vote :
            LET ends == minuteEnds /\ satGuard.curTicks > 0
            IN /\ satGuard' = Count(IF ends THEN CloseMinute(satGuard) ELSE satGuard, vote)
               /\ minutes' = IF ends THEN SubSeq(<<Share(satGuard)>> \o minutes, 1,
                                                 IF Len(minutes) < WindowMinutes
                                                   THEN Len(minutes) + 1 ELSE WindowMinutes)
                                     ELSE minutes
      BY <2>1, Zenon DEF InferenceTick
    <3>2. CASE minuteEnds /\ satGuard.curTicks > 0
      <4>1. Judges(CloseMinute(satGuard), minutes')
        BY <3>1, <3>2, MinuteCloses
      <4>2. QED
        BY <3>1, <3>2, <4>1, Counted
    <3>3. CASE ~(minuteEnds /\ satGuard.curTicks > 0)
      BY <3>1, <3>3, Counted
    <3>4. QED
      BY <3>2, <3>3
  <2>2. CASE Distrust \/ setMlEnabled \/ UNCHANGED csiMlVars
    BY <2>2 DEF Distrust, setMlEnabled, csiMlVars
  <2>3. QED
    BY <2>1, <2>2 DEF CsiMlNext
<1>3. MlInv => TrustFollowsTheLastMinutes
  BY DEF MlInv, Judges, Trusts, TrustFollowsTheLastMinutes, SATURATE_PCT, RECOVER_PCT
<1>4. QED
  BY <1>1, <1>2, <1>3, PTL DEF CsiMlSpec
=============================================================================
