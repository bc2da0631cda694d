----------------------------- MODULE CsiMotion -----------------------------
(***************************************************************************)
(* The motion verdict of the CSI detector and what MQTT learns of it.      *)
(*                                                                         *)
(* Packets fill a window; once per publish interval the loop turns the     *)
(* variance of the window into a vote, smooths the votes, holds a verdict  *)
(* of motion while somebody seems to breathe, and publishes a retained     *)
(* state and, for each change, an edge that is not retained.               *)
(*                                                                         *)
(* The signal processing is left out: the variance is below the exit       *)
(* threshold, between the two, or above the entry threshold.  A candidate  *)
(* model's shadow verdict, the diagnostic ring and the trace only report.  *)
(***************************************************************************)
EXTENDS Naturals, FiniteSets, Sequences

CONSTANTS SmoothWindow, SmoothEnter, SmoothExit,  \* votes kept, to enter, to leave
          HoldMax,        \* ticks a verdict is held for somebody who breathes
          HeartbeatTicks  \* publish intervals between two full publications

(* The votes do not suffice to enter and to leave at once.                 *)
ASSUME SmoothAssumption ==
  /\ SmoothWindow \in Nat
  /\ SmoothEnter \in 1..SmoothWindow /\ SmoothExit \in 1..SmoothWindow
  /\ SmoothEnter + SmoothExit > SmoothWindow
  /\ HoldMax \in Nat /\ HeartbeatTicks \in Nat \ {0}

VARIABLES
  detector,   \* window full? motion, votes (newest first), hold, idle baseline?
  published,  \* what _publishMQTT() remembers: motion, edge, heartbeat, test edge
  motionLink, \* the MQTT session: "up", "half" (dead, not noticed) or "down"
  retained,   \* history: the motion state the broker keeps
  quiet,      \* history: decided ticks in a row without a vote for motion,
              \* since the votes were last thrown away
  edge        \* history: the last tick's edge: "none", "fresh" or "stale"

csiMotionVars == <<detector, published, motionLink, retained, quiet, edge>>

Levels == {"below", "between", "above"}

-----------------------------------------------------------------------------
(* Smoothing, the same for the variance, the MLP and a shadow verdict.     *)
Push(votes, raw)   == SubSeq(<<raw>> \o votes, 1,
                             IF Len(votes) < SmoothWindow THEN Len(votes) + 1
                                                          ELSE SmoothWindow)
Ayes(votes)        == Cardinality({i \in DOMAIN votes : votes[i]})
Noes(votes)        == Len(votes) - Ayes(votes)
Smoothed(on, votes) == IF on THEN Noes(votes) < SmoothExit
                             ELSE Ayes(votes) >= SmoothEnter

(* One tick's vote with hysteresis.                                        *)
Raw(on, level) == level = "above" \/ (on /\ level = "between")

(* A person who stands still makes no variance but breathes: the verdict   *)
(* is held, for a while.                                                   *)
BreathingHolds(d, votes, breathes) ==
  /\ d.motion /\ ~Smoothed(TRUE, votes)
  /\ d.idleKnown /\ breathes /\ d.hold < HoldMax

(* fault: the hold is not counted. *)
DecidedHoldsOnWrong(d, level, breathes) ==
  LET votes == Push(d.votes, Raw(d.motion, level))
  IN IF BreathingHolds(d, votes, breathes)
       THEN [d EXCEPT !.votes = votes]
       ELSE [d EXCEPT !.votes = votes, !.hold = 0,
                      !.motion = Smoothed(d.motion, votes),
                      !.idleKnown = @ \/ ~Smoothed(d.motion, votes)]

Decided(d, level, breathes) ==
  LET votes == Push(d.votes, Raw(d.motion, level))
      on    == Smoothed(d.motion, votes)
  IN IF BreathingHolds(d, votes, breathes)
       THEN [d EXCEPT !.votes = votes, !.hold = @ + 1]
       ELSE [d EXCEPT !.votes = votes, !.hold = 0, !.motion = on,
                      !.idleKnown = @ \/ ~on]

(* Without a full window, or without packets, nothing is decided: the      *)
(* variance is an old one.                                                 *)
Decides(d, starved) == d.full /\ ~starved
updateMotionState(d, starved, level, breathes) ==
  IF Decides(d, starved) THEN Decided(d, level, breathes) ELSE d

-----------------------------------------------------------------------------
EmptyDetector(known) == [full |-> FALSE, motion |-> FALSE, votes |-> << >>,
                         hold |-> 0, idleKnown |-> known]

CsiMotionInit ==
  /\ \E known \in BOOLEAN : detector = EmptyDetector(known)
  /\ published = [motion |-> FALSE, edge |-> FALSE, beat |-> 0, test |-> "none"]
  /\ motionLink = "down" /\ retained \in BOOLEAN
  /\ quiet = 0 /\ edge = "none"

(* csi_proc: the packet that fills the window.                             *)
ProcessCSI == /\ ~detector.full
              /\ detector' = [detector EXCEPT !.full = TRUE]
              /\ UNCHANGED <<published, motionLink, retained, quiet, edge>>

(* beat counts the ticks to the next heartbeat; 0 is the first publication *)
(* and a heartbeat that is due.  Publishing is skipped as a whole while    *)
(* the session is down.                                                    *)
ForcePublish == published.beat = 0

SendsChangesOnlyWrong(now) == now # published.motion  \* fault: no heartbeat
Sends(now) == ForcePublish \/ now # published.motion

PublishMQTT(now, was) ==
  IF motionLink = "down"
    THEN /\ published' = [published EXCEPT !.beat = IF @ = 0 THEN 0 ELSE @ - 1]
         /\ edge' = "none" /\ UNCHANGED retained
    ELSE /\ published' = [motion |-> now, edge |-> now, test |-> "none",
                          beat |-> IF ForcePublish THEN HeartbeatTicks - 1
                                            ELSE published.beat - 1]
         /\ retained' = IF Sends(now) /\ motionLink = "up" THEN now ELSE retained
         /\ edge' = IF now = published.edge THEN "none"
                    ELSE IF now # was THEN "fresh" ELSE "stale"

(* The loop: one publish interval of update().                             *)
MotionTick ==
  \E starved \in BOOLEAN, level \in Levels, breathes \in BOOLEAN :
    LET d == updateMotionState(detector, starved, level, breathes)
    IN /\ detector' = d
       /\ quiet' = IF ~Decides(detector, starved) THEN quiet
                   ELSE IF Raw(detector.motion, level) THEN 0
                   ELSE IF quiet < SmoothExit + HoldMax THEN quiet + 1 ELSE quiet
       /\ PublishMQTT(d.motion, detector.motion)
       /\ UNCHANGED motionLink

(* Another access point, or the web route: all that was learned of the     *)
(* room is dropped.                                                        *)
resetIdleBaseline == /\ detector' = EmptyDetector(FALSE)
                     /\ quiet' = 0
                     /\ UNCHANGED <<published, motionLink, retained, edge>>

(* A new window size, or the threshold raised because motion is stuck:     *)
(* the window fills again, the verdict stays.                              *)
RestartWindow == /\ detector.full
                 /\ detector' = [detector EXCEPT !.full = FALSE]
                 /\ UNCHANGED <<published, motionLink, retained, quiet, edge>>

(* _resetShortTermState(): window, votes and hold are thrown away, and the *)
(* verdict stays.  Wiping the site models does this; applying one or going *)
(* back to the one before also takes its fingerprint of the empty room, if *)
(* it has one.                                                             *)
SwitchModel ==
  /\ \E fingerprint \in BOOLEAN :
       detector' = [detector EXCEPT !.full = FALSE, !.votes = << >>, !.hold = 0,
                                    !.idleKnown = @ \/ fingerprint]
  /\ quiet' = 0
  /\ UNCHANGED <<published, motionLink, retained, edge>>

(* The web task asks for a synthetic edge; the loop sends it.              *)
emitTestEdge == /\ \E e \in {"enter", "exit"} :
                     published' = [published EXCEPT !.test = e]
                /\ UNCHANGED <<detector, motionLink, retained, quiet, edge>>

SessionChanges ==
  /\ \/ motionLink = "up"   /\ motionLink' \in {"half", "down"}
     \/ motionLink = "half" /\ motionLink' = "down"
     \/ motionLink = "down" /\ motionLink' = "up"
  /\ UNCHANGED <<detector, published, retained, quiet, edge>>

CsiMotionNext == \/ ProcessCSI \/ MotionTick \/ resetIdleBaseline \/ RestartWindow
                 \/ SwitchModel \/ emitTestEdge \/ SessionChanges

(* The loop runs; a session that is lost comes back unless the network is  *)
(* gone, which no property assumes.                                        *)
CsiMotionSpec == /\ CsiMotionInit /\ [][CsiMotionNext]_csiMotionVars
                 /\ WF_csiMotionVars(MotionTick)

-----------------------------------------------------------------------------
VoteSeqs == UNION {[1..n -> BOOLEAN] : n \in 0..SmoothWindow}

CsiMotionTypeOK ==
  /\ detector \in [full : BOOLEAN, motion : BOOLEAN, votes : VoteSeqs,
                   hold : 0..HoldMax, idleKnown : BOOLEAN]
  /\ published \in [motion : BOOLEAN, edge : BOOLEAN, beat : 0..HeartbeatTicks - 1,
                    test : {"none", "enter", "exit"}]
  /\ motionLink \in {"up", "half", "down"} /\ retained \in BOOLEAN
  /\ quiet \in 0..SmoothExit + HoldMax /\ edge \in {"none", "fresh", "stale"}

(* Breath alone does not keep a verdict of motion: after SmoothExit quiet  *)
(* ticks and HoldMax held ones the room is empty, however hysteresis, lost *)
(* packets, refilled windows and single votes came in between.  The ticks  *)
(* count from the last vote for motion or the last switch of the site      *)
(* model, which throws the votes and the hold away and keeps the verdict   *)
(* (_updateMotionState(), _resetShortTermState()).                         *)
MotionEnds == detector.motion => quiet < SmoothExit + HoldMax

(* Whatever a dead session swallowed: when the session stays and the       *)
(* verdict rests, the broker's retained state is the verdict               *)
(* (_publishMQTT(), heartbeat).                                            *)
RetainedCatchesUp ==
  \A m \in BOOLEAN :
    <>[](motionLink = "up" /\ detector.motion = m) => <>[](retained = m)

(* README.md:449: during an outage the edge "is dropped rather than        *)
(* retried, so a stale replayed edge" cannot fake a passage.               *)
EdgeIsFresh == edge # "stale"
=============================================================================
