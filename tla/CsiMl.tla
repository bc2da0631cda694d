------------------------------- MODULE CsiMl -------------------------------
(***************************************************************************)
(* The vote of the MLP and the guard that stops trusting it.               *)
(*                                                                         *)
(* Each publish interval the net judges the window; its probability is     *)
(* smoothed like the variance.  CsiMlSaturationGuard keeps the share of    *)
(* `true' of every minute in a ring: a vote that is stuck for a whole      *)
(* window is no longer believed until it has behaved for a shorter one.    *)
(* The net itself is left out.                                             *)
(***************************************************************************)
EXTENDS Naturals, Sequences

CONSTANTS WindowMinutes, RecoverMinutes,  \* WINDOW_MIN, RECOVER_MIN
          TicksPerMinute,                 \* judgements in a minute, at most
          MlWindow, MlEnter, MlExit       \* SMOOTH_WINDOW, _ENTER, _EXIT

SATURATE_PCT == 95
RECOVER_PCT  == 50

(* What saturates a window must not look recovered at its end: a tenth of  *)
(* it has to be judged, 60 of 360 minutes are.                             *)
ASSUME GuardAssumption ==
  /\ WindowMinutes \in Nat \ {0} /\ RecoverMinutes \in 1..WindowMinutes
  /\ WindowMinutes <= 10 * RecoverMinutes

VARIABLES
  mlp,       \* enabled?, the vote, the smoothed votes, newest first
  satGuard,  \* CsiMlSaturationGuard: duty ring, head, count, minute, saturated?
  minutes    \* history: the shares of the last minutes, newest first

csiMlVars == <<mlp, satGuard, minutes>>

-----------------------------------------------------------------------------
(* The ring.  Indices count from 0 as in the code.                         *)
(* fault: the full ring keeps its head. *)
pushBucketKeepsHeadWrong(g, pct) ==
  IF g.count < WindowMinutes
    THEN [g EXCEPT !.duty[(g.head + g.count) % WindowMinutes] = pct, !.count = @ + 1]
    ELSE [g EXCEPT !.duty[g.head] = pct]

pushBucket(g, pct) ==
  IF g.count < WindowMinutes
    THEN [g EXCEPT !.duty[(g.head + g.count) % WindowMinutes] = pct, !.count = @ + 1]
    ELSE [g EXCEPT !.duty[g.head] = pct, !.head = (@ + 1) % WindowMinutes]
Average(shares) ==
  LET sum[n \in 0..Len(shares)] == IF n = 0 THEN 0 ELSE sum[n - 1] + shares[n]
  IN sum[Len(shares)] \div Len(shares)

dutyPct(g, mins) ==
  LET n == IF g.count < mins THEN g.count ELSE mins
  IN IF n = 0 THEN 0
     ELSE Average([i \in 1..n |-> g.duty[(g.head + g.count - i) % WindowMinutes]])

evaluate(g) ==
  IF ~g.saturated
    THEN [g EXCEPT !.saturated = /\ g.count >= WindowMinutes
                                 /\ dutyPct(g, WindowMinutes) >= SATURATE_PCT]
    ELSE [g EXCEPT !.saturated = ~ /\ g.count >= RecoverMinutes
                                   /\ dutyPct(g, RecoverMinutes) < RECOVER_PCT]

(* tick(): the first tick of a minute closes the one before.               *)
Share(g)    == (g.curTrue * 100) \div g.curTicks
CloseMinute(g) == evaluate([pushBucket(g, Share(g)) EXCEPT !.curTicks = 0,
                                                           !.curTrue = 0])
Count(g, vote) == [g EXCEPT !.curTicks = @ + 1,
                            !.curTrue = IF vote THEN @ + 1 ELSE @]

-----------------------------------------------------------------------------
PushVote(votes, raw) == SubSeq(<<raw>> \o votes, 1,
                               IF Len(votes) < MlWindow THEN Len(votes) + 1
                                                        ELSE MlWindow)
For(votes) == Len(SelectSeq(votes, LAMBDA v : v))
SmoothedVote(on, votes) == IF on THEN Len(votes) - For(votes) < MlExit
                                 ELSE For(votes) >= MlEnter

CsiMlInit ==
  /\ mlp = [enabled |-> TRUE, motion |-> FALSE, votes |-> << >>]
  /\ satGuard = [duty |-> [i \in 0..WindowMinutes - 1 |-> 0], head |-> 0, count |-> 0,
                 curTicks |-> 0, curTrue |-> 0, saturated |-> FALSE]
  /\ minutes = << >>

(* The net judged: `likely' is a probability above the threshold, `maybe'  *)
(* one between it and the exit threshold.  The guard is fed with the vote  *)
(* as it is, and then takes it back.                                       *)
InferenceTick ==
  /\ mlp.enabled
  /\ \E prob \in {"likely", "maybe", "low"}, minuteEnds \in BOOLEAN :
       LET votes == PushVote(mlp.votes, prob = "likely" \/ (mlp.motion /\ prob = "maybe"))
           vote  == SmoothedVote(mlp.motion, votes)
           ends  == minuteEnds /\ satGuard.curTicks > 0
           guard == Count(IF ends THEN CloseMinute(satGuard) ELSE satGuard, vote)
       IN /\ minuteEnds \/ satGuard.curTicks < TicksPerMinute
          /\ satGuard' = guard
          /\ mlp' = [mlp EXCEPT !.votes = votes, !.motion = vote /\ ~guard.saturated]
          /\ minutes' = IF ends THEN SubSeq(<<Share(satGuard)>> \o minutes, 1,
                                            IF Len(minutes) < WindowMinutes
                                              THEN Len(minutes) + 1 ELSE WindowMinutes)
                                ELSE minutes

(* Too few packets to judge: the vote is taken back, the guard not fed.    *)
(* A window that is filling leaves the vote as it is (a stutter).          *)
Distrust == /\ mlp.enabled /\ mlp.motion
            /\ mlp' = [mlp EXCEPT !.motion = FALSE]
            /\ UNCHANGED <<satGuard, minutes>>

setMlEnabled == /\ mlp' = [mlp EXCEPT !.enabled = ~@, !.motion = @ /\ ~mlp.enabled]
                /\ UNCHANGED <<satGuard, minutes>>

CsiMlNext == InferenceTick \/ Distrust \/ setMlEnabled
CsiMlSpec == CsiMlInit /\ [][CsiMlNext]_csiMlVars

-----------------------------------------------------------------------------
CsiMlTypeOK ==
  /\ mlp.enabled \in BOOLEAN /\ mlp.motion \in BOOLEAN
  /\ mlp.votes \in Seq(BOOLEAN) /\ Len(mlp.votes) <= MlWindow
  /\ satGuard.duty \in [0..WindowMinutes - 1 -> 0..100]
  /\ satGuard.head \in 0..WindowMinutes - 1 /\ satGuard.count \in 0..WindowMinutes
  /\ satGuard.curTicks \in 0..TicksPerMinute /\ satGuard.curTrue \in 0..satGuard.curTicks
  /\ satGuard.saturated \in BOOLEAN

(* The guard judges the minutes it says it judges: through the filling and *)
(* the wrapping of the ring, a vote that has been behaving for             *)
(* RecoverMinutes is believed again and one that was stuck for the whole   *)
(* window is not (CsiMlSaturationGuard::tick()).                           *)
TrustFollowsTheLastMinutes ==
  LET last(n) == Average(SubSeq(minutes, 1, n))
  IN /\ satGuard.saturated =>
          Len(minutes) = WindowMinutes /\ last(RecoverMinutes) >= RECOVER_PCT
     /\ Len(minutes) = WindowMinutes /\ last(WindowMinutes) >= SATURATE_PCT =>
          satGuard.saturated
=============================================================================
