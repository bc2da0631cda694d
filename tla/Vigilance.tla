------------------------------ MODULE Vigilance ------------------------------
(***************************************************************************)
(* What notices that somebody took the eyes away: the check of the CSI     *)
(* sensor that SecurityMonitor makes once a minute (_checkCsiTamper(),     *)
(* CsiTamperDetector.h, CrossModalLiveness.h), the alert for a covered     *)
(* radar (checkTamperState()), and the heartbeats by which nodes watch     *)
(* each other (supervisionPeerSeen(), supervisionCheck() in main.cpp).     *)
(* How an alert that is raised here leaves the house is Alerting's.        *)
(*                                                                         *)
(* Time is counted in intervals of the minute check; a late check covers   *)
(* more than one.  A time stamp is its age, up to the age the code cares   *)
(* about.                                                                  *)
(***************************************************************************)
EXTENDS Integers, FiniteSets

CONSTANTS
  Gaps,            \* intervals from one check to the next
  NoPacketGrace,   \* noPacketGraceMs, in intervals
  FrozenGrace,     \* frozenGraceMs
  StartupGrace,    \* startupGraceMs
  Window,          \* evalWindowMs of the cross-modal check
  MinActive,       \* minActiveMs
  TamperCooldown,  \* COOLDOWN_TAMPER_ALERT_MS
  PeerTimeout,     \* SUPERVISION_TIMEOUT_MS
  MaxPeers,        \* MAX_PEERS
  Nodes            \* the other nodes of the house

(* A check comes a while after the last one, and never later than a        *)
(* certain time; a window is long enough to be active in.                  *)
ASSUME VigilanceAssumption ==
  /\ Gaps \subseteq Nat \ {0}
  /\ \E g \in Gaps : \A h \in Gaps : h <= g
  /\ NoPacketGrace \in Nat /\ FrozenGrace \in Nat /\ StartupGrace \in Nat
  /\ Window \in Nat \ {0} /\ MinActive \in 0 .. Window
  /\ PeerTimeout \in Nat

VARIABLES
  csi,      \* CsiTamperDetector
  blinded,  \* _csiTamperLatched
  modal,    \* CrossModalLiveness
  cover,    \* _lastTamperState and the age of _lastTamperAlert
  peers,    \* the table of peers: silent for, alerted
  dark,     \* history: how long CSI has been meant to sense, and has seen nothing
  alone,    \* history: how long one sensor has seen what the other has not
  gone      \* history: how long a node has been silent

csiVars == <<csi, blinded, modal, dark, alone>>
peerVars == <<peers, gone>>
vigilanceVars == <<csiVars, cover, peerVars>>

None == -1
MaxGap == CHOOSE g \in Gaps : \A h \in Gaps : h <= g
Capped(n, cap) == IF n < cap THEN n ELSE cap
Older(age, gap, cap) == IF age = None THEN None ELSE Capped(age + gap, cap)

(* Long enough for what it is of to have been noticed. *)
DarkLong == 2 * MaxGap + NoPacketGrace
SenseLong == StartupGrace + MaxGap
AloneLong == 2 * (Window + MaxGap)
GoneLong == PeerTimeout + MaxGap + 1

NewSensor ==
  [low |-> None, same |-> None, since |-> None, counted |-> FALSE, proven |-> FALSE]
NewModal ==
  [window |-> None, radar |-> 0, radarBoth |-> 0, csi |-> 0, csiBoth |-> 0, flags |-> {}]
NoDark == [sensing |-> 0, blind |-> 0]
NotAlone == [radar |-> 0, csi |-> 0]

(* A tamper alert of uptime 0 is what the zeroed time stamp stands for. *)
VigilanceInit ==
  /\ csi = NewSensor /\ blinded = FALSE
  /\ modal = NewModal
  /\ cover = [tampered |-> FALSE, age |-> 0]
  /\ peers = [n \in {} |-> 0]
  /\ dark = NoDark /\ alone = NotAlone
  /\ gone = [n \in Nodes |-> 0]

-----------------------------------------------------------------------------
(* CsiTamperDetector::update().  `packets' is their rate over the time     *)
(* since the last call: "none", "few" or "enough".                         *)

(* Wrong: silence counts from the latest check that saw it. *)
LowSinceRestartsWrong(gap, eth, packets) ==
  IF ~csi.counted THEN csi.low
  ELSE IF eth /\ packets # "enough" THEN 0 ELSE None

(* The first call has nothing to take an average over. *)
LowSince(gap, eth, packets) ==
  IF ~csi.counted THEN csi.low
  ELSE IF ~eth \/ packets = "enough" THEN None
  ELSE IF csi.low = None THEN 0
  ELSE Older(csi.low, gap, NoPacketGrace)

SensorAfter(gap, eth, packets, changed) ==
  [low |-> LowSince(gap, eth, packets),
   same |-> IF changed \/ csi.same = None THEN 0 ELSE Older(csi.same, gap, FrozenGrace),
   since |-> IF csi.since = None THEN 0 ELSE Older(csi.since, gap, StartupGrace),
   counted |-> TRUE,
   proven |-> csi.proven \/ (csi.counted /\ packets # "none")]

WarmedUp(s) == s.proven \/ s.since = StartupGrace
NoPackets(s) == WarmedUp(s) /\ s.low = NoPacketGrace
Frozen(s, changed) == WarmedUp(s) /\ ~changed /\ s.same = FrozenGrace

-----------------------------------------------------------------------------
(* CrossModalLiveness::update().  Its lag is shorter than the time between *)
(* two calls: only what both see at once corroborates.                     *)

Shown(m, gap, radarSees, csiSees) ==
  [m EXCEPT !.window = IF @ = None THEN 0 ELSE @ + gap,
            !.radar = IF radarSees /\ m.window # None THEN @ + gap ELSE @,
            !.csi = IF csiSees /\ m.window # None THEN @ + gap ELSE @,
            !.radarBoth = IF radarSees /\ csiSees /\ m.window # None THEN @ + gap ELSE @,
            !.csiBoth = IF radarSees /\ csiSees /\ m.window # None THEN @ + gap ELSE @]

(* Under a fifth of the time is uncorroborated. *)
Uncorroborated(m) ==
  {s \in {"radar", "csi"} :
     IF s = "radar" THEN m.radar >= MinActive /\ 5 * m.radarBoth < m.radar
                    ELSE m.csi >= MinActive /\ 5 * m.csiBoth < m.csi}

Evaluated(m) ==
  IF m.window < Window THEN m
  ELSE [NewModal EXCEPT !.window = 0, !.flags = Uncorroborated(m)]

-----------------------------------------------------------------------------
(* checkSystemHealth(), once a minute.  One alert when a flag appears.     *)

DarkAfter(gap, eth, packets) ==
  [sensing |-> Capped(dark.sensing + gap, SenseLong),
   blind |-> IF eth /\ packets # "enough" THEN Capped(dark.blind + gap, DarkLong) ELSE 0]

AloneAfter(gap, radarSees, csiSees) ==
  [radar |-> IF radarSees /\ ~csiSees THEN Capped(alone.radar + gap, AloneLong) ELSE 0,
   csi |-> IF csiSees /\ ~radarSees THEN Capped(alone.csi + gap, AloneLong) ELSE 0]

CheckSensing(gap, eth, packets, changed, radarLive, radarSees, csiSees) ==
  /\ csi' = SensorAfter(gap, eth, packets, changed)
  /\ blinded' = (NoPackets(csi') \/ Frozen(csi', changed))
  /\ modal' = IF radarLive THEN Evaluated(Shown(modal, gap, radarSees, csiSees)) ELSE NewModal
  /\ dark' = DarkAfter(gap, eth, packets)
  /\ alone' = IF radarLive THEN AloneAfter(gap, radarSees, csiSees) ELSE NotAlone
  /\ UNCHANGED <<cover, peerVars>>

(* During an update, or without a capture, CSI is not meant to sense. *)
CheckNotSensing ==
  /\ csi' = NewSensor /\ blinded' = FALSE
  /\ modal' = NewModal
  /\ dark' = NoDark /\ alone' = NotAlone
  /\ UNCHANGED <<cover, peerVars>>

checkSystemHealth ==
  \/ CheckNotSensing
  \/ \E gap \in Gaps, packets \in {"none", "few", "enough"},
        eth, changed, radarLive, radarSees, csiSees \in BOOLEAN :
       CheckSensing(gap, eth, packets, changed, radarLive, radarSees, csiSees)

-----------------------------------------------------------------------------
(* checkTamperState(), once a second: an alert when the radar begins to be *)
(* covered, unless the last one is young.                                  *)
TellsOf(covered) == covered /\ ~cover.tampered /\ cover.age = TamperCooldown

checkTamperState(covered) ==
  /\ cover' = [tampered |-> covered, age |-> IF TellsOf(covered) THEN 0 ELSE cover.age]
  /\ UNCHANGED <<csiVars, peerVars>>

CoverTick ==
  /\ cover' = [cover EXCEPT !.age = Capped(@ + 1, TamperCooldown)]
  /\ UNCHANGED <<csiVars, peerVars>>

-----------------------------------------------------------------------------
(* Peers.                                                                  *)

Known == DOMAIN peers

Seen(n) ==
  IF n \in Known THEN [peers EXCEPT ![n] = [silent |-> 0, alerted |-> FALSE]]
  ELSE IF Cardinality(Known) < MaxPeers
    THEN [p \in Known \cup {n} |->
            IF p = n THEN [silent |-> 0, alerted |-> FALSE] ELSE peers[p]]
  ELSE peers

supervisionPeerSeen(n) ==
  /\ peers' = Seen(n)
  /\ gone' = [gone EXCEPT ![n] = 0]
  /\ UNCHANGED <<csiVars, cover>>

(* The check, after the time since the last one. *)
supervisionCheck(gap) ==
  /\ peers' = [n \in Known |->
                 LET silent == Capped(peers[n].silent + gap, PeerTimeout + 1)
                 IN [silent |-> silent, alerted |-> peers[n].alerted \/ silent > PeerTimeout]]
  /\ gone' = [n \in Nodes |-> Capped(gone[n] + gap, GoneLong)]
  /\ UNCHANGED <<csiVars, cover>>

VigilanceNext ==
  \/ checkSystemHealth
  \/ \E covered \in BOOLEAN : checkTamperState(covered)
  \/ CoverTick
  \/ \E n \in Nodes : supervisionPeerSeen(n)
  \/ \E gap \in Gaps : supervisionCheck(gap)

VigilanceSpec == VigilanceInit /\ [][VigilanceNext]_vigilanceVars

-----------------------------------------------------------------------------
VigilanceTypeOK ==
  /\ csi.low \in None .. NoPacketGrace /\ csi.same \in None .. FrozenGrace
  /\ csi.since \in None .. StartupGrace /\ {csi.counted, csi.proven, blinded} \subseteq BOOLEAN
  /\ modal.window \in None .. Window - 1 /\ modal.flags \subseteq {"radar", "csi"}
  /\ cover.tampered \in BOOLEAN /\ cover.age \in 0 .. TamperCooldown
  /\ Known \subseteq Nodes /\ Cardinality(Known) <= MaxPeers

(* Whatever order checks, packets, link, roaming and heartbeats come in:   *)
(* a CSI sensor that is meant to sense and sees nothing is latched as      *)
(* blinded after its graces, a sensor that sees for two windows what the   *)
(* other never does is flagged, a peer in the table that falls silent is   *)
(* alerted, and one that is alerted has been silent all the time.          *)
WhatLastsIsNoticed ==
  /\ dark.blind = DarkLong /\ dark.sensing = SenseLong => blinded
  /\ \A s \in {"radar", "csi"} : alone[s] = AloneLong => s \in modal.flags
  /\ \A n \in Known :
       /\ gone[n] = GoneLong => peers[n].alerted
       /\ peers[n].alerted => gone[n] > PeerTimeout
=============================================================================
