----------------------------- MODULE ZoneLogic -----------------------------
(***************************************************************************)
(* Zones in SecurityMonitor::processRadarData(): which zone a radar frame  *)
(* is in, the sticky static-reflector filter, entry-path validation, and   *)
(* the alarm behaviour that results.  setZones() replaces the list while   *)
(* the current zone's index and name are remembered.                       *)
(*                                                                         *)
(* Index 0 stands for the code's -1, "none" and "" for no zone name.       *)
(***************************************************************************)
EXTENDS Naturals, Sequences

CONSTANTS
  ZoneLists,    \* the lists of zones that may be configured
  MaxDistance,  \* distances are 0 (no target) to MaxDistance
  ClearFrames   \* STATIC_FILTER_CLEAR_FRAMES: 5

Names == UNION {{list[i].name : i \in DOMAIN list} : list \in ZoneLists}

ZoneType ==
  [name : Names, min : 1..MaxDistance, max : 1..MaxDistance, enabled : BOOLEAN,
   behavior : 0..3, prev : Names \cup {""}]

ASSUME ZoneAssumption ==
  /\ MaxDistance \in Nat \ {0} /\ ClearFrames \in Nat \ {0}
  /\ ZoneLists \subseteq Seq(ZoneType)

VARIABLES
  zones,     \* _zones
  current,   \* _currentZoneIndex and _currentZoneName
  prevName,  \* _prevZoneName
  filter,    \* _isStaticFiltered and _staticFilterMoveFrames
  verdict,   \* what the latest frame leaves for the alarm
  way       \* history: the way the target came

zoneVars == <<zones, current, prevName, filter, verdict, way>>

NoFilter == [on |-> FALSE, moves |-> 0]

ZoneInit ==
  /\ zones \in ZoneLists
  /\ current = [index |-> 0, name |-> "none"]
  /\ prevName = "none"
  /\ filter = NoFilter
  /\ verdict = [behavior |-> 0, due |-> 0, qualifies |-> FALSE]
  /\ way = [name |-> "none", before |-> "none", wobbled |-> FALSE, strong |-> 0,
             refitted |-> FALSE]

-----------------------------------------------------------------------------
Holds(zone, distance) ==
  zone.enabled /\ zone.min <= distance /\ distance <= zone.max

(* The first zone that holds the distance, 0 if none does. *)
Match(distance) ==
  LET holding == {i \in DOMAIN zones : Holds(zones[i], distance)}
  IN  IF distance = 0 \/ holding = {} THEN 0
      ELSE CHOOSE i \in holding : \A j \in holding : i <= j

NameAt(index) == IF index = 0 THEN "none" ELSE zones[index].name

(* The zone is entered when its name is new. *)
Enter(index) ==
  IF NameAt(index) # current.name
  THEN [index |-> index, name |-> NameAt(index)]
  ELSE current

LeaveOnceWrong(entered) ==
  IF entered.name # current.name /\ prevName = "none" THEN current.name ELSE prevName

Leave(entered) == IF entered.name # current.name THEN current.name ELSE prevName

Valid(zone) == zone.index \in DOMAIN zones
IsStatic(zone) == Valid(zone) /\ zones[zone.index].behavior = 3

(* Once on, the filter stays on until ClearFrames frames of strong motion  *)
(* in a row; outside reflector zones there is no filter.                   *)
Filter(zone, distance, moving) ==
  LET moves == IF filter.moves < ClearFrames THEN filter.moves + 1 ELSE filter.moves
  IN  CASE ~(IsStatic(zone) /\ distance > 0) -> NoFilter
        [] IsStatic(zone) /\ distance > 0 /\ ~moving -> [on |-> TRUE, moves |-> 0]
        [] IsStatic(zone) /\ distance > 0 /\ moving ->
             [on |-> filter.on /\ moves < ClearFrames, moves |-> moves]

(* An entry-delay zone reached by another way than prescribed is immediate. *)
ZoneBehavior(zone, before) ==
  CASE ~Valid(zone) -> 0
    [] /\ Valid(zone) /\ zones[zone.index].behavior = 0
       /\ zones[zone.index].prev \notin {"", before} -> 1
    [] OTHER -> zones[zone.index].behavior

(* moving, still: the energies reach the alarm threshold. *)
ZoneFrame ==
  \E distance \in 0..MaxDistance, moving, still \in BOOLEAN :
    LET match == Match(distance)
        entered == Enter(match)
        left == Leave(entered)
        stays == entered = current /\ distance > 0 /\ IsStatic(entered)
    IN  /\ current' = entered
        /\ prevName' = left
        /\ filter' = Filter(entered, distance, moving)
        /\ verdict' =
             [behavior |-> ZoneBehavior(entered, left),
              due |-> IF match = 0 THEN 0 ELSE zones[match].behavior,
              qualifies |-> distance > 0 /\ ~filter'.on /\ (moving \/ still)]
        /\ way' =
             [name |-> IF entered.name = "none" THEN way.name ELSE entered.name,
              before |-> IF entered.name \in {"none", way.name} THEN way.before
                         ELSE way.name,
              wobbled |-> IF stays THEN way.wobbled \/ ~moving
                          ELSE ~moving /\ distance > 0 /\ IsStatic(entered),
              strong |-> CASE ~moving -> 0
                           [] moving /\ ~stays -> 1
                           [] OTHER -> IF way.strong < ClearFrames
                                       THEN way.strong + 1 ELSE way.strong,
              refitted |-> way.refitted /\ entered.name = current.name]
        /\ zones' = zones

(* setArmed(true) starts the guard with a clean filter. *)
ArmZones ==
  /\ filter' = NoFilter
  /\ way' = [way EXCEPT !.wobbled = FALSE]
  /\ UNCHANGED <<zones, current, prevName, verdict>>

(* The remembered index now means another zone, or none. *)
Outdated(list) ==
  /\ current.index # 0
  /\ ~ (current.index \in DOMAIN list /\ list[current.index].name = current.name)

(* setZones(), from loop() *)
SetZones ==
  /\ zones' \in ZoneLists
  /\ way' = [way EXCEPT !.refitted = @ \/ Outdated(zones')]
  /\ UNCHANGED <<current, prevName, filter, verdict>>

ZoneNext == ZoneFrame \/ ArmZones \/ SetZones

ZoneSpec == ZoneInit /\ [][ZoneNext]_zoneVars

-----------------------------------------------------------------------------
ZoneTypeOK ==
  /\ zones \in ZoneLists
  /\ current.index \in Nat /\ current.name \in Names \cup {"none"}
  /\ prevName \in Names \cup {"none"}
  /\ filter \in [on : BOOLEAN, moves : 0..ClearFrames]
  /\ verdict \in [behavior : 0..3, due : 0..3, qualifies : BOOLEAN]

(* SecurityMonitor.cpp: the zone is found before the alarm logic so that   *)
(* the current zone's behaviour is used.  A frame is treated as the zone   *)
(* it lies in prescribes, the entry-path override apart, also after the    *)
(* list was replaced.  Excepted is the rest of a stay in a zone that the   *)
(* new list has at another index: setZones() keeps the old one.            *)
BehaviorIsOfTheZone ==
  \/ way.refitted
  \/ verdict.behavior = verdict.due
  \/ verdict.due = 0 /\ verdict.behavior = 1

(* SecurityMonitor.h: the filter is sticky.  Where one stay in a reflector *)
(* zone had a quiet frame, it takes ClearFrames strong frames in a row     *)
(* before a frame of that stay counts towards an alarm.                    *)
SpikesAreFiltered ==
  verdict.qualifies /\ way.wobbled => way.strong >= ClearFrames

(* README.md: a zone can require the zone before it.  Whoever gets the     *)
(* entry delay of such a zone was last seen, outside it, in the right one. *)
DelayOnlyOnTheRightPath ==
  [][current'.index # 0 /\ verdict'.due = 0 /\ verdict'.behavior = 0
     /\ ~way'.refitted /\ ZoneFrame =>
       zones[current'.index].prev \in {"", way'.before}]_zoneVars
=============================================================================
