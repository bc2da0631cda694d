---------------------------- MODULE MCZoneConfig ----------------------------
(* Three zones and the learned one: lists below, at and above the limit.   *)
EXTENDS ZoneConfig

CONSTANTS hall, living, garage, fan

MCZones == {hall, living, garage}
=============================================================================
