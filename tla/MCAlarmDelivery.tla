-------------------------- MODULE MCAlarmDelivery --------------------------
(* A queue of two and three or four events: an outage can overrun it.  The *)
(* slots have the firmware's length, or one that would hold an event.      *)
EXTENDS AlarmDelivery

FirmwareSlot == {200}
FirmwareOrRoomySlot == {200, 400}
=============================================================================
