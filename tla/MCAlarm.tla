------------------------------ MODULE MCAlarm ------------------------------
(* The state machine of the alarm, and how an alert is told to people      *)
(* (Alerting).  The two share no variable, and each is checked by itself:  *)
(* `subject' says which one this behaviour runs.                           *)
EXTENDS AlarmFSM, Alerting

VARIABLE subject

-----------------------------------------------------------------------------
(* A counter of five instants, so that every delay straddles a wrap in     *)
(* some run; three settings the host switches between at any moment.       *)
Setting(entry, exit, timeout, rearm, frames) ==
  [entryDelay |-> entry, exitDelay |-> exit, triggerTimeout |-> timeout,
   autoRearm |-> rearm, debounceFrames |-> frames]

MCConfigs ==
  { Setting(2, 1, 2, TRUE, 2), Setting(0, 2, 1, FALSE, 3),
    Setting(1, 0, 0, TRUE, 0) }

(* Two producers of the same type with names of their own, one of which    *)
(* writes more than a webhook takes, and the alarm itself, which has none; *)
(* a device with Telegram, and one with two webhooks.                      *)
Alert(type, source, long) == [type |-> type, source |-> source, long |-> long]

TwoTampersAndAlarm ==
  {Alert("TAMPER_ALERT", "RADAR_TAMPER", TRUE),
   Alert("TAMPER_ALERT", "CSI_TAMPER", FALSE),
   Alert("ALARM_TRIGGERED", "GENERIC", FALSE)}

Outlets(telegram, webhooks) ==
  [enabled |-> TRUE, types |-> {"TAMPER_ALERT"}, telegram |-> telegram, hooks |-> webhooks]

TelegramOrWebhooks == {Outlets(TRUE, {}), Outlets(FALSE, {"discord", "generic"})}

-----------------------------------------------------------------------------
OnAlarm == subject = "alarm" /\ UNCHANGED <<subject, alertingVars>>
OnAlerts == subject = "alerts" /\ UNCHANGED <<subject, vars>>

mcVars == <<subject, vars, alertingVars>>

(* Of the ways to begin, a part that rests has one. *)
MCInit ==
  /\ subject \in {"alarm", "alerts"}
  /\ Init /\ AlertingInit
  /\ subject # "alarm" => cfg = Setting(2, 1, 2, TRUE, 2) /\ now = 0
  /\ subject # "alerts" => settings = Outlets(TRUE, {})

(* The actions one by one, so that TLC tells for each whether it happens.  *)
MCNext ==
  \/ OnAlarm /\ Arm
  \/ OnAlarm /\ Disarm
  \/ OnAlarm /\ Tick
  \/ OnAlarm /\ ReportMotion
  \/ OnAlarm /\ Reconfigure
  \/ OnAlarm /\ TimePasses
  \/ OnAlerts /\ \E a \in Alerts : sendAlert(a)
  \/ OnAlerts /\ Fallback
  \/ OnAlerts /\ UploadFailed
  \/ OnAlerts /\ enqueueTestMessage
  \/ OnAlerts /\ RefuseTest
  \/ OnAlerts /\ Take
  \/ OnAlerts /\ Sent
  \/ OnAlerts /\ \E limit \in {Retries, OfflineRetries} : PutBack(limit)
  \/ OnAlerts /\ \E limit \in {Retries, OfflineRetries} : GiveUp(limit)
  \/ OnAlerts /\ processCommand
  \/ OnAlerts /\ TakeRequest
  \/ OnAlerts /\ Posted
  \/ OnAlerts /\ PostFailed
  \/ OnAlerts /\ MuteEnds
  \/ OnAlerts /\ AlertingTick
  \/ OnAlerts /\ Configure
  \/ OnAlerts /\ AlertingRestart

(* The fairness of each part, as far as it runs. *)
MCSpec ==
  /\ MCInit /\ [][MCNext]_mcVars
  /\ WF_vars(OnAlarm /\ Tick)
  /\ WF_vars(OnAlarm /\ TimePasses)
  /\ WF_alertingVars(OnAlerts /\ Take)
  /\ WF_alertingVars(OnAlerts /\ (Sent \/ SendFailed))
=============================================================================
