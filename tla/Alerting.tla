------------------------------ MODULE Alerting ------------------------------
(***************************************************************************)
(* How an alert leaves the house: NotificationService with its cooldowns   *)
(* (src/services/NotificationService.cpp, NotificationCooldownPolicy.h),   *)
(* TelegramService with its send queue, its test message and its commands  *)
(* (TelegramService.cpp, TelegramTestState.h), and the web routes that     *)
(* configure and test them.                                                *)
(*                                                                         *)
(* loop() and the web server's task put messages in two queues, each of    *)
(* which a task of its own empties.  Taking a message and trying to send   *)
(* it are two steps: a place is free in between.  A text is abstracted to  *)
(* what the code looks at: how often it was tried, and the test it is of.  *)
(***************************************************************************)
EXTENDS Integers, Sequences

CONSTANTS
  Alerts,          \* what can be raised: [type, source, long]
  Critical,        \* the types no cooldown holds back
  Cooldown,        \* cooldown_ms, in ticks
  MessageRoom,     \* QUEUE_SIZE of Telegram's queue
  HookRoom,        \* WEBHOOK_QUEUE_SIZE
  Retries,         \* failed attempts after which a message is put back, link up
  OfflineRetries,  \* the same of Telegram's, link down
  MaxTests,        \* bound: test messages asked for between two restarts
  Settings         \* what NVS may hold: [enabled, types, telegram, hooks]

VARIABLES
  settings,  \* of both services, as loaded or changed since
  tasks,     \* of "telegram" and "webhook", those begin() started
  idle,      \* _last: ticks since a slot of the cooldown was stamped
  messages,  \* _sendQueue
  sending,   \* the message Telegram's task has taken, or none
  hooks,     \* _webhookQueue
  posting,   \* the request the webhook task has taken, or none
  blocked,   \* _tlsBlockedMask
  muted,     \* of /mute, not yet over
  test,      \* _testTracker
  requests,  \* _nextTestRequestId
  told       \* history: ticks since a producer's alert was last accepted

senders == <<messages, sending, hooks, posting, blocked>>
alertingVars == <<settings, tasks, idle, senders, muted, test, requests, told>>

Named(a) == a.source # "GENERIC"
Producers == {a.source : a \in {b \in Alerts : Named(b)}}
Types == {a.type : a \in Alerts}
Slots == Producers \cup Types
Ages == 0 .. Cooldown

(* Sizes; the slots of the producers follow those of the types.            *)
ASSUME AlertingAssumption ==
  /\ Cooldown \in Nat /\ MessageRoom \in Nat /\ HookRoom \in Nat
  /\ Producers \cap Types = {}

Message(id) == [id |-> id, retries |-> 0]
Request(kind) == [kind |-> kind, retries |-> 0]
NoTest == [active |-> 0, state |-> "UNKNOWN", last |-> 0, result |-> "UNKNOWN"]

(* NotificationService::begin() and TelegramService::begin(), which finds  *)
(* its trust and heap in order or not.                                     *)
Started(config) ==
  {t \in {"telegram", "webhook"} :
     IF t = "telegram" THEN config.telegram ELSE config.enabled /\ config.hooks # {}}

AlertingInit ==
  /\ settings \in Settings
  /\ tasks = Started(settings)
  /\ idle = [s \in Slots |-> Cooldown]
  /\ messages = <<>> /\ sending = <<>>
  /\ hooks = <<>> /\ posting = <<>>
  /\ blocked = {}
  /\ muted = FALSE
  /\ test = NoTest
  /\ requests = 0
  /\ told = [p \in Producers |-> Cooldown]

-----------------------------------------------------------------------------
(* The cooldown.                                                           *)

(* Wrong: by type alone, as it used to be. *)
SlotOfTypeWrong(a) == a.type

Slot(a) == IF Named(a) THEN a.source ELSE a.type

Allowed(a) == a.type \in Critical \/ idle[Slot(a)] = Cooldown

(* Filters let critical types through. *)
Permitted(a) == a.type \in Critical \/ a.type \in settings.types

-----------------------------------------------------------------------------
(* Putting something in a queue never waits long: what does not fit is     *)
(* dropped.                                                                *)

(* sendMessage() works if Telegram's task was started and is not disabled. *)
Direct == settings.telegram /\ "telegram" \in tasks
MessageFits == Direct /\ Len(messages) < MessageRoom
sendMessage == messages' = IF MessageFits THEN Append(messages, Message(0)) ELSE messages

(* The requests of an alert: Discord first; a payload that is too long for *)
(* the generic webhook is not cut.                                         *)
Requests(a) ==
  IF "webhook" \notin tasks THEN <<>>
  ELSE (IF "discord" \in settings.hooks THEN <<Request("discord")>> ELSE <<>>)
       \o (IF "generic" \in settings.hooks /\ ~a.long THEN <<Request("generic")>> ELSE <<>>)

RequestsThatFit(a) ==
  LET free == HookRoom - Len(hooks)
      all == Requests(a)
  IN SubSeq(all, 1, IF Len(all) < free THEN Len(all) ELSE free)

Accepted(a) == MessageFits \/ RequestsThatFit(a) # <<>>

(* sendAlert(); refused by a filter or the cooldown it changes nothing. *)
sendAlert(a) ==
  /\ settings.enabled /\ Permitted(a) /\ Allowed(a)
  /\ sendMessage
  /\ hooks' = hooks \o RequestsThatFit(a)
  /\ idle' = IF Accepted(a) THEN [idle EXCEPT ![Slot(a)] = 0] ELSE idle
  /\ told' = IF Named(a) /\ (messages' # messages \/ hooks' # hooks)
               THEN [told EXCEPT ![a.source] = 0] ELSE told
  /\ UNCHANGED <<settings, tasks, sending, posting, blocked, muted, test, requests>>

MessageOnly ==
  /\ sendMessage
  /\ UNCHANGED <<settings, tasks, idle, sending, hooks, posting, blocked, muted,
                 test, requests, told>>

(* triggerAlert() without NotificationService: by Telegram alone, without  *)
(* a cooldown, unless the producer's own switch is off.                    *)
Fallback == ~settings.enabled /\ MessageOnly

(* A failed upload is told by TelegramService::sendAlert(), the only       *)
(* caller /mute silences.                                                  *)
UploadFailed == ~muted /\ MessageOnly

-----------------------------------------------------------------------------
(* TelegramTestTracker and the two routes.                                 *)

(* Wrong: a test that is lost is not finished. *)
TestFinishedNeverWrong(id, result) == test

TestFinished(id, result) ==
  IF id # 0 /\ id = test.active
    THEN [test EXCEPT !.active = 0, !.last = id, !.result = result]
    ELSE test

(* enqueueTestMessage(): one at a time, in front of all others.            *)
enqueueTestMessage ==
  /\ Direct
  /\ requests < MaxTests
  /\ requests' = requests + 1
  /\ test.active = 0
  /\ IF Len(messages) < MessageRoom
       THEN /\ messages' = <<Message(requests')>> \o messages
            /\ test' = [test EXCEPT !.active = requests', !.state = "QUEUED"]
       ELSE /\ messages' = messages
            /\ test' = [test EXCEPT !.state = "UNKNOWN"]
  /\ UNCHANGED <<settings, tasks, idle, sending, hooks, posting, blocked, muted, told>>

(* ... refused while another runs, it has used up an id. *)
RefuseTest ==
  /\ Direct
  /\ requests < MaxTests
  /\ test.active # 0
  /\ requests' = requests + 1
  /\ UNCHANGED <<settings, tasks, idle, senders, muted, test, told>>

-----------------------------------------------------------------------------
(* telegramLoop().                                                         *)

Take ==
  /\ sending = <<>> /\ messages # <<>>
  /\ sending' = <<Head(messages)>>
  /\ messages' = Tail(messages)
  /\ test' = IF Head(messages).id # 0 /\ Head(messages).id = test.active
               THEN [test EXCEPT !.state = "SENDING"] ELSE test
  /\ UNCHANGED <<settings, tasks, idle, hooks, posting, blocked, muted, requests, told>>

SendEnds ==
  /\ sending # <<>>
  /\ sending' = <<>>
  /\ UNCHANGED <<settings, tasks, idle, hooks, posting, blocked, muted, requests, told>>

Sent ==
  /\ SendEnds
  /\ test' = TestFinished(sending[1].id, "SUCCEEDED")
  /\ UNCHANGED messages

(* Back to the front of the queue, if nobody took the place meanwhile.     *)
PutBack(limit) ==
  /\ SendEnds
  /\ sending[1].retries < limit
  /\ IF Len(messages) < MessageRoom
       THEN /\ messages' = <<[sending[1] EXCEPT !.retries = @ + 1]>> \o messages
            /\ UNCHANGED test
       ELSE /\ test' = TestFinished(sending[1].id, "FAILED")
            /\ UNCHANGED messages

GiveUp(limit) ==
  /\ SendEnds
  /\ sending[1].retries >= limit
  /\ test' = TestFinished(sending[1].id, "FAILED")
  /\ UNCHANGED messages

(* Whether the link is up is looked at before each attempt.                *)
SendFailed == \E limit \in {Retries, OfflineRetries} : PutBack(limit) \/ GiveUp(limit)

(* A command is looked for when there is nothing to send.  Every one is    *)
(* answered; what /arm and /disarm do is SecurityMonitor's.                *)
processCommand ==
  /\ Direct
  /\ sending = <<>> /\ messages = <<>>
  /\ sendMessage
  /\ \/ muted' = muted   \* all others
     \/ muted' = TRUE    \* /mute
     \/ muted' = FALSE   \* /unmute
  /\ UNCHANGED <<settings, tasks, idle, sending, hooks, posting, blocked, test,
                 requests, told>>

-----------------------------------------------------------------------------
(* processWebhookQueue().                                                  *)

TakeRequest ==
  /\ posting = <<>> /\ hooks # <<>>
  /\ posting' = <<Head(hooks)>>
  /\ hooks' = Tail(hooks)
  /\ UNCHANGED <<settings, tasks, idle, messages, sending, blocked, muted, test,
                 requests, told>>

PostEnds ==
  /\ posting # <<>>
  /\ posting' = <<>>
  /\ UNCHANGED <<settings, tasks, idle, messages, sending, muted, test, requests, told>>

Posted ==
  /\ PostEnds
  /\ blocked' = blocked \ {posting[1].kind}
  /\ UNCHANGED hooks

(* Whether it was put back is not looked at: without a place it is gone.   *)
PostFailed ==
  /\ PostEnds
  /\ \/ blocked' = blocked
     \/ blocked' = blocked \cup {posting[1].kind}
     \/ blocked' = blocked \ {posting[1].kind}
  /\ hooks' = IF posting[1].retries < Retries /\ Len(hooks) < HookRoom
                THEN <<[posting[1] EXCEPT !.retries = @ + 1]>> \o hooks
                ELSE hooks

-----------------------------------------------------------------------------
(* The rest of the world.                                                  *)

MuteEnds ==
  /\ muted
  /\ muted' = FALSE
  /\ UNCHANGED <<settings, tasks, idle, senders, test, requests, told>>

Later(age) == IF age < Cooldown THEN age + 1 ELSE Cooldown

AlertingTick ==
  /\ idle' = [s \in Slots |-> Later(idle[s])]
  /\ told' = [p \in Producers |-> Later(told[p])]
  /\ UNCHANGED <<settings, tasks, senders, muted, test, requests>>

(* POST /api/telegram/config and /api/notifications/config: what they      *)
(* change counts at once, but a task it needs only starts with the restart *)
(* they ask for.                                                           *)
Configure ==
  /\ settings' \in Settings \cup {[settings EXCEPT !.telegram = FALSE],
                                 [settings EXCEPT !.enabled = FALSE]}
  /\ UNCHANGED <<tasks, idle, senders, muted, test, requests, told>>

(* A restart, with the settings of NVS. *)
AlertingRestart ==
  /\ settings' \in Settings
  /\ tasks' = Started(settings')
  /\ idle' = [s \in Slots |-> Cooldown]
  /\ messages' = <<>> /\ sending' = <<>>
  /\ hooks' = <<>> /\ posting' = <<>>
  /\ blocked' = {}
  /\ muted' = FALSE
  /\ test' = NoTest
  /\ requests' = 0
  /\ told' = [p \in Producers |-> Cooldown]

AlertingNext ==
  \/ \E a \in Alerts : sendAlert(a)
  \/ Fallback \/ UploadFailed
  \/ enqueueTestMessage \/ RefuseTest
  \/ Take \/ Sent \/ SendFailed \/ processCommand
  \/ TakeRequest \/ Posted \/ PostFailed
  \/ MuteEnds \/ AlertingTick \/ Configure \/ AlertingRestart

(* Telegram's task runs: it takes messages and comes back from sending.    *)
AlertingFairness ==
  /\ WF_alertingVars(Take)
  /\ WF_alertingVars(Sent \/ SendFailed)

AlertingSpec == AlertingInit /\ [][AlertingNext]_alertingVars /\ AlertingFairness

-----------------------------------------------------------------------------
AlertingTypeOK ==
  /\ settings.enabled \in BOOLEAN /\ settings.telegram \in BOOLEAN
  /\ tasks \subseteq {"telegram", "webhook"}
  /\ idle \in [Slots -> Ages] /\ told \in [Producers -> Ages]
  /\ Len(messages) <= MessageRoom /\ Len(hooks) <= HookRoom
  /\ Len(sending) <= 1 /\ Len(posting) <= 1
  /\ blocked \subseteq {"discord", "generic"}
  /\ muted \in BOOLEAN
  /\ test.active \in 0 .. requests /\ requests \in 0 .. MaxTests

(* No producer silences another, and an alert that nobody took silences    *)
(* nobody: one that names itself may send exactly when a cooldown has      *)
(* passed since it last did (the comment of NotificationCooldownPolicy.h). *)
NobodyMasksAnother ==
  \A a \in Alerts :
    Named(a) => (Allowed(a) <=> (a.type \in Critical \/ told[a.source] = Cooldown))

(* A test message that is accepted is answered: whatever the link and the  *)
(* queue do, its id gets a result, and the next test is not refused for    *)
(* ever (TelegramTestTracker, enqueueTestMessage()).                       *)
TestIsAnswered ==
  \A id \in 1 .. MaxTests :
    (test.active = id) ~>
      \/ test.last = id /\ test.result \in {"SUCCEEDED", "FAILED"}
      \/ requests = 0
=============================================================================
