----------------------------- MODULE MqttState -----------------------------
(***************************************************************************)
(* What the broker retains of the node: MQTTService::update() and connect()*)
(* (src/src/services/MQTTService.cpp) and the publish-on-change block of   *)
(* loop() with its cache lastPub (src/src/main.cpp).                       *)
(*                                                                         *)
(* loop() looks at one topic after the other, while the radar and the web  *)
(* server change what they tell.  A connection that is "half" open takes   *)
(* writes that no broker ever reads.  One topic stands for the texts and   *)
(* numbers that a reconnection invalidates in the cache with an impossible *)
(* value: presence and alarm state, motion type, direction, distance,      *)
(* energies, health, errors, UART.  Of those published without retain, the *)
(* broker's value is the one it passed on last.  One topic stands for the  *)
(* flags it inverts: tamper, anti-masking, loitering, engineering mode.    *)
(* One stands for what it leaves as it is, source and confidence of the    *)
(* fusion.                                                                 *)
(*                                                                         *)
(* Left out, and nothing is claimed of them: frame rate and heap, whose    *)
(* impossible value is within the deadband of small ones; the presence of  *)
(* the fusion, light and the gates, which it leaves as well and which      *)
(* begin with a real value; chip temperature, which also goes by time.     *)
(***************************************************************************)
EXTENDS Naturals, Sequences

CONSTANTS
  MaxFaults,    \* broken connections, broker restarts, low memory, reboots
  MaxChanges    \* changes of what a topic tells, and of the operation

VARIABLES
  current,      \* what each topic should tell
  lastPub,      \* what loop() believes it has published
  retained,     \* what the broker retains
  link,         \* of the client: "up", "half" or "down"
  reachable,    \* the broker accepts connections
  justReconnected,
  todo,         \* topics loop() has not yet looked at in this pass
  place,        \* where loop() is: before update() or in the "publish" block
  claimed,      \* the runtime operation
  shown,        \* _lastRuntimeOperation
  window,       \* g_espotaMaintenance
  pending,      \* _pendingMaintenance
  rebooting,    \* shouldReboot
  discovery,    \* _discoveryIndex, 0 when there is nothing to announce
  cancelled,    \* history: a reboot was called off after its announcement
  faults, changes

device == <<lastPub, justReconnected, todo, place, shown, discovery>>
maintenanceVars == <<window, pending, rebooting, cancelled>>
world == <<current, reachable, faults, changes>>
mqttVars == <<device, maintenanceVars, world, retained, link, claimed>>

Texts == {"presence"}
Flags == {"tamper"}
Kept == {"fusion"}
Order == <<"presence", "tamper", "fusion">>
Topics == Texts \cup Flags \cup Kept
Entities == 1..2

Invalid == 2     \* neither 0 nor 1: an empty string, 0xFF, -1
Nothing == 3     \* the broker retains nothing
Operations == {"idle", "upload", "espota"}
OtaRuns == claimed # "idle"

EmptyBroker ==
  [topic |-> [t \in Topics |-> Nothing], operation |-> "none",
   maintenance |-> 0, entities |-> {}]

(* struct LastPublished: texts are empty, flags false.  A number that      *)
(* begins as 0 is invalidated by the connection before any publishing.     *)
NeverPublished == [t \in Topics |-> IF t \in Flags THEN 0 ELSE Invalid]

MqttInit ==
  /\ current \in [Topics -> 0..1]
  /\ lastPub = NeverPublished
  /\ retained = EmptyBroker
  /\ link = "down" /\ reachable = TRUE
  /\ justReconnected = FALSE
  /\ todo = <<>> /\ place = "start"
  /\ claimed = "idle" /\ shown = "none"
  /\ window = FALSE /\ pending = "none" /\ rebooting = FALSE
  /\ discovery = 0
  /\ cancelled = FALSE
  /\ faults = 0 /\ changes = 0

-----------------------------------------------------------------------------
(* A write of PubSubClient that nobody checks: the broker has it, or it is *)
(* lost with the connection.                                               *)

Told(broker, field, value) ==
  IF link = "up" THEN [broker EXCEPT ![field] = value] ELSE broker

TakenOnce == pending' = "none"

(* processDeferredActions() *)
Deferred(broker) ==
  IF pending = "none" THEN broker
  ELSE Told(broker, "maintenance", IF pending = "begin" THEN 1 ELSE 0)

(* _publishRuntimeOperationState(): once per transition, even if it fails. *)
OperationTold(broker) ==
  IF link # "down" /\ shown # claimed
  THEN Told(broker, "operation", claimed) ELSE broker

-----------------------------------------------------------------------------
(* The beginning of loop().                                                *)

(* handleEspotaMaintenance(), onStart(): published before update() freezes.*)
OpenWindow ==
  /\ place = "start" /\ claimed = "espota" /\ ~window
  /\ window' = TRUE
  /\ retained' = Told(retained, "maintenance", 1)
  /\ UNCHANGED <<device, pending, rebooting, cancelled, world, link, claimed>>

(* otaRuntimeRestoreServices(), after a timeout, a failed or closed window,*)
(* a failed upload.                                                        *)
RestoreServices ==
  /\ OtaRuns
  /\ claimed' = "idle"
  /\ window' = FALSE
  /\ pending' = "end"
  /\ UNCHANGED <<device, rebooting, cancelled, world, retained, link>>

RestartedCache == lastPub' = NeverPublished

Restarted ==
  /\ RestartedCache
  /\ link' = "down"
  /\ justReconnected' = FALSE /\ todo' = <<>> /\ place' = "start"
  /\ claimed' = "idle" /\ shown' = "none"
  /\ window' = FALSE /\ pending' = "none" /\ rebooting' = FALSE
  /\ discovery' = 0

(* ArduinoOTA.onEnd() and the restart that follows. *)
FinishEspota ==
  /\ place = "start" /\ claimed = "espota" /\ window
  /\ retained' = Told(retained, "maintenance", 0)
  /\ Restarted
  /\ UNCHANGED <<cancelled, world>>

(* shouldReboot: safeRestart() writes out what the web server left. *)
Reboot ==
  /\ place = "start" /\ rebooting
  /\ retained' = Deferred(retained)
  /\ Restarted
  /\ UNCHANGED <<cancelled, world>>

(* ... or the inhibit was switched on meanwhile. *)
CallOff ==
  /\ place = "start" /\ rebooting
  /\ rebooting' = FALSE
  /\ cancelled' = TRUE
  /\ UNCHANGED <<device, window, pending, world, retained, link, claimed>>

-----------------------------------------------------------------------------
(* MQTTService::update() and the replay that loop() prepares after it.     *)

(* Wrong: the texts keep what they had. *)
InvalidatedNothingWrong(cache) ==
  [t \in Topics |-> IF t \in Flags THEN 1 - cache[t] ELSE cache[t]]

(* consumeReconnect(): texts get an impossible value, flags the other one, *)
(* and the rest stays.                                                     *)
Invalidated(cache) ==
  [t \in Topics |-> CASE t \in Texts -> Invalid
                      [] t \in Flags -> 1 - cache[t]
                      [] t \in Kept -> cache[t]]

(* Wrong: a connection leaves the maintenance topic alone. *)
GreetedOnlyWrong(broker) == broker

(* connect(): besides the subscriptions, "0" on the maintenance topic. *)
Greeted(broker) == [broker EXCEPT !.maintenance = 0]

(* Wrong: the operation told over the old connection counts as told. *)
ReconnectedKeepsShownWrong == shown' = claimed /\ discovery' = 1

Reconnected == shown' = "none" /\ discovery' = 1

(* A reconnection is consumed once. *)
AfterUpdate ==
  /\ place' = "publish" /\ todo' = Order
  /\ justReconnected' = FALSE

Replayed == lastPub' = IF justReconnected THEN Invalidated(lastPub) ELSE lastPub

(* The upload or the window freezes everything else. *)
UpdateFrozen ==
  /\ place = "start" /\ OtaRuns
  /\ retained' = OperationTold(retained)
  /\ shown' = IF link = "down" THEN shown ELSE claimed
  /\ Replayed
  /\ AfterUpdate
  /\ UNCHANGED <<discovery, maintenanceVars, world, link, claimed>>

UpdateConnect ==
  /\ place = "start" /\ ~OtaRuns /\ link = "down" /\ reachable
  /\ TakenOnce
  /\ link' = "up"
  /\ retained' = Greeted(retained)
  /\ Reconnected
  /\ lastPub' = Invalidated(lastPub)
  /\ AfterUpdate
  /\ UNCHANGED <<window, rebooting, cancelled, world, claimed>>

(* An attempt that fails, or is not yet due. *)
UpdateOffline ==
  /\ place = "start" /\ ~OtaRuns /\ link = "down" /\ ~reachable
  /\ TakenOnce
  /\ Replayed
  /\ AfterUpdate
  /\ UNCHANGED <<shown, discovery, window, rebooting, cancelled,
                 world, retained, link, claimed>>

(* publishDiscoveryStep(): one entity, whose loss nobody notices. *)
Announced(broker) ==
  IF discovery \in Entities
  THEN Told(broker, "entities", broker.entities \cup {discovery}) ELSE broker

UpdateConnected ==
  /\ place = "start" /\ ~OtaRuns /\ link # "down"
  /\ TakenOnce
  /\ retained' = Announced(Deferred(OperationTold(retained)))
  /\ shown' = claimed
  /\ discovery' = IF discovery \in Entities THEN discovery + 1 ELSE 0
  /\ Replayed
  /\ AfterUpdate
  /\ UNCHANGED <<window, rebooting, cancelled, world, link, claimed>>

(* PubSubClient::loop() misses the answer to its ping. *)
KeepaliveExpires ==
  /\ place = "start" /\ ~OtaRuns /\ link = "half"
  /\ TakenOnce
  /\ shown' = claimed
  /\ link' = "down"
  /\ Replayed
  /\ AfterUpdate
  /\ UNCHANGED <<discovery, window, rebooting, cancelled,
                 world, retained, claimed>>

(* Nothing was published for two minutes, because nobody is connected or an *)
(* upload runs: loop() calls forceReconnect(), whatever runs.              *)
SoftRecovery ==
  /\ place = "publish" /\ todo = Order
  /\ link = "down" \/ OtaRuns
  /\ changes < MaxChanges /\ changes' = changes + 1
  /\ IF reachable
       THEN /\ link' = "up"
            /\ retained' = Greeted(retained)
            /\ Reconnected
            /\ justReconnected' = TRUE
       ELSE link' = "down" /\ UNCHANGED <<retained, shown, discovery, justReconnected>>
  /\ UNCHANGED <<lastPub, todo, place, maintenanceVars, current, reachable, faults, claimed>>

-----------------------------------------------------------------------------
(* Publish on change.                                                      *)

Finished(rest) == place' = IF rest = <<>> THEN "start" ELSE "publish"

(* publishResult(): refused while an upload runs or nobody is connected; a *)
(* write that fails stops the transport.                                   *)
Publish(t) ==
  \/ /\ link # "down" /\ ~OtaRuns
     /\ lastPub' = [lastPub EXCEPT ![t] = current[t]]
     /\ retained' = [retained EXCEPT !.topic[t] = IF link = "up" THEN current[t] ELSE @]
     /\ link' = link
  \/ link = "half" /\ ~OtaRuns /\ link' = "down" /\ UNCHANGED <<lastPub, retained>>
  \/ (link = "down" \/ OtaRuns) /\ UNCHANGED <<lastPub, retained, link>>

LookAt ==
  /\ place = "publish"
  /\ LET t == Head(todo) IN
       IF current[t] # lastPub[t] THEN Publish(t) ELSE UNCHANGED <<lastPub, retained, link>>
  /\ todo' = Tail(todo)
  /\ Finished(Tail(todo))
  /\ UNCHANGED <<justReconnected, shown, discovery, maintenanceVars, world, claimed>>

(* Every five minutes the texts are forgotten, so that they are sent again.*)
Heartbeat ==
  /\ place = "start"
  /\ changes < MaxChanges /\ changes' = changes + 1
  /\ lastPub' = [t \in Topics |-> IF t \in Texts THEN Invalid ELSE lastPub[t]]
  /\ UNCHANGED <<todo, place, justReconnected, shown, discovery, maintenanceVars, current, reachable,
                 faults, retained, link, claimed>>

-----------------------------------------------------------------------------
(* The other tasks and the world.                                          *)

Change(t) ==
  /\ changes < MaxChanges /\ changes' = changes + 1
  /\ current' = [current EXCEPT ![t] = 1 - @]
  /\ UNCHANGED <<device, maintenanceVars, reachable, faults, retained, link, claimed>>

Claim(operation) ==
  /\ ~OtaRuns /\ operation # "idle"
  /\ changes < MaxChanges /\ changes' = changes + 1
  /\ claimed' = operation
  /\ UNCHANGED <<device, maintenanceVars, current, reachable, faults, retained, link>>

(* POST /api/restart *)
AskRestart ==
  /\ ~rebooting
  /\ changes < MaxChanges /\ changes' = changes + 1
  /\ pending' = "begin" /\ rebooting' = TRUE
  /\ UNCHANGED <<device, window, cancelled, current, reachable, faults, retained, link, claimed>>

Fault == faults < MaxFaults /\ faults' = faults + 1

(* The connection goes without a word, or is closed. *)
Break ==
  /\ Fault
  /\ link = "up"
  /\ link' \in {"half", "down"}
  /\ reachable' \in BOOLEAN
  /\ UNCHANGED <<device, maintenanceVars, current, changes, retained, claimed>>

(* The broker restarts and has lost what it retained. *)
BrokerRestarts ==
  /\ Fault
  /\ retained' = EmptyBroker
  /\ link' = IF link = "up" THEN "half" ELSE link
  /\ UNCHANGED <<device, maintenanceVars, current, reachable, changes, claimed>>

BrokerReturns ==
  /\ ~reachable /\ reachable' = TRUE
  /\ UNCHANGED <<device, maintenanceVars, current, faults, changes, retained, link, claimed>>

(* The publish block is skipped when memory is low. *)
LowMemory ==
  /\ Fault
  /\ place = "publish" /\ todo = Order
  /\ todo' = <<>> /\ place' = "start"
  /\ UNCHANGED <<lastPub, justReconnected, shown, discovery, maintenanceVars, current,
                 reachable, changes, retained, link, claimed>>

(* A panic, a watchdog or a power cut. *)
Crash ==
  /\ Fault
  /\ Restarted
  /\ UNCHANGED <<cancelled, current, reachable, changes, retained>>

Loop ==
  \/ OpenWindow \/ FinishEspota
  \/ UpdateFrozen \/ UpdateConnect \/ UpdateOffline \/ UpdateConnected
  \/ LookAt

World ==
  \/ \E t \in Topics : Change(t)
  \/ \E operation \in Operations : Claim(operation)
  \/ AskRestart \/ Reboot \/ CallOff \/ RestoreServices \/ Heartbeat \/ SoftRecovery
  \/ Break \/ BrokerRestarts \/ BrokerReturns \/ LowMemory \/ Crash

MqttNext == Loop \/ KeepaliveExpires \/ World

(* loop() goes on, an upload or its watchdog ends, a connection nobody     *)
(* reads from is noticed, and a broker comes back.                         *)
MqttFairness ==
  /\ WF_mqttVars(Loop)
  /\ WF_mqttVars(RestoreServices)
  /\ SF_mqttVars(Reboot \/ CallOff)
  /\ WF_mqttVars(BrokerReturns)
  /\ SF_mqttVars(KeepaliveExpires)

MqttSpec == MqttInit /\ [][MqttNext]_mqttVars /\ MqttFairness

-----------------------------------------------------------------------------
(* What every variable holds. *)
MqttTypeOK ==
  /\ current \in [Topics -> 0..1]
  /\ lastPub \in [Topics -> {0, 1, Invalid}]
  /\ \A t \in Flags : lastPub[t] # Invalid
  /\ retained.topic \in [Topics -> {0, 1, Nothing}]
  /\ retained.operation \in Operations \cup {"none"}
  /\ retained.maintenance \in 0..1 /\ retained.entities \subseteq Entities
  /\ link \in {"up", "half", "down"}
  /\ place \in {"start", "publish"}
  /\ (place = "publish") = (todo # <<>>)
  /\ claimed \in Operations /\ shown \in Operations \cup {"none"}
  /\ pending \in {"none", "begin", "end"}
  /\ discovery \in 0..3
  /\ {reachable, justReconnected, window, rebooting, cancelled} \subseteq BOOLEAN

Passed(t) == place = "publish" /\ Head(todo) = t /\ todo' = Tail(todo)
Working == link = "up" /\ ~OtaRuns /\ ~justReconnected

(* Over a working connection, a topic whose text or number the replay      *)
(* after consumeReconnect() invalidates is right at the broker as soon as  *)
(* loop() has looked at it, whatever connection earlier values were        *)
(* written to, and even if the broker has lost what it retained.  What the *)
(* replay does not name may stay wrong until it changes.                   *)
TextsAreReplayed ==
  [][\A t \in Texts : Passed(t) /\ Working => retained'.topic[t] = current[t]]_mqttVars

(* The same of the flags, as main.cpp:1576 says ("Force full MQTT state    *)
(* replay after reconnect").                                               *)
FlagsAreReplayed ==
  [][\A t \in Flags : Passed(t) /\ Working => retained'.topic[t] = current[t]]_mqttVars

(* An announced maintenance ends at the broker too, after a window, an     *)
(* upload that failed, a crash in the middle and lost writes -- unless a   *)
(* restart is called off after it was announced (publishMaintenance() and  *)
(* the "0" of connect()).                                                  *)
MaintenanceEnds ==
  (retained.maintenance = 1) ~> (retained.maintenance = 0 \/ cancelled)

(* Once faults and requests stop, the broker shows the running operation   *)
(* and has every entity (the caches that connect() invalidates).           *)
BrokerCatchesUp ==
  <>[](retained.operation = claimed /\ retained.entities = Entities)

(* While the window is open and the node is connected, the broker says so  *)
(* (README.md:392, and MQTTService.cpp:208: "freeze MQTT entirely").       *)
WindowIsAnnounced == window /\ link = "up" => retained.maintenance = 1
=============================================================================
