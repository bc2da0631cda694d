# A formal model of the PoE radar + CSI security node

TLA+ models of the firmware in this repository, the TLC runs that check them on
small instances, and TLAPS proofs of all the safety properties the passing runs
check. File names below are relative
to the repository root; line numbers are in `PROJECT.json` (`map`).

Contents: [1 System](#1-the-system) · [2 Modules and code](#2-modules-and-code) ·
[3 Runs](#3-runs) · [4 Fairness](#4-fairness) · [5 Proofs](#5-proofs) ·
[6 What the models found](#6-what-the-models-found) ·
[7 What is left out](#7-what-is-left-out) · [8 Plan](#8-plan)

## 1 The system

An ESP32 watches a house with an LD2412 radar and, when it can, with Wi-Fi
channel state information (CSI) and a small neural net on top of it. It fuses
the three into motion evidence, drives an alarm state machine and a siren, and
reports to MQTT, Telegram and a web page.

The tasks that share the state are **`loop()`** (verdicts, timers, MQTT, schedule,
publishing), the **web server's task** (all HTTP handlers, one after another), the
**radar's task** (frames and recovery), **`csi_proc`** (packets and model
commands), **`connectivityTask()`** (the link watchdog) and the **sender tasks** of
the notifications. Web handlers run from the moment the server is started in the
middle of `setup()`.

| component | state it keeps | operations | talks to |
|---|---|---|---|
| alarm state machine (`AlarmFSM.h`) | state, three 32-bit time stamps, debounce counter | `arm`, `disarm`, `tick`, `reportMotion`, settings | called by the monitor only |
| security monitor (`SecurityMonitor`) | the state machine, siren pin, home mode, event queue of four, last event; `sec_armed`, `sec_home_mode` in NVS | `setArmed`, `update`, `processRadarData`, `peek/consumeAlarmEvent`, `begin` | web, MQTT, Telegram, schedule, `loop()`; one mutex, taken with time-outs |
| evidence chain (in `processRadarData`, `CorroborationWindow.h`) | CSI-disagree counter, CSI-only hold, corroboration window | one frame | radar and CSI snapshots, state machine |
| zones (in `processRadarData`) | zone list, current and previous zone, static filter | one frame, `setZones` | evidence chain |
| zone configuration (`WebRoutes.cpp`, `main.cpp`) | list shown, pending list, NVS | POST, apply-learn, save, apply | web task to `loop()` through a mutex and a flag |
| schedule and auto-arm (`loop()`) | day latches, last presence, last seen guard | look, act | monitor |
| alarm event delivery (`main.cpp`, `MQTTService`) | queue head, link, update flag | peek, publish, consume, replay | monitor, broker, offline buffer |
| offline buffer (`MQTTOfflineBuffer`) | ring in a file, header, read-failure streak | `store`, `replay`, `begin` | delivery, LittleFS |
| operation coordinator (`RuntimeOperationCoordinator.h`) and its clients | one atomic claim, time stamps; owner of an upload, pull in flight, ESPOTA window, `Update` session, flags of calibration and learning, scan state | claim, progress, release, time-out; each transfer's steps | web task, `loop()`, the task of a pull |
| CSI detection (`CSIService`) | packet window, votes, hold, thresholds, calibration, learning, the neural net's guard | one tick, one sample, commands, roaming | radar verdict, coordinator, MQTT session |
| CSI models (`CsiModelManager`, `CsiModelCommand`, `NvsCsiModelStore`) | active, candidate and previous model in RAM and NVS, a command slot of one, drift | submit, poll, abandon, claim, apply, roll back, clear, import, persist | web task to `csi_proc` through the slot |
| radar driver (`LD2412Service`) | serial speed, engineering mode, recovery counters, presence, learning of reflectors | frame, silence, recovery, suspend, stop | sensor, `loop()`, coordinator's clients |
| notifications (`NotificationService`, `TelegramService`) | cooldowns, two queues, a test tracker, mute | `sendAlert`, take, send, put back, commands | producers in `loop()` and web task; sender tasks |
| tamper watch (`CsiTamperDetector`, `CrossModalLiveness`, peers) | graces, latches, windows, peer table | the check once a minute, heartbeats | CSI, radar, MQTT, notifications |
| MQTT session (`MQTTService`, publish block of `loop()`) | cache of what was published, maintenance, discovery index | look at a topic, connect, replay, announce | broker |
| supervision (`main.cpp`, `DmsPolicy`, `OomGuard`, link watchdog, boot validation) | restart budget in NVS and RTC memory, watch on the link, unconfirmed image | tick of `loop()`, tick of the watchdog, restart | everything that restarts |
| event log (`EventLog`) | ring in RAM, ring in flash, sequence numbers | `addEvent`, `flush`, `flushNow`, `clear`, `begin` | `loop()`, producers of security events, web task, LittleFS |
| web admission (`GatedWebServer`, `HeapGatePolicy`, `WebAdmissionPolicy`) | gate, slots with generations, number in flight | accept, release, expire, probe | async TCP task, `loop()` |
| configuration import, lockout table, feedback store | see section 7 | | not modelled |

What is hard here, and what correct means:

- **Time.** `millis()` wraps every 49.7 days, settings change under running
  timers, `update()` skips a call when the mutex is busy. No delay may be cut
  short or last for weeks; every entry ends in a disarm or an alarm.
- **Many hands.** Five sources arm, disarm and trigger. Siren, NVS, home mode,
  last event and queue must agree with the state whatever the order.
- **Restarts.** Power can fail between any two writes, also in the middle of
  `setArmed()`, of a zone update or of a header write.
- **Evidence over several frames.** Debounce, corroboration window, CSI-only
  hold and suppress counter interact over many frames; an alarm must rest on
  primary evidence, and strong radar evidence must not be argued away.
- **Positions remembered across a change.** Zone index and name survive a new
  zone list.
- **Hand-over between tasks.** Web handlers leave work for `loop()`; loops read
  a state without the lock and act on it later.
- **Exclusive operations.** Three tasks claim, time out and give back one
  claim; what a client does before and after is not atomic with it. No image may
  be mixed, no claim left without a watchdog, no radar left suspended.
- **Recovery.** Radar, MQTT, Ethernet link and heap each have their own attempts,
  timers and restarts. None may circle for ever, restart the node without bound,
  or stop trying.
- **What others remember.** The broker retains what was once published; caches
  believe it is still there. Sessions die unnoticed and swallow writes.
- **Baselines.** A threshold is made of minutes of samples, while the station
  roams, people move and models are exchanged.
- **Memory.** A connection spends memory after it was let in, and the news of its
  end may be lost or late.
- **Outages.** Events wait in RAM, then on flash; none may be lost silently,
  duplicated without cause or sent out of order, and none may block the rest.

`PROJECT.json` lists these as 40 hazards, each at its line, with the properties
that would notice if it went wrong, or the reason why none does.

## 2 Modules and code

| module | models | composes |
|---|---|---|
| `AlarmFSMClass` | `AlarmFSM.h`: each method as an operator on the object | |
| `AlarmFSM` | the object on its own under a wrapping clock | `AlarmFSMClass` |
| `AlarmTimer` | abstract specification: five modes, true ages, a streak of frames; no time stamps | implemented by `AlarmFSM` |
| `SecurityMonitor` | guard, siren, queue, NVS, boot sequence | calls `AlarmFSMClass` |
| `Radar` | connection, speed, engineering mode, recovery of the LD2412 | |
| `Presence` | from frames to presence, masking, loitering, learned reflectors | what `SecurityMonitor` and `Fusion` get |
| `Fusion` | radar/CSI/MLP table, qualification, corroboration, debounce | calls `AlarmFSMClass` |
| `ZoneLogic` | zone choice, static filter, entry path, list replacement | |
| `CsiMotion`, `CsiMl` | verdict and report of CSI; vote and guard of the neural net | what `Fusion` gets |
| `CsiSampling` | calibration, adaptive threshold, site learning, roaming | thresholds of `CsiMotion` |
| `CsiModel` | life of the models, command slot, NVS | what `CsiSampling` learns |
| `ZoneConfig` | the two web routes, `loop()`, NVS | hands lists to what `ZoneLogic` calls `SetZones` |
| `ArmScheduler` | daily schedule and auto-arm | `setArmed` by its outcomes |
| `Supervision` | what restarts the node | |
| `Vigilance` | blinded CSI, liveness between sensors, covered radar, silent peers | alerts go to `Alerting` |
| `Alerting` | cooldowns, queues, retries, test messages, mute | |
| `AlarmDelivery` | queue, peek/publish/consume, link, offline buffer as a sequence | abstracts `SecurityMonitor`'s queue and `OfflineBuffer` |
| `OfflineBuffer` | ring on flash | |
| `EventLog` | rings in RAM and on flash, concurrent flushes | |
| `MqttState` | what the broker retains against what the node believes | |
| `RuntimeOperations` | the coordinator with OTA, calibration, site learning and Wi-Fi scan | |
| `WebAdmission` | heap gate and admission of connections | |
| `AlarmFSMClass_proofs` | lemmas on the methods of the state machine | used by the next three |
| `AlarmFSM_proofs` | theorems about `AlarmFSM` and its refinement of `AlarmTimer` | |
| `SecurityMonitor_proofs` | about `SecurityMonitor` and `MqttState` | |
| `Evidence_proofs` | about `Fusion`, `ZoneLogic`, `CsiSampling`, `CsiMotion`, `CsiMl`, `Presence` | |
| `ZoneConfig_proofs` | about `ZoneConfig`, `CsiModel`, `EventLog`: what is kept in flash | |
| `ArmScheduler_proofs` | about `ArmScheduler`, `Supervision`, `Vigilance`: what goes by the clock | |
| `Delivery_proofs` | about `AlarmDelivery`, `OfflineBuffer`, `Alerting` | |
| `RuntimeOperations_proofs` | about `RuntimeOperations` and `WebAdmission` | |
| `MC*` | the instances of section 3 | |

Components that hand each other values which the next one takes as an arbitrary
input share no variable. Some `MC` modules therefore put several of them beside
each other in one run: an extra variable says which one the behaviour runs, and
the others rest in one initial state. That is no composition of their behaviours;
the arbitrary inputs make each a superset of what it does in the firmware.

Operators whose name ends in `Wrong` are plausible faults. No definition uses
them; `PROJECT.json` (`mutants`) pairs each with the property that notices it.
Variables marked *history* exist for properties only: no guard reads them.

**AlarmFSM.** One action per method; `fsm` holds the private members. The
counter runs from 0 to `Wrap - 1` and starts anywhere. `since` (true time in the
state) and `gap` (time since the last `tick()`) are histories; `TimePasses` keeps
`gap <= MaxGap`, which says that `loop()` runs. `Reconfigure` is
`syncFsmConfig()`: any setting, at any time.

**SecurityMonitor.** Every handler holds the mutex throughout and is one action;
one that cannot get it changes nothing, which is a stutter, but for the restoring
`setArmed()` of `setup()` and for a power cut between its two `putBool()` calls:
both are actions. `phase` follows `setup()`: the server answers (`server`),
`begin()` has handed over the preferences (`begun`), the guard is restored
(`loop`). Before `begin()` the preferences pointer is null, so a request then
changes RAM and not NVS. `WebArm` passes no home mode, `LoopArm` (MQTT,
Telegram) may. A frame is reduced to whether it qualifies and to its zone's
behaviour, both arbitrary: a superset of what `Fusion` and `ZoneLogic` produce.
The siren pin is assumed to be configured. `Written` is the two `putBool()` calls, whose
results nobody looks at: NVS may refuse either.

**Fusion.** One frame is one action: `Fuse` is the decision table, `RadarOnly`
the branch without usable CSI, then qualification, gate and `reportMotion()`.
Percentages stand for the floats; the snapshots of `MCFusion` have one
representative for each cell of the table that the code tells apart, with
CSI-only confidences on both sides of the threshold 0.6. A time stamp is its
age. The window's length is a constant.

**ZoneLogic.** Index 0 stands for -1. `verdict` is what the frame hands to the
state machine, `due` the behaviour of the zone the target is really in.
`way` (history) is the way the target came: the zone it is in and the one before,
the wobbles and strong frames of the present stay, and whether the list was
replaced under it (`refitted`).

**ZoneConfig.** A list is a set of zones, its length their number, `SaveLimit`
the 1000 bytes. apply-learn is two critical sections; the one web task runs no
other handler between them. `ToArray` is ArduinoJson's `to<JsonArray>()`, which
clears the document. `Write` is `putString()`, which may refuse the list: the code does
not look and uses it all the same (`refused`, a history).

**ArmScheduler.** Steps of `loop()` alternate with users, alarms and restarts.
Time is counted in the 30 s between two looks at the schedule. `Outcomes` is
what `setArmed()` may leave, BUSY included.

**AlarmDelivery.** `link = "half"` is a TCP session that is dead and not yet
noticed. A publish is QoS 0 and, in the model, reaches the broker when the
session is alive: what the network loses after the socket took it is outside the
code. `EventLength` and `SlotLengths` are lengths of the real JSON and payload
buffer: the shortest alarm event has 235 characters, a slot holds 198.
`Survivors` is what of the buffer a restart may find, after what `OfflineBuffer` shows.

**OfflineBuffer.** A slot write and a header write are separate steps, a power
cut can fall between any two, one slot may be unreadable. A header write fails in two
ways: the file does not open, which `updateHeader()` reports, or the write does, which
it does not; `missed` (history) is what was accepted since the latter. A boot that cannot
read the header makes the file anew (`Recreate`).

**RuntimeOperations.** `claim` is the atomic word, so claiming and releasing are
single steps; what surrounds them is not. `web` and `loop` say what the two tasks
still have to do after a step: begin the `Update` session or set the flag after
claiming, release after the samples, restore after an eviction. `checkTimeout()`
is two steps, since it compares the word and not the times it read. `silent`
stands for the time since the last progress; a chunk of any upload is the
owner's progress, as in the code. `update` is the framework's one `Update`
object: whose `begin()` runs. A write that fails aborts it. The check of a chunk
and what its handler does then are one step; so is the end of a pull. ESPOTA's
library, once its session is aborted, is taken to end at once. `lost` and
`overtaken` are histories: clients whose claim somebody else released, and
operations whose new claim met the time-out of an old one.

**Radar.** `sensor` is the module, `uart` the driver object, `radar` what
`LD2412Service` believes, `monitor` the monitor's latch. A frame heard, a silence
noticed and a recovery attempt are the branches of `update()`; a reply may be lost
in each. `mishaps` bounds power failures and disturbances.

**Presence.** `update` is a frame in the driver, `processRadarData` a look of
`loop()`: several looks may see one frame, and either side may skip a turn when the
mutex is busy (`GiveUpLook`). Distances and energies are cut down to what the
comparisons tell apart. Time stamps are ages up to the limit the code compares
them with.

**CsiMotion, CsiMl, CsiSampling.** The variance of a window is one of three
levels, a sample the set of access points whose frames are in it. Sequences of
votes, the hold, the ring of minutes and the counters are the code's. `quiet`,
`edge` and `minutes` are histories. A site model that is applied, brought back or wiped
goes through `_resetShortTermState()`: `SwitchModel` is what it does to the votes, the
hold and the window while the verdict stays, `switchDetectionToActive` and
`clearLearnedSiteModel` what they do to thresholds, samples and candidate.

**CsiModel.** Blobs are their generation and the generation their statistics
descend from; a write succeeds, is refused, or tears the blob. The web task, `csi_proc`
and the loop each have a place of their own; the power may fail in all of them.

**Supervision.** A tick is about a minute: `loop()` and the watchdog run once in
each, in either order, and link and broker change in between. `stored` is the
budget in NVS; marks in RTC memory survive a restart and not a power cut. The operator
may turn the inhibit at any time between two passes (`InhibitTurns`); it is in NVS
and survives a restart. Within a pass a look at it and the act that follows are one step.

**Vigilance.** One check a minute, late ones covering more. Packets in a minute
are none, few or enough; what radar and CSI saw is arbitrary.

**Alerting.** Taking a message off its queue and the end of the attempt to send it
are two steps, so a producer may fill the place before it is put back. Text is
abstracted to the number of attempts and the test it belongs to.

**EventLog.** A flush copies, writes slot after slot, then the header, then marks:
each is a step, of each task. An event is its number. `added`, `recent`, `saved`,
`since` and `raced` are histories.

**MqttState.** One topic stands for the texts and numbers that the replay after a
reconnect invalidates with an impossible value, one for the flags it inverts, one for
the source and confidence of the fusion, which it does not name; the header of the
module lists them, and what is left out. `loop()` looks at the topics one by one.
`link = "half"` as above.

**WebAdmission.** Time stamps of slots are ages up to the time to live. A connection
may end with a release, late or not, or without. `robbed` is a history: holders
whose slot was given back by a token of an earlier round of generations.

## 3 Runs

| run | modules | instance | properties |
|---|---|---|---|
| `alarm_fsm` | `AlarmFSM`, `Alerting` | counter of 5, delays up to 2, debounce up to 3, three settings switched at any time; two producers of one type and the alarm, queues of 2, one retry, two tests | refinement `KeepsThePromise`, `EntryResolves`; `NobodyMasksAnother`, `TestIsAnswered` |
| `security_monitor` | `SecurityMonitor`, `Radar` | queue of 2, counter of 3, with and without auto re-arm; one power failure, one disturbance | `SirenFollowsAlarm`, `RestartKeepsGuard`, `QueueTellsTheStory`; `RadarRecovers` |
| `evidence` | `Fusion`, `ZoneLogic`, `CsiMotion`, `CsiMl`, `CsiSampling`, `Presence` | counters at their thresholds, three zone lists over six distances, two access points, four kinds of frame | `AlarmNeedsPrimaryEvidence`, `StrongRadarAlarms`; `DelayOnlyOnTheRightPath`; `MotionEnds`, `RetainedCatchesUp`; `TrustFollowsTheLastMinutes`; `OneApPerBaseline`; `AbsenceIsEarned` |
| `storage` | `ZoneConfig`, `CsiModel`, `EventLog` | three zones and a learned one; three generations, two requests, one fault; rings of 2 and 3, two tasks, four events, two faults | `RestartKeepsZones`, `AcceptedListGuards`; `AnswerIsOfTheRequest`, `ActiveSurvivesRestart`; `SavedEventsSurvive` |
| `arm_scheduler` | `ArmScheduler`, `Supervision`, `Vigilance` | days of three minutes, a year of two days; budget of two restarts; three peers for a table of two | `OncePerDay`, `AutoArmWaitsIfSeen`; `RestartsAreBounded`, `OomLoopSurfaces`, `DeadLinksReboot`; `WhatLastsIsNoticed` |
| `delivery` | `AlarmDelivery`, `OfflineBuffer` | queue of 2, three events, two repeats, slots of 200 and 400; three slots, batches of two, four events, one power cut, no or one bad slot | `NoSilentLoss`, `InOrder`, `QueueIsDelivered`; `AcceptedIsKept`, `InOrderOnce`, `Drains` |
| `mqtt` | `MqttState` | three kinds of topic, one fault, two changes | `TextsAreReplayed`, `MaintenanceEnds`, `BrokerCatchesUp` |
| `operations` | `RuntimeOperations`, `WebAdmission` | two uploads, a pull, ESPOTA, calibration, learning, scans; three connections, two at a time, two generations | `OneWriter`, `ClaimIsWatched`, `RadarHasRescuer`; `AdmittedCanSpend` |
| `fusion_veto` | `Fusion` | corroboration on | `StrongRadarIsNotVetoed` fails |
| `zone_config_learn` | `ZoneConfig` | as above | `LearnKeepsZones` fails |
| `delivery_offline` | `AlarmDelivery` | the firmware's slot, four events | `OfflineEventIsStored` fails |
| `mqtt_flags` | `MqttState` | as above | `FlagsAreReplayed` fails |

The type invariants (`TypeOK`, `AlertingTypeOK`, ...) are not among the runs'
properties: they are checked when a module changes, by adding them to its `.cfg`;
those of `AlarmFSM`, `SecurityMonitor`, `ZoneConfig` and `ArmScheduler` are theorems.
So are `TimersTellTheTruth`, `DelaysEnd`, `EvidenceIsOfThisGuard`, `LastEventExplains`,
`LatestListIsShown`, `ImmediateNeedsRadar` and `RestartsForADeadLink`, which a run can
check the same way.

*What the newer properties say.* `AbsenceIsEarned`: whatever the pace of frames and
looks, nobody is gone before enough frames and the hold time passed, and masking
and loitering are reported when their time is over, never earlier.
`WhatLastsIsNoticed`: a CSI sensor that is meant to sense and sees nothing is latched,
a sensor that sees what the other never does is flagged, a silent peer is alerted,
and one that is alerted was silent all the time. `NobodyMasksAnother`: a producer
that names itself may send exactly when a cooldown has passed since it last did.
`TestIsAnswered`: an accepted test gets its result, and the next is not refused for
ever. `SavedEventsSurvive`: an event whose flush went through is there after a
restart until as many newer ones as the file holds were written, and the next flush
takes every event that none has saved. `AdmittedCanSpend`: nobody is let in
unless every younger open connection and the new one can spend their reserve, and
nobody is turned away for connections older than the time to live. The comment
above each property names the exceptions it makes.

*Why the bounds are enough.* The counter has to wrap inside every delay, and a
delay has to differ from the loop period: five instants do both. Queues and
rings have to overflow and wrap while older entries are still in use: one more
event than places, four events for three slots. In `MCMqtt` the two values of a text are
alike, since neither is in the cache or at the broker at first: those topics begin with
one of them. Counters that saturate (CSI
disagreement, static filter, misses, minutes of a window) are kept to their
threshold, above which the code does not tell values apart. Two uploads are the
least that share an owner number, two flushing tasks the least that race; both are
interchangeable (`SYMMETRY`). The clock of the schedule needs a minute before, at
and after each appointment and a midnight. Two generations are the least by which a
slot's token can be told from its predecessor's and come back. One fault at a time is
the bound where every fault is followed by a recovery that returns to a state
reached without it; the event log gets two, since one that was not noticed does its
damage in the next. What depends on a bound in a way TLC cannot settle, the
arithmetic of the counter, is proved in section 5.

*Deadlock* is checked in `alarm_fsm`, `evidence`, `arm_scheduler` and `mqtt`. The
others say `CHECK_DEADLOCK FALSE`, each with the reason in its `.cfg`: events,
requests and faults are used up; a claim that lost its watchdog (section 6) refuses
every other operation; a radar whose driver never began has nothing to do.

## 4 Fairness

- `AlarmFSM`: `WF` of `Tick` and of the clock: `loop()` calls `update()` in every
  pass. A busy mutex makes a call do nothing, and `MaxGap` bounds how long.
- `AlarmDelivery`: `SF` of the publish, of a publish on a live link, of a
  consume that gets the mutex, of connecting and of the end of an update. Strong,
  because outages and updates come and go for ever; an outage that never leaves
  time for one publish delivers nothing. Nothing is assumed of restarts: what
  one loses is `forgotten`.
- `OfflineBuffer`: `SF` of the start of a replay and of a publish that succeeds
  (a broker that is offered messages again and again takes one at last), `WF` of
  the steps that finish a call: a function returns.
- `Alerting`: `WF` of taking a message and of an attempt's end: the sender task runs
  and its requests have time-outs. Not that they succeed.
- `CsiMotion`: `WF` of the tick that ends in `_publishMQTT()`: `loop()` calls `update()`.
  That supposes Wi-Fi up and no update or scan running, since `update()` returns before
  the tick otherwise: while that lasts, nothing catches up.
- `Radar`: `WF` of `update()`, with a frame and without, and of time: the task runs.
  Noise, lost replies and power failures are bounded by `mishaps`, so what is shown
  is recovery after the last of them.
- `Supervision`: `WF` of the tick, in which `loop()` and the watchdog run once.
- `MqttState`: `WF` of a pass of `loop()`, of the end of a window and of the broker's
  return, `SF` of the end of an announced restart and of the keep-alive that notices
  a dead session: each is retried for as long as it is due.

The other modules state safety only and assume no fairness.

## 5 Proofs

Every safety property of the passing runs, invariant or action property, is a
theorem, for every value of the constants that satisfies the assumptions below.

| module | theorem | statement |
|---|---|---|
| `AlarmFSM_proofs` | `Invariance`, `TypeCorrect` | `Spec => []Inv`, `Spec => []TypeOK` |
| | `TimersAreTrue` | `Spec => []TimersTellTheTruth` |
| | `DelaysAreBounded` | `Spec => []DelaysEnd` |
| | `NoStaleEvidence` | `Spec => []EvidenceIsOfThisGuard` |
| | `Implementation` | `Spec => KeepsThePromise` (refines `AlarmTimer`) |
| `SecurityMonitor_proofs` | `Invariance`, `TypeCorrect` | `Spec => []Inv`, `Spec => []TypeOK` |
| | `SirenIsTrue` | `Spec => []SirenFollowsAlarm` |
| | `LastEventIsTrue` | `Spec => []LastEventExplains` |
| | `QueueIsTrue` | `Spec => []QueueTellsTheStory` |
| | `GuardSurvives` | `Spec => []RestartKeepsGuard` |
| | `TextsReachTheBroker` | `MqttSpec => TextsAreReplayed` |
| `Evidence_proofs` | `AlarmsHaveEvidence` | `Spec => AlarmNeedsPrimaryEvidence` |
| | `ImmediateHasRadar` | `Spec => ImmediateNeedsRadar` |
| | `StrongRadarEndsGuard` | `Spec => StrongRadarAlarms` |
| | `DelayNeedsThePath` | `ZoneSpec => DelayOnlyOnTheRightPath`, if no zone is called "none" |
| | `BaselinesKeepToTheirAp` | `SamplingSpec => []OneApPerBaseline` |
| | `VerdictEnds` | `CsiMotionSpec => []MotionEnds` |
| | `GuardJudgesTheLastMinutes` | `CsiMlSpec => []TrustFollowsTheLastMinutes` |
| | `AbsenceIsAlwaysEarned` | `PresenceSpec => []AbsenceIsEarned` |
| `ZoneConfig_proofs` | `Invariance`, `TypeCorrect` | `Spec => []Inv`, `Spec => []TypeOK` |
| | `ShownIsLatest` | `Spec => []LatestListIsShown` |
| | `ZonesSurvive` | `Spec => []RestartKeepsZones` |
| | `AcceptedIsActive` | `Spec => []AcceptedListGuards` |
| | `AnswersBelong` | `CsiModelSpec => []AnswerIsOfTheRequest` |
| | `ActiveSurvives` | `CsiModelSpec => []ActiveSurvivesRestart` |
| | `SavedStaySaved` | `LogSpec => []SavedEventsSurvive` |
| `ArmScheduler_proofs` | `Invariance`, `TypeCorrect` | `Spec => []Inv`, `Spec => []TypeOK` |
| | `ActsOnce` | `Spec => []OncePerDay` |
| | `AutoArmWaits` | `Spec => AutoArmWaitsIfSeen` |
| | `SwitchGivesUp` | `SupervisionSpec => []RestartsAreBounded` |
| | `OomLoopsShow` | `SupervisionSpec => []OomLoopSurfaces` |
| | `WatchdogIsPatient` | `SupervisionSpec => RestartsForADeadLink` |
| | `LastingTroubleIsNoticed` | `VigilanceSpec => []WhatLastsIsNoticed` |
| `Delivery_proofs` | `NothingIsLostSilently` | `Spec => []NoSilentLoss` |
| | `EventsArriveInOrder` | `Spec => []InOrder` |
| | `AcceptedIsNeverLost` | `BufferSpec => []AcceptedIsKept` |
| | `ReplayIsInOrderOnce` | `BufferSpec => []InOrderOnce` |
| | `ProducersAreHeard` | `AlertingSpec => []NobodyMasksAnother` |
| `RuntimeOperations_proofs` | `ImagesHaveOneWriter` | `Spec => []OneWriter` |
| | `ClaimsAreWatched` | `Spec => []ClaimIsWatched` |
| | `RadarIsRescued` | `Spec => []RadarHasRescuer` |
| | `AdmissionKeepsTheReserve` | `AdmissionSpec => []AdmittedCanSpend` |

### Assumptions

TLC evaluates each on the instances of section 3. Those that say more than that a
number is one, and why the code satisfies them:

- `ClockAssumption`: the longest delay plus the longest pause between two ticks is
  shorter than the counter's period (an hour and some seconds against 49.7 days).
- `ConfigAssumption`: settings are records of the right type, with a debounce that
  fits a byte. `FusionAssumption`, `ZoneAssumption`: snapshots and zones likewise.
- `QueueAssumption`, `DeliveryAssumption`, `BufferAssumption`, `LogAssumption`: queues,
  rings and batches have a place. `ZoneConfigAssumption`: so has the NVS entry.
- `ScheduleAssumption`: appointments are minutes of the day.
- `SmoothAssumption`: votes needed to enter and to leave motion together exceed the
  window, so no window has enough of both.
- `GuardAssumption`: the window of the neural net's guard is at most ten recoveries
  long (360 minutes and 60). Needed: with a longer one the guard could declare itself
  saturated for the window while the last minutes already acquit the net.
- `VigilanceAssumption`: the gap between two checks is bounded, and a window can be
  active enough. `SupervisionAssumption`, `PresenceAssumption`: durations and limits
  are numbers.
- `AdmissionAssumption`: at least as many slots as connections may be in flight
  (`_clampCap()`).
- `UploadsAssumption`, `SamplingAssumption`, `AlertingAssumption`: uploads, access
  points and sources do not bear the names the model uses for something else.
- The hypothesis of `DelayNeedsThePath` is of the code itself: it uses "none" as the
  name of no zone (`SecurityMonitor.cpp:609`), and a zone called so would be one that
  the target never enters.

Bounds that only a run needs (the number of events, faults, generations) are not
assumed anywhere; the proofs hold for any of them.

### The state machine and the monitor

*`AlarmFSM`.* `TimersTellTheTruth` is not inductive. A wrapped difference
determines the true waiting time only below one period, so the induction needs a
bound on that time, and the bound, `DelaysEnd`, needs the timers: `tick()` ends a
delay because it sees its true age. `Inv` therefore carries both, with the types,
`EvidenceIsOfThisGuard`, and `debounce < CountMax`: the counter never reaches its
cap, since it is reset when it reaches the required number, itself at most
`CountMax`. Without that the streak of `AlarmTimer`, which has no cap, would not
be the counter. `ElapsedAdvances` is the arithmetic: advancing the counter
advances the difference modulo `Wrap`. `Implementation` shows that each method,
in a state satisfying `Inv`, is one step of `AlarmTimer` or a stutter.

*`SecurityMonitor`.* The proof is split where the code is: `AlarmFSMClass_proofs`
says which event each method of the state machine returns and which states it
leads from and to (`ArmResults`, `TickEvents`, `MotionEvents`); the lemmas
`ApplyTickSound`, `ReportFrameSound`, `ArmSound`, `DisarmSound` say that each
handler keeps the object `Sound`; one lemma per action adds NVS and the boot
sequence. `Sound` holds siren, last event and queue together, because none is
inductive alone: that an `entry_delay_expired` may be appended needs the queue
to end in `entry_delay`, which needs `LastEventExplains`. `RestartKeepsGuard`
says nothing before `loop()` runs, so the induction is carried through `setup()`
by `Booting`: before `loop()` no alarm is pending or triggered, nothing that is
saved is armed before `begin()`, and an armed guard after it is the one in NVS. A
value that NVS refuses is one of the ways to `unsaved`, and nothing is claimed until
a whole guard is written again (`WrittenEffect`).

*`MqttState`.* `TextsArePublished`: over a live session, and until `loop()` is told of a
reconnect, what the cache says of a text the broker has. The replay invalidates every
text, so the invariant survives it; a flag it inverts and the rest it leaves, and of
these the invariant is false (section 6).

### Evidence

*`Fusion`.* `DebounceIsOfEvidence` brackets the debounce counter: at most the frames in
a row with primary evidence, and, without corroboration, at least the strong ones.
The upper bound gives the first theorem, the lower one with `debounce <
RequiredFrames(cfg)` the last.

*`ZoneLogic`.* The property compares two remembered things, the index of a zone and
the name of the one before, each of which may be stale. `IndexIsOfName`: unless
the list was replaced under the stay, the index is of a zone with the remembered
name; `PrevIsBefore`: the name left last is the zone before on the true way.

*`CsiSampling`.* A roam is noticed only in the next tick. `FramesAreRecent` bounds the
mixture until then: the access point seen last and the present one.
`BaselinesAreOfOneAp` and `CandidateIsClean` then hold since every baseline is reset
in the tick that sees the change, before its sample is taken, and a switch of the model
only takes samples away.

*`CsiMotion`.* `QuietVotes`: the newest votes are those of the quiet ticks.
`HoldExplains`: what of a quiet time the votes do not explain, the hold does; that
sum is the bound of `MotionEnds`. A switch of the site model throws both away and keeps
the verdict, so the quiet ticks are counted anew from it.

*`CsiMl`.* `RingHolds`: the ring of minutes, read from its head, is the sequence of the
last shares, through filling and wrapping. `Trusts` relates the verdict to averages
over that sequence. A sum over it is a recursive function; its value for every
length is the only induction over data in these proofs. The library's induction
theorems cannot be used (they take an operator as a parameter), so `SumsExist` and
the lemmas about sums go by the least counterexample (`UpTo`).

*`Presence`.* `AbsenceIsMeasured`: misses counted are frames without anybody, and the
hold began no earlier than the last frame with somebody. `Reports` is one statement
for masking and loitering: what `loop()` measures at its looks lags behind the truth
by at most one look.

### What is kept in flash

*`ZoneConfig`.* `OnTheWay` is what the properties lack to be inductive: a pending
list is the one acknowledged last, and a list `loop()` has saved is the one it is
about to use; that the list in use is the one in NVS holds under `~refused`. The
two web routes are one lemma, `WebStep`: both queue a list or give up.

*`CsiModel`.* `BusyIsExecuting`: the slot is executing exactly while `csi_proc` is busy,
so it is never free for a second command meanwhile. Only with it is
`SlotIsOfTheWaiter` inductive: whatever is in the slot while the web task waits
is its own. `ActiveIsKept`: flash holds the generation RAM reports, or a torn blob.

*`EventLog`.* All of `LogInv` but the types is under `~raced`: until flushes meet each
other or a `clear()`. `Alone` says they have not. `RingIsTrue` walks the ring on flash
backwards from the next slot: the events written last are there, in order, and those
that a header covers are within what a boot will read, also between the last slot
and the header (`Written`). `NewsAreKept` relates three counts, of events added, in
RAM and flushed: what is up to the flushed number is saved or in the copies of the
flush in progress.

### By the clock

*`ArmScheduler`.* `Latched` ties the acts of a day to the latches, also for an
act that is decided and not yet done. `Waited` compares what auto-arm counts
(`idle`) with the true time (`quiet`): without a guard that it did not see, it
never counts more. Two separate lemmas, since neither needs the other.

*`Supervision`.* `RestartsCounted`: the restarts since the last publish are among those
counted, and RAM and NVS agree on the count, which is reset only after a publish.
`OomRemembered`: only a boot that knows of its marker can follow a restart nobody
saw. `WatchIsHonest`: in the outage it watches, the watchdog has counted no more
than passed, one less where it has not yet run in this tick.

*`Vigilance`.* Checks are late by up to a gap, windows start anywhere, so each property
speaks of a longer time than the code's threshold. `SilenceIsCounted` and
`LonelinessShows` say by how much the code's counts may lag; a sensor that was alone
for a full window has filled it, one that was for another window and a gap is
flagged. `SilentIsGone`: the table is exact, up to where it saturates.

### Delivery and alerts

*`AlarmDelivery`.* An event moves between queue, broker, buffer and the two sets that
record losses (`Somewhere`). A publish and its consume are two steps, so
`PublishedIsKept` is needed: what is about to be consumed is elsewhere, too. Order,
which is promised while the slots are too short to hold an event (as they are),
needs `Waiting` (the queue is sorted) and `NotAhead`: the broker has nothing newer
than the head of the queue, and the head itself only between publish and consume or
after a consume that gave up.

*`OfflineBuffer`.* What a ring names are its `Places`. A boot brings back those of the
header, so what a power cut must not lose has to be in a place that ring and header
share (`Shared`): `Durable` is that, or delivered, or lost with cause. `HeaderCovers`
says that, while no header write failed unnoticed, the header names every place of
the ring: it may lag behind a replay, never behind a store. What was accepted since such
a failure is only `Safe`, in the ring in RAM. `SentIsReplayed` and `WrittenIsNext` say
what is true in the middle of a replay or a store. `InStep` is the order: while no
header was missed, the slots ascend from head to tail, and everything replayed is below
what is left. The lemmas on `Physical`, `Grow` and `Drop` are the arithmetic modulo
`Capacity`.

*`Alerting`.* `SlotsAreTrue`: the slot of a producer was stamped when, and only when, it
was heard. That is what a table keyed by type and source gives, and one keyed by
type would not.

### Operations and connections

*`RuntimeOperations`.* Three invariants, one for each property, on the common `Typed` and
`LoopIsAbout` (what `loop()` is in the middle of). `ClaimIsWatched` is inductive with
these two. `RescueInv` lists who will resume the radar (`Rescuer`) and needs that
an upload which has not begun still has the claim. `WriterInv` says of each client
that goes on that it has the claim or is in `lost` (`OwnersClaim`, `PullClaims`,
`EspotaClaims`), and of each image whose it is (`ImageOfUpload`, `ImageOfPull`,
`ImageOfEspota`).

*`WebAdmission`.* `Counted`: `inFlight` is the number of busy slots. `EachHoldsItsOwn`: each
connection that is younger than the time to live holds a slot, of its own and as old
as itself. Then the reserve that admission computes from the count covers every
younger connection.

### Only model-checked

Liveness is out of the prover's reach, as is everything with `ENABLED`:
`EntryResolves`, `TestIsAnswered`, `RadarRecovers`, `RetainedCatchesUp`,
`QueueIsDelivered`, `Drains`, `MaintenanceEnds`, `BrokerCatchesUp`, and the second
half of `DeadLinksReboot`, whose first half is `WatchdogIsPatient`. `Radar` has
liveness only, hence no theorem. No module declares a `RECURSIVE` operator.

## 6 What the models found

Four statements of the repository do not hold of its code; a run shows each.

- `zone_config_learn`: apply-learn means to append the learned zone, but
  `to<JsonArray>()` clears the parsed list, so all configured zones are replaced
  (`src/WebRoutes.cpp:702`).
- `delivery_offline`: no alarm event fits in a slot of the offline buffer, which
  exists to keep them (`src/services/MQTTOfflineBuffer.cpp:106`). Events wait in
  the queue of four in RAM.
- `fusion_veto`: with corroboration on, strong radar frames that CSI disagrees
  with have a confidence below the threshold and are held for ever, against
  "must not veto the armed path" (`src/services/SecurityMonitor.cpp:819`).
- `mqtt_flags`: the replay after a reconnect inverts the value a flag was last
  published with, so a flag that turned meanwhile equals it and is not sent
  (`src/main.cpp:1582`, "Force full MQTT state replay").

Smaller disagreements that shaped a property and have no run of their own:

- Without auto re-arm the trigger timeout disarms in RAM only; a restart arms the
  house again (`SecurityMonitor.cpp:177`). `RestartKeepsGuard` is stated, and
  proved, for auto re-arm.
- All uploads share one owner number: one that outlived its time-out writes into
  the image of the next (`WebRoutes.cpp:2140`); ESPOTA begins its session before
  it asks for the claim (`main.cpp:1237`). `OneWriter` names both.
- The flag of a timed-out calibration or learning is reset after its claim is
  free (`CSIService.cpp:1833`): a new one that claims in between loses its flag
  and keeps its claim until the device restarts. `ClaimIsWatched` names it.
- `checkTimeout()` may release a claim that is younger than the times it read,
  when owner and operation are the same; an upload hit before it suspends the
  radar leaves it suspended. `RadarHasRescuer` names it.
- The CSI-only hold is not restarted by radar-only or starved frames, although
  `SecurityMonitor.h:394` describes continuous CSI.
- `ARM_HOME` has no zone profile and the web route ignores `home` (README.md:327).
- A new list with a zone of the same name at another place keeps the old index
  (`SecurityMonitor.cpp:624`): `BehaviorIsOfTheZone` excepts the rest of that stay.
- A target lost for one frame on the prescribed path is treated as an intruder
  on a wrong one; `DelayOnlyOnTheRightPath` states the direction that holds.
- Lists of 1000 bytes and more are accepted, shown, and neither saved nor used;
  `AcceptedListGuards` excepts them.
- `saveZonesToNVS()` does not look at what `putString()` returns (`main.cpp:470`): a list
  that NVS refuses guards the house until a restart brings back the one before, and its
  sender has a 200. `RestartKeepsZones` excepts it. In the same way `setArmed()` ignores
  both `putBool()` (`SecurityMonitor.cpp:347`); `RestartKeepsGuard` excepts that.
- `updateHeader()` of the offline buffer ignores the result of its write
  (`MQTTOfflineBuffer.cpp:83`), so `store()` accepts events that a restart does not find;
  `begin()` removes a file whose header it cannot read, with all its messages
  (`:16-35`). `AcceptedIsKept` excepts both.
- The "full" replay after a reconnect (`main.cpp:1576`) does not name the topics of the
  fusion, the gates and light: lost in a dead session, they stay wrong until they change.
  It gives the frame rate -1 and the heap 0, which the deadbands of 2 and 5 take for
  rates up to 1 and heaps up to 5 KB: the 0 of a radar that fell silent is not sent
  again. `TextsAreReplayed` is about the rest.
- A switch of the site model throws votes and hold away and keeps the verdict
  (`CSIService.cpp:2494`): each starts the sum of `MotionEnds` anew, so models applied
  again and again keep motion in an empty room.
- The schedule latches the day and announces arming when `setArmed()` was BUSY.
- Auto-arm does not notice a guard that comes and goes between two looks.
- Two flushes of the event log may overlap, since `loop()` calls `flush()`
  (`main.cpp:1653`) while another task calls `flushNow()`
  (`SecurityMonitor.cpp:1058`), and neither holds the mutex while it writes: both
  write one slot and both advance, so an event is lost and a stale slot listed.
  `clear()` during a flush leaves sequence numbers by which the ring is flushed
  again or an event never. `SavedEventsSurvive` speaks of the time without such races.
- A header that cannot be written goes unnoticed and its events count as flushed;
  one `open("r+")` that fails makes the file anew and drops 500 events
  (`EventLog.cpp:146-152`). Both are exceptions of that property.
- The alert for a covered radar is edge-triggered with a cooldown that starts at
  boot: one that begins in the first ten minutes, or within a cooldown, is never
  announced (`SecurityMonitor.cpp:381`).
- Peers share one cooldown, and `alerted` is latched whatever `sendAlert()`
  returned (`main.cpp:221`); a ninth peer is never watched.
- A cooldown is stamped when an alert is accepted into a queue, not when it is sent,
  against the comment in `NotificationCooldownPolicy.h`; a webhook request that
  cannot be put back is dropped (`NotificationService.cpp:77`).
- Debounce counts evaluations of `loop()`, not radar frames (README.md:342): the last
  frame of a radar that fell silent is evaluated again and again
  (`main.cpp:1840`).
- A restart that is announced and then called off leaves "1" on the maintenance topic
  (`main.cpp:1541`); `MaintenanceEnds` names it.
- Applying the same candidate twice makes the previous model equal to the active one
  (`CsiModelManager.h:52`); a rollback without an active model marks an empty one valid
  (`:74`).
- `_varHist` and a running calibration are not reset when the station roams;
  `OneApPerBaseline` names what holds.
- A connection that outlives 256 successors of its slot gives back the slot of the
  one that has its number (`WebAdmissionPolicy.h:93`): the exception of
  `AdmittedCanSpend`.

## 7 What is left out

- Approach log, disarm reminder, LED, logging, web pages: output that no alarm
  state depends on.
- The cross-modal contradiction latch and the pre-trigger ring (diagnostics).
- A `begin()` of the radar that finds no memory for its driver
  (`LD2412Service.cpp:44`, `:63`): `update()` then returns at once, and the radar is off
  until a restart. `RadarRecovers` says nothing of it.
- More than one roam between two ticks of CSI.
- `clear()` of the offline buffer (no caller) and a failing `initFile()`, which
  disables the buffer for good; an event log whose file cannot be read at boot.
- CSI signal processing and the neural net's arithmetic: floating-point filters
  whose outputs, not whose control, matter; they are arbitrary levels here.
- Settings: the routes and MQTT topics that set one value each, the sensitivity of
  the radar's gates, and the switches of the heap gate.
- Configuration import, the lockout table of the web server and the store of
  feedback for the neural net: sequential code, next in the plan.
- Vendored code (`lib/LD2412_Extended`), radar framing, the flash writer of OTA.

## 8 Plan

Done, in this order: `AlarmFSMClass`, `AlarmTimer`, `AlarmFSM`, `SecurityMonitor`
with their proofs; `Fusion`, `ZoneLogic`; `ZoneConfig` and `ArmScheduler` with their
proofs; `AlarmDelivery`, `OfflineBuffer`, `RuntimeOperations`; then `CsiMotion`,
`CsiMl`, `CsiSampling`, `CsiModel`, `MqttState`, `Radar`, `Supervision`, `Presence`,
`Vigilance`, `Alerting`, `EventLog` and `WebAdmission`.

Next, most important first:

1. Configuration import with its journal, and the lockout table with eviction.
2. The coordinator with an abstract specification (a lock whose holder may be
   evicted) and its refinement; liveness of `RuntimeOperations` with one upload.
3. The store of feedback; settings that change while timers run.

Proofs, most important first:

1. `OfflineBuffer` implements the sequence by which `AlarmDelivery` abstracts it,
   as long as no header write fails; then the two proofs about events join up.
2. The safety halves of the liveness properties, as `WatchdogIsPatient` is for
   `DeadLinksReboot`: what a radar that is called alive has answered, what
   maintenance leaves at the broker.
3. The coordinator against an abstract lock whose holder may be evicted.
4. The type invariants of the modules whose proofs need only part of them.
