---------------------------- MODULE Supervision ----------------------------
(***************************************************************************)
(* What restarts the node and what keeps it from restarting for ever: the  *)
(* soft recovery and the dead man's switch of loop(), the Ethernet         *)
(* watchdog of connectivityTask(), the new-handler for exhausted memory    *)
(* and the first minute of a new image (src/src/main.cpp, DmsPolicy.h,     *)
(* EthLinkFlapTracker.h, OomGuard.h, BootOutageNotice.h).                  *)
(*                                                                         *)
(* Time passes in ticks of about a minute; in each of them loop() and the  *)
(* watchdog run once, and whatever happens between them may happen.        *)
(***************************************************************************)
EXTENDS Naturals

CONSTANTS
  GraceTicks,   \* TIMEOUT_DMS_STARTUP_MS
  SoftTicks,    \* TIMEOUT_MQTT_SOFT_RECOVERY_MS
  DmsTicks,     \* TIMEOUT_DMS_NO_PUBLISH_MS
  RetryTicks,   \* from the reconnect of the switch to its restart
  EthTicks,     \* ETH_LINK_WATCHDOG_MS
  OomTicks,     \* loopGuardS of oomShouldRestart()
  MaxRestarts   \* DMS_MAX_RESTARTS

(* Durations and a limit; every one of them may be zero.                   *)
ASSUME SupervisionAssumption ==
  /\ GraceTicks \in Nat /\ SoftTicks \in Nat /\ DmsTicks \in Nat
  /\ RetryTicks \in Nat /\ EthTicks \in Nat /\ OomTicks \in Nat
  /\ MaxRestarts \in Nat

VARIABLES
  node,         \* what loop() remembers; lost in a restart
  watch,        \* what connectivityTask() remembers
  due,          \* who has not yet run in this tick
  stored,       \* dms_count in NVS
  unconfirmed,  \* otadata: the running image waits for its confirmation
  linkUp,       \* ETH.linkUp()
  broker,       \* "ok", "gone", or "deaf": it connects but nothing is published
  inhibit,      \* g_rebootInhibit
  otaRuns,      \* the runtime operation is OTA
  row,          \* history: restarts of the switch since the last publish
  downFor,      \* history: ticks since the link went down
  hidden        \* history: clean-looking restarts for want of memory, in a row

persistent == <<stored, unconfirmed>>
outside == <<linkUp, broker, inhibit, otaRuns>>
supervisionVars == <<node, watch, due, persistent, outside, row, downFor, hidden>>

LeastOf(a, b) == IF a <= b THEN a ELSE b
Actors == {"loop", "watchdog"}
NotWatching == EthTicks + 1
NotTrying == RetryTicks + 2
MaxAge == DmsTicks + 1
MaxUp == GraceTicks + 1

(* g_lastBootWasOomRestart is what the marker says at boot.                *)
ForgetsMarkerWrong(count, marker) ==
  [up |-> 0, age |-> 0, soft |-> 0, connected |-> FALSE, published |-> FALSE,
   restarts |-> count, degraded |-> FALSE, trying |-> NotTrying,
   lastOom |-> FALSE]

Booted(count, marker) ==
  [up |-> 0, age |-> 0, soft |-> 0, connected |-> FALSE, published |-> FALSE,
   restarts |-> count, degraded |-> FALSE, trying |-> NotTrying,
   lastOom |-> marker]

Watching(since, mark) == [since |-> since, sameOutage |-> mark]
Unwatched == Watching(NotWatching, TRUE)

SupervisionInit ==
  /\ node = Booted(0, FALSE)
  /\ watch = Unwatched
  /\ due = Actors
  /\ stored = 0
  /\ unconfirmed \in BOOLEAN
  /\ linkUp = TRUE
  /\ broker = "ok"
  /\ inhibit \in BOOLEAN
  /\ otaRuns = FALSE
  /\ row = 0 /\ downFor = 0 /\ hidden = 0

(* Every restart: the boot loader goes back from an image that was never   *)
(* confirmed, and setup() takes the marker of g_oomMarker and clears it.   *)
RestartWith(count, marker) ==
  /\ node' = Booted(count, marker)
  /\ unconfirmed' = FALSE
  /\ watch' = Unwatched
  /\ otaRuns' = FALSE

-----------------------------------------------------------------------------
(* loop(), one stage after the other.                                      *)

Stale(n) == n.age > DmsTicks
Reachable == linkUp /\ broker # "gone"

(* connect() counts as a publish of now, but not as publishedSinceBoot. *)
Connected(n) == [n EXCEPT !.connected = TRUE, !.age = 0]

(* forceReconnect(), also while an upload runs. *)
Forced(n) == IF Reachable THEN Connected(n) ELSE [n EXCEPT !.connected = FALSE]

(* MQTTService::update(), frozen by an upload. *)
Updated(n) ==
  IF otaRuns THEN n
  ELSE IF ~Reachable THEN [n EXCEPT !.connected = FALSE]
  ELSE IF n.connected THEN n ELSE Connected(n)

SoftlyRecovered(n) ==
  IF n.up > GraceTicks /\ n.age > SoftTicks /\ n.soft > SoftTicks
  THEN [Forced(n) EXCEPT !.soft = 0] ELSE n

(* The dead man's switch is asked for anything at all. *)
SwitchActs(n) ==
  ~n.degraded /\ ~otaRuns /\ ~inhibit /\ n.up > GraceTicks /\ Stale(n)

(* It restarts when its reconnect has not helped for a minute. *)
SwitchRestarts(n) ==
  SwitchActs(n) /\ n.trying = RetryTicks + 1 /\ n.restarts < MaxRestarts

Switched(n) ==
  IF SwitchActs(n)
  THEN IF n.trying = NotTrying THEN [Forced(n) EXCEPT !.trying = 0]
       ELSE IF n.trying <= RetryTicks THEN n
       ELSE [n EXCEPT !.degraded = TRUE]
  ELSE IF n.trying # NotTrying /\ ~Stale(n) THEN [n EXCEPT !.trying = NotTrying] ELSE n

(* dmsShouldResetCounter() before v5.4.1: a connection was enough. *)
ResetsOnConnectWrong(n) == n.restarts > 0 /\ ~Stale(n)

ShouldResetCounter(n) == n.restarts > 0 /\ n.published /\ ~Stale(n)

CounterReset(n) ==
  IF ShouldResetCounter(n) THEN [n EXCEPT !.restarts = 0, !.degraded = FALSE] ELSE n

Publishes(n) == n.connected /\ linkUp /\ broker = "ok" /\ ~otaRuns

(* What is published every 30 s. *)
Published(n) ==
  IF Publishes(n) THEN [n EXCEPT !.age = 0, !.published = TRUE] ELSE n

BeforeSwitch == SoftlyRecovered(Updated(node))

(* After TIMEOUT_OTA_VALIDATION_MS, whatever else works. *)
StillUnconfirmed == unconfirmed /\ node.up = 0

LoopPass ==
  /\ "loop" \in due
  /\ ~SwitchRestarts(BeforeSwitch)
  /\ LET n == CounterReset(Switched(BeforeSwitch)) IN
       /\ node' = Published(n)
       /\ stored' = IF ShouldResetCounter(Switched(BeforeSwitch)) THEN 0 ELSE stored
       /\ row' = IF Publishes(n) THEN 0 ELSE row
  /\ unconfirmed' = StillUnconfirmed
  /\ due' = due \ {"loop"}
  /\ UNCHANGED <<watch, outside, downFor, hidden>>

LoopRestart ==
  /\ "loop" \in due
  /\ SwitchRestarts(BeforeSwitch)
  /\ stored' = node.restarts + 1
  /\ row' = row + 1 /\ hidden' = 0
  /\ RestartWith(node.restarts + 1, FALSE)
  /\ due' = Actors
  /\ UNCHANGED <<linkUp, broker, inhibit, downFor>>

-----------------------------------------------------------------------------
(* connectivityTask(), once a minute; it pauses during an upload.          *)

(* Wrong: the count of outages is never read anew. *)
KeepsMarkWrong ==
  IF watch.since = NotWatching \/ ~watch.sameOutage THEN Watching(0, watch.sameOutage)
  ELSE [watch EXCEPT !.since = LeastOf(@ + 1, EthTicks)]

(* Another outage has begun since the last look: count from here. *)
NextWatch ==
  IF watch.since = NotWatching \/ ~watch.sameOutage THEN Watching(0, TRUE)
  ELSE [watch EXCEPT !.since = LeastOf(@ + 1, EthTicks)]

LinkExpired == ~linkUp /\ NextWatch.since = EthTicks

WatchdogPass ==
  /\ "watchdog" \in due
  /\ otaRuns \/ inhibit \/ ~LinkExpired
  /\ watch' = IF otaRuns THEN watch ELSE IF linkUp THEN Unwatched ELSE NextWatch
  /\ due' = due \ {"watchdog"}
  /\ UNCHANGED <<node, persistent, outside, row, downFor, hidden>>

WatchdogRestart ==
  /\ "watchdog" \in due
  /\ ~otaRuns /\ ~inhibit /\ LinkExpired
  /\ RestartWith(stored, FALSE)
  /\ hidden' = 0
  /\ due' = Actors
  /\ UNCHANGED <<stored, linkUp, broker, inhibit, row, downFor>>

-----------------------------------------------------------------------------
(* oomNewHandler(): an allocation failed.  The marker is set in any case;  *)
(* a node that comes from the same death within a minute shows a panic.    *)

OomRestarts == ~inhibit /\ ~(node.lastOom /\ node.up < OomTicks)

OutOfMemory ==
  /\ RestartWith(stored, TRUE)
  /\ hidden' = IF OomRestarts THEN (IF node.up < OomTicks THEN LeastOf(hidden + 1, 2) ELSE 1) ELSE 0
  /\ due' = Actors
  /\ UNCHANGED <<stored, linkUp, broker, inhibit, row, downFor>>

(* A panic, a watchdog of the chip or a power cut. *)
Crash ==
  /\ RestartWith(stored, FALSE)
  /\ hidden' = 0
  /\ due' = Actors
  /\ UNCHANGED <<stored, linkUp, broker, inhibit, row, downFor>>

-----------------------------------------------------------------------------
(* The world.                                                              *)

PassTick ==
  /\ due = {}
  /\ due' = Actors
  /\ node' = [node EXCEPT !.up = LeastOf(@ + 1, MaxUp), !.age = LeastOf(@ + 1, MaxAge),
                          !.soft = LeastOf(@ + 1, SoftTicks + 1),
                          !.trying = IF @ = NotTrying THEN @ ELSE LeastOf(@ + 1, RetryTicks + 1)]
  /\ downFor' = IF linkUp THEN 0 ELSE LeastOf(downFor + 1, EthTicks)
  /\ UNCHANGED <<watch, persistent, outside, row, hidden>>

(* onEthEvent(): a falling edge begins an outage, a rising one ends it. *)
LinkFails ==
  /\ linkUp
  /\ linkUp' = FALSE
  /\ watch' = [watch EXCEPT !.sameOutage = FALSE]
  /\ downFor' = 0
  /\ UNCHANGED <<node, due, persistent, broker, inhibit, otaRuns, row, hidden>>

LinkReturns ==
  /\ ~linkUp
  /\ linkUp' = TRUE
  /\ downFor' = 0
  /\ UNCHANGED <<node, watch, due, persistent, broker, inhibit, otaRuns, row, hidden>>

BrokerTurns ==
  /\ broker' \in {"ok", "gone", "deaf"} \ {broker}
  /\ due = Actors
  /\ UNCHANGED <<node, watch, due, persistent, linkUp, inhibit, otaRuns,
                 row, downFor, hidden>>

(* An upload begins or ends. *)
OtaTurns ==
  /\ due = Actors
  /\ otaRuns' = ~otaRuns
  /\ UNCHANGED <<node, watch, due, persistent, linkUp, broker, inhibit,
                 row, downFor, hidden>>

(* POST /api/reboot_inhibit sets the flag and stores it: setup() reads back *)
(* what it was.                                                            *)
InhibitTurns ==
  /\ inhibit' = ~inhibit
  /\ UNCHANGED <<node, watch, due, persistent, linkUp, broker, otaRuns,
                 row, downFor, hidden>>

Ticking == LoopPass \/ LoopRestart \/ WatchdogPass \/ WatchdogRestart \/ PassTick
Accidents == OutOfMemory \/ Crash
Turns == LinkFails \/ LinkReturns \/ BrokerTurns \/ OtaTurns \/ InhibitTurns
SupervisionNext == Ticking \/ Accidents \/ Turns

SupervisionSpec ==
  SupervisionInit /\ [][SupervisionNext]_supervisionVars /\ WF_supervisionVars(Ticking)

-----------------------------------------------------------------------------
(* What every variable holds. *)
SupervisionTypeOK ==
  /\ node.up \in 0..MaxUp /\ node.age \in 0..MaxAge /\ node.soft \in 0..(SoftTicks + 1)
  /\ node.trying \in 0..NotTrying /\ node.restarts \in 0..MaxRestarts
  /\ {node.connected, node.published, node.degraded, node.lastOom} \subseteq BOOLEAN
  /\ watch.since \in 0..NotWatching /\ watch.sameOutage \in BOOLEAN
  /\ due \subseteq Actors
  /\ stored \in 0..MaxRestarts
  /\ broker \in {"ok", "gone", "deaf"}
  /\ {unconfirmed, linkUp, inhibit, otaRuns} \subseteq BOOLEAN

(* However the broker comes and goes, and whatever crashes in between, the *)
(* switch restarts the node no more than DMS_MAX_RESTARTS times without a  *)
(* single publish (dmsShouldResetCounter(), the restart loop of v5.4.1).   *)
RestartsAreBounded == row <= MaxRestarts

(* The watchdog restarts for a link that was down all the time it counted, *)
(* never for one that flaps: the count starts again with each outage       *)
(* (connectivityTask()).                                                   *)
RestartsForADeadLink == [][WatchdogRestart => downFor = EthTicks]_supervisionVars

(* ... and a link that stays down ends in a restart or comes back, unless  *)
(* an upload begins or restarts are inhibited meanwhile: the count starts  *)
(* again, but not for ever.                                                *)
DeadLinksReboot ==
  /\ RestartsForADeadLink
  /\ ~linkUp ~> (linkUp \/ otaRuns \/ inhibit \/ node.up = 0)

(* Two deaths for want of memory within a minute of their boots never both *)
(* look like clean restarts (oomShouldRestart() and the RTC marker).       *)
OomLoopSurfaces == hidden <= 1
=============================================================================
