------------------------------- MODULE Radar -------------------------------
(* The LD2412 sensor, the serial driver (lib/LD2412_Extended), the service *)
(* that feeds the alarm from it (LD2412Service) and the two that depend on *)
(* it: the health check of SecurityMonitor and the ESPOTA handlers that    *)
(* suspend the radar task and drop the driver.                             *)
(*                                                                         *)
(* A silent step of update() stands for one recovery interval (5 s) without *)
(* data, `fresh` says that a frame came in the last three seconds, and a   *)
(* command is one step: the service holds its mutex from the first byte to *)
(* the last.  What a lost byte does to a command is one of `Exchange`.     *)
(*                                                                         *)
(* begin() finds the memory for its driver: where that fails, it returns   *)
(* without one, update() returns at once for ever, and only a restart      *)
(* helps.  That is left out.                                               *)
EXTENDS Naturals, Sequences, FiniteSets

CONSTANTS
  MaxBlips,     \* bound on power failures of the sensor
  MaxNoise,     \* bound on disturbed commands and frames
  DownLimit,    \* TIMEOUT_RADAR_DISCONNECT_MS in seconds' ticks
  LostFrames    \* basic frames in engineering mode before it counts as lost

VARIABLES
  sensor,   \* the module itself: power, config and engineering mode, speed, target
  uart,     \* the driver object: exists, speed, engineering flag, lost mode
  radar,    \* the service: recovery counters and what it believes
  reading,  \* the data the alarm reads: the last target, and is it fresh
  task,     \* the radar task: none, running, suspended, or suspended in update()
  monitor,  \* SecurityMonitor's view: ever seen, connected, down for, latched
  mishaps   \* power failures and disturbances so far

radarVars == <<sensor, uart, radar, reading, task, monitor, mishaps>>

Speeds == {"fast", "slow"}
MAX_ENG_RECOVERY == 3

(* ------------------------------------------------- commands and frames  *)
NoDriver == [object |-> FALSE, speed |-> "slow", eng |-> FALSE, lost |-> 0]
Driver(speed) == [object |-> TRUE, speed |-> speed, eng |-> FALSE, lost |-> 0]

Reaches(s, l) == s.power /\ s.speed = l.speed

(* What a command with effect s -> changed leaves: the sensor and whether  *)
(* the driver saw the acknowledgement.  enableConfig is tried twice; after  *)
(* it fails nobody leaves config mode, and the result of disableConfig is   *)
(* not looked at.                                                          *)
Exchange(s, l, changed, noisy) ==
  IF ~Reaches(s, l) THEN {[sensor |-> s, ok |-> FALSE]}
  ELSE {[sensor |-> changed, ok |-> TRUE]} \union
       IF ~noisy THEN {}
       ELSE { [sensor |-> s, ok |-> FALSE],                         \* requests lost
              [sensor |-> [s EXCEPT !.config = TRUE], ok |-> FALSE], \* enable's answers lost
              [sensor |-> changed, ok |-> FALSE],                   \* the answer lost
              [sensor |-> [changed EXCEPT !.config = TRUE], ok |-> FALSE], \* and disable
              [sensor |-> [changed EXCEPT !.config = TRUE], ok |-> TRUE] } \* disable lost

Plain(s)  == [s EXCEPT !.config = FALSE]
Rebooted(s) == [s EXCEPT !.config = FALSE, !.eng = FALSE]

(* A radar on firmware 1.26 acknowledges speed and mode and changes neither. *)
InMode(s, enable) == IF s.old THEN Plain(s) ELSE [Plain(s) EXCEPT !.eng = enable]
AtSpeed(s, speed) == IF s.old THEN Plain(s) ELSE [Plain(s) EXCEPT !.speed = speed]

(* Engineering frames are longer than the driver's buffer unless it        *)
(* expects them; basic frames always fit.                                  *)
Hears(s, l) ==
  l.object /\ Reaches(s, l) /\ ~s.config /\ (s.eng => l.eng)

readFirmwareVersion(s, l, noisy) == Exchange(s, l, Plain(s), noisy)
restartModule(s, l, noisy)       == Exchange(s, l, Rebooted(s), noisy)
setParamConfig(s, l, noisy)      == Exchange(s, l, Plain(s), noisy)
setLightFunction(s, l, noisy)    == Exchange(s, l, Plain(s), noisy)
getParamConfig(s, l, noisy)      == Exchange(s, l, Plain(s), noisy)
setBaudRate(s, l, noisy)         == Exchange(s, l, AtSpeed(s, "fast"), noisy)

(* The tries of one request count as one: each ends in one of the outcomes *)
(* of the last.                                                            *)
setEngineeringMode(s, l, enable, noisy) ==
  { [sensor |-> x.sensor, ok |-> x.ok,
     link |-> IF x.ok THEN [l EXCEPT !.eng = enable] ELSE l]
    : x \in Exchange(s, l, InMode(s, enable), noisy) }

(* ----------------------------------------------------------- begin()    *)
(* Tries the fast speed, then the slow one, lifts a slow sensor to the      *)
(* fast speed and falls back when it does not answer there.  The result     *)
(* says what the service knows and where sensor and driver ended up.        *)
Started(s, l, answered, speed) ==
  [sensor |-> s, link |-> l, answered |-> answered, current |-> speed]

Lifted(s, noisy) ==
  UNION { IF ~x.ok THEN {Started(x.sensor, Driver("slow"), TRUE, "slow")}
          ELSE { IF y.ok THEN Started(y.sensor, Driver("fast"), TRUE, "fast")
                 ELSE Started(y.sensor, Driver("slow"), TRUE, "slow")
                 : y \in readFirmwareVersion(x.sensor, Driver("fast"), noisy) }
          : x \in setBaudRate(s, Driver("slow"), noisy) }

AgreeOnSpeed(s, noisy) ==
  UNION { IF x.ok THEN {Started(x.sensor, Driver("fast"), TRUE, "fast")}
          ELSE UNION { IF ~y.ok THEN {Started(y.sensor, Driver("slow"), FALSE, "slow")}
                       ELSE IF s.old THEN {Started(y.sensor, Driver("slow"), TRUE, "slow")}
                       ELSE Lifted(y.sensor, noisy)
                       : y \in readFirmwareVersion(x.sensor, Driver("slow"), noisy) }
          : x \in readFirmwareVersion(s, Driver("fast"), noisy) }

(* The gates are written, then engineering mode is asked for.              *)
begin(s, noisy) ==
  UNION { IF ~c.answered THEN {[start |-> c, eng |-> FALSE]}
          ELSE UNION { IF s.old THEN {[start |-> [c EXCEPT !.sensor = g.sensor], eng |-> FALSE]}
                       ELSE { [start |-> [c EXCEPT !.sensor = e.sensor, !.link = e.link],
                               eng |-> e.ok]
                              : e \in setEngineeringMode(g.sensor, c.link, TRUE, noisy) }
                       : g \in setParamConfig(c.sensor, c.link, noisy) }
          : c \in AgreeOnSpeed(s, noisy) }

(* ------------------------------------------------- attemptRadarRecovery  *)
OtherSpeed(speed) == IF speed = "fast" THEN "slow" ELSE "fast"

ReopenedSameSpeedWrong(s, current, noisy) ==
  { Started(x.sensor, Driver(current), x.ok, current)
    : x \in readFirmwareVersion(s, Driver(current), noisy) }

(* A new driver at the configured speed, one at the other if the first      *)
(* gets no answer; the configured speed follows the one that answers.       *)
Reopened(s, current, noisy) ==
  UNION { IF x.ok THEN {Started(x.sensor, Driver(current), TRUE, current)}
          ELSE { Started(y.sensor, Driver(OtherSpeed(current)), y.ok,
                         IF y.ok THEN OtherSpeed(current) ELSE current)
                 : y \in readFirmwareVersion(x.sensor, Driver(OtherSpeed(current)), noisy) }
          : x \in readFirmwareVersion(s, Driver(current), noisy) }

(* Only a radar that never answered since boot is given up.                *)
AfterHardReset(r, answered, eng) ==
  LET ever   == r.everGot \/ answered
      cycles == IF ever THEN r.cycles ELSE r.cycles + 1
  IN  [r EXCEPT !.attempts = 1, !.everGot = ever, !.eng = eng, !.cycles = cycles,
                !.exhausted = (~ever /\ cycles >= 2)]

hardReset(noisy) ==
  \E o \in Reopened(sensor, radar.current, noisy) :
    IF radar.eng /\ ~sensor.old
    THEN \E e \in setEngineeringMode(o.sensor, o.link, TRUE, noisy) :
           /\ sensor' = e.sensor
           /\ uart' = e.link
           /\ radar' = [AfterHardReset(radar, o.answered, e.ok) EXCEPT !.current = o.current]
    ELSE /\ sensor' = o.sensor
         /\ uart' = o.link
         /\ radar' = [AfterHardReset(radar, o.answered, radar.eng) EXCEPT !.current = o.current]

attemptRadarRecovery(noisy) ==
  CASE radar.exhausted -> UNCHANGED <<sensor, uart, radar>>
    [] ~radar.exhausted /\ radar.attempts < 2 ->
         /\ radar' = [radar EXCEPT !.attempts = @ + 1]
         /\ UNCHANGED <<sensor, uart>>
    [] ~radar.exhausted /\ radar.attempts \in 2..3 ->
         /\ \E x \in restartModule(sensor, uart, noisy) : sensor' = x.sensor
         /\ radar' = [radar EXCEPT !.attempts = @ + 1]
         /\ UNCHANGED uart
    [] OTHER -> hardReset(noisy)

(* -------------------------------------------------------------- update() *)
RadarInit ==
  /\ sensor \in [power : BOOLEAN, config : {FALSE}, eng : BOOLEAN, speed : Speeds,
                 old : BOOLEAN, target : BOOLEAN]
  /\ sensor.old => ~sensor.eng
  /\ uart = NoDriver
  /\ radar = [everGot |-> FALSE, attempts |-> 0, cycles |-> 0, exhausted |-> FALSE,
              eng |-> FALSE, engTries |-> 0, current |-> "slow"]
  /\ reading = [target |-> FALSE, fresh |-> FALSE]
  /\ task = "off"
  /\ monitor = [ever |-> FALSE, connected |-> TRUE, down |-> 0, latched |-> FALSE]
  /\ mishaps = [blips |-> 0, noise |-> 0]

Disturbance(noisy) ==
  /\ noisy => mishaps.noise < MaxNoise
  /\ mishaps' = IF noisy THEN [mishaps EXCEPT !.noise = @ + 1] ELSE mishaps

(* Frames of the other length count towards a lost engineering mode.       *)
Counted(s, l) ==
  IF ~l.eng THEN l
  ELSE IF s.eng THEN [l EXCEPT !.lost = 0]
  ELSE [l EXCEPT !.lost = IF @ < LostFrames THEN @ + 1 ELSE @]

(* Engineering mode is asked for again, three times in the life of the     *)
(* node; the last time it is given up whatever the answer.                 *)
EngRecovery(s, l, r, noisy) ==
  LET GivenUp(link1, radar1) ==
        IF radar1.engTries >= MAX_ENG_RECOVERY
        THEN [link |-> [link1 EXCEPT !.lost = 0], radar |-> [radar1 EXCEPT !.eng = FALSE]]
        ELSE [link |-> link1, radar |-> radar1]
  IN  IF s.old
      THEN {[sensor |-> s, link |-> [l EXCEPT !.lost = 0], radar |-> [r EXCEPT !.eng = FALSE]]}
      ELSE { LET kept == GivenUp(e.link, [r EXCEPT !.engTries = @ + 1])
             IN  [sensor |-> e.sensor, link |-> kept.link, radar |-> kept.radar]
             : e \in setEngineeringMode(s, l, TRUE, noisy) }

TaskRuns == task = "running" /\ uart.object

UpdateFrame ==
  /\ TaskRuns /\ Hears(sensor, uart)
  /\ reading' = [target |-> sensor.target, fresh |-> TRUE]
  /\ LET heard == Counted(sensor, uart)
         alive == [radar EXCEPT !.everGot = TRUE, !.attempts = 0, !.cycles = 0]
     IN  \/ /\ uart' = heard /\ radar' = alive     \* no loss, or tried less than 10 s ago
            /\ UNCHANGED <<sensor, mishaps>>
         \/ /\ radar.eng /\ heard.lost = LostFrames
            /\ radar.engTries < MAX_ENG_RECOVERY \/ sensor.old
            /\ \E noisy \in BOOLEAN :
                 /\ Disturbance(noisy)
                 /\ \E e \in EngRecovery(sensor, heard, alive, noisy) :
                      sensor' = e.sensor /\ uart' = e.link /\ radar' = e.radar
  /\ UNCHANGED <<task, monitor>>

UpdateSilent ==
  /\ TaskRuns /\ ~reading.fresh /\ ~Hears(sensor, uart)
  /\ \E noisy \in BOOLEAN : Disturbance(noisy) /\ attemptRadarRecovery(noisy)
  /\ UNCHANGED <<reading, task, monitor>>

(* Three seconds pass without a frame.                                     *)
Age ==
  /\ reading.fresh
  /\ task # "running" \/ ~Hears(sensor, uart)
  /\ reading' = [reading EXCEPT !.fresh = FALSE]
  /\ UNCHANGED <<sensor, uart, radar, task, monitor, mishaps>>

(* What the alarm is given: nothing while the mutex cannot be had, the last *)
(* frame otherwise, whatever its age.                                      *)
getData ==
  IF task = "stuck" THEN [valid |-> FALSE, target |-> FALSE]
  ELSE [valid |-> TRUE, target |-> reading.target]

(* ------------------------------------------------ clients of the service *)
(* The mutex is free unless the task was suspended inside update().        *)
Free == task # "stuck" /\ uart.object

(* setup(): the task is created only if the radar answered.                *)
RadarBoot ==
  /\ task = "off"
  /\ \E noisy \in BOOLEAN :
       /\ Disturbance(noisy)
       /\ \E b \in begin(sensor, noisy) :
            /\ sensor' = b.start.sensor /\ uart' = b.start.link
            /\ radar' = [radar EXCEPT !.everGot = b.start.answered, !.eng = b.eng,
                                      !.current = b.start.current]
            /\ task' = IF b.start.answered THEN "running" ELSE "none"
  /\ UNCHANGED <<reading, monitor>>

(* Every setting, query and calibration of the web and MQTT interfaces:    *)
(* gates, sensitivities and learning; light, resolution and tracking; reads. *)
Configure ==
  /\ Free /\ task # "off"
  /\ \E noisy \in BOOLEAN :
       /\ Disturbance(noisy)
       /\ \E x \in setParamConfig(sensor, uart, noisy)
                \union setLightFunction(sensor, uart, noisy) : sensor' = x.sensor
  /\ UNCHANGED <<uart, radar, reading, task, monitor>>

Query ==
  /\ Free /\ task # "off"
  /\ \E noisy \in BOOLEAN :
       /\ Disturbance(noisy)
       /\ \E x \in getParamConfig(sensor, uart, noisy) : sensor' = x.sensor
  /\ UNCHANGED <<uart, radar, reading, task, monitor>>

(* A restart, a change of resolution or of Bluetooth.                      *)
RestartRadar ==
  /\ Free /\ task # "off"
  /\ \E noisy \in BOOLEAN :
       /\ Disturbance(noisy)
       /\ \E x \in restartModule(sensor, uart, noisy) : sensor' = x.sensor
  /\ UNCHANGED <<uart, radar, reading, task, monitor>>

SetEngineering ==
  /\ Free /\ task # "off"
  /\ \E enable \in BOOLEAN, noisy \in BOOLEAN :
       /\ Disturbance(noisy)
       /\ \E e \in setEngineeringMode(sensor, uart, enable, noisy) :
            /\ sensor' = e.sensor /\ uart' = e.link
            /\ radar' = IF e.ok THEN [radar EXCEPT !.eng = enable] ELSE radar
  /\ UNCHANGED <<reading, task, monitor>>

(* The maintenance window and the upload suspend the task where it is; the *)
(* upload also drops the driver, if it gets the mutex.                     *)
Suspend ==
  /\ task = "running"
  /\ task' \in {"suspended", "stuck"}
  /\ UNCHANGED <<sensor, uart, radar, reading, monitor, mishaps>>

Stop ==
  /\ task \in {"suspended", "stuck"} /\ uart.object
  /\ uart' = IF task = "stuck" THEN uart ELSE NoDriver
  /\ UNCHANGED <<sensor, radar, reading, task, monitor, mishaps>>

(* The window closes and the driver is as it was.                          *)
ResumeTask ==
  /\ task \in {"suspended", "stuck"} /\ uart.object
  /\ task' = "running"
  /\ UNCHANGED <<sensor, uart, radar, reading, monitor, mishaps>>

(* A failed upload begins the radar anew, then resumes the task, or        *)
(* creates it for a radar that only now answers; a begin that gets no      *)
(* answer leaves a driver that update() goes on trying.                    *)
RestoreRadar ==
  /\ task \in {"none", "suspended", "stuck"}
  /\ \E noisy \in BOOLEAN :
       /\ Disturbance(noisy)
       /\ \E b \in begin(sensor, noisy) :
            /\ sensor' = b.start.sensor /\ uart' = b.start.link
            /\ radar' = IF ~b.start.answered THEN radar
                        ELSE [radar EXCEPT !.everGot = TRUE,
                                           !.eng = ~sensor.old /\ (b.eng \/ @),
                                           !.engTries = IF b.eng THEN 0 ELSE @,
                                           !.current = IF b.start.current = "fast" THEN "fast" ELSE @]
            /\ task' = IF task = "none" /\ ~b.start.answered THEN "none" ELSE "running"
  /\ UNCHANGED <<reading, monitor>>

(* ------------------------------------------------------------- watching  *)
(* Once a second.  A mutex that is busy reads as disconnected, which it is *)
(* for a command's length at most: one tick.                               *)
Connected == Free /\ reading.fresh

checkRadarHealth ==
  /\ task # "off" /\ ~monitor.latched
  /\ \E isConnected \in {Connected} \union (IF monitor.connected THEN {FALSE} ELSE {}) :
       monitor' =
         IF isConnected
         THEN [monitor EXCEPT !.ever = TRUE, !.connected = TRUE, !.down = 0]
         ELSE LET down == IF monitor.connected THEN 0 ELSE monitor.down + 1
              IN  [monitor EXCEPT !.connected = FALSE, !.down = down,
                                  !.latched = down > DownLimit]
  /\ UNCHANGED <<sensor, uart, radar, reading, task, mishaps>>

(* --------------------------------------------------------- the sensor    *)
PowerFails ==
  /\ sensor.power /\ task # "off" /\ mishaps.blips < MaxBlips
  /\ sensor' = [Rebooted(sensor) EXCEPT !.power = FALSE]
  /\ mishaps' = [mishaps EXCEPT !.blips = @ + 1]
  /\ UNCHANGED <<uart, radar, reading, task, monitor>>

PowerReturns ==
  /\ ~sensor.power
  /\ sensor' = [sensor EXCEPT !.power = TRUE]
  /\ UNCHANGED <<uart, radar, reading, task, monitor, mishaps>>

TargetMoves ==
  /\ sensor' = [sensor EXCEPT !.target = ~@]
  /\ UNCHANGED <<uart, radar, reading, task, monitor, mishaps>>

RadarNext ==
  \/ UpdateFrame \/ UpdateSilent \/ Age
  \/ RadarBoot \/ Configure \/ Query \/ RestartRadar \/ SetEngineering
  \/ Suspend \/ Stop \/ ResumeTask \/ RestoreRadar
  \/ checkRadarHealth
  \/ PowerFails \/ PowerReturns \/ TargetMoves

(* The radar task loops and time passes; the windows that suspend it end.  *)
RadarSpec ==
  /\ RadarInit /\ [][RadarNext]_radarVars
  /\ WF_radarVars(UpdateFrame) /\ WF_radarVars(UpdateSilent) /\ WF_radarVars(Age)

(* ----------------------------------------------------------- properties  *)
RadarTypeOK ==
  /\ sensor \in [power : BOOLEAN, config : BOOLEAN, eng : BOOLEAN, speed : Speeds,
                 old : BOOLEAN, target : BOOLEAN]
  /\ uart \in [object : BOOLEAN, speed : Speeds, eng : BOOLEAN, lost : 0..LostFrames]
  /\ radar \in [everGot : BOOLEAN, attempts : 0..5, cycles : 0..2, exhausted : BOOLEAN,
                eng : BOOLEAN, engTries : 0..MAX_ENG_RECOVERY, current : Speeds]
  /\ reading \in [target : BOOLEAN, fresh : BOOLEAN]
  /\ task \in {"off", "none", "running", "suspended", "stuck"}
  /\ monitor \in [ever : BOOLEAN, connected : BOOLEAN, down : 0..(DownLimit + 1),
                  latched : BOOLEAN]
  /\ mishaps \in [blips : 0..MaxBlips, noise : 0..MaxNoise]

(* A radar that stays powered is heard again: whatever a lost answer, a    *)
(* power failure, a stuck config mode, a forgotten engineering mode or a   *)
(* speed the two sides disagree on left behind, recovery ends with frames  *)
(* (LD2412Service.cpp:171-283: "keeps retrying forever").                  *)
RadarRecovers ==
  <>[](sensor.power /\ task = "running") => []<>reading.fresh

(* The alert says "Radar sensor connection lost - CSI-only until restart"  *)
(* (SecurityMonitor.cpp:440): from then on the alarm reads no radar target. *)
CsiOnlyAfterLoss ==
  (monitor.latched /\ monitor.ever) => ~getData.target
=============================================================================
