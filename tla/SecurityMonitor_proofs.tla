----------------------- MODULE SecurityMonitor_proofs -----------------------
(***************************************************************************)
(* Proofs about SecurityMonitor for every length of the queue, every clock *)
(* and every set of settings that AlarmFSMClass.tla allows, and about what *)
(* the broker is told of its states (MqttState), for any number of faults. *)
(***************************************************************************)
EXTENDS SecurityMonitor, MqttState, AlarmFSMClass_proofs

(* QueueTellsTheStory, of any queue and last event. *)
Story(queue, last) ==
  /\ \A i \in 1..(Len(queue) - 1) :
       /\ queue[i + 1] = "entry_delay_expired" => queue[i] = "entry_delay"
       /\ queue[i] = "entry_delay" =>
            queue[i + 1] \in {"entry_delay_expired", "disarmed"}
  /\ queue # <<>> => queue[Len(queue)] = last

(* What every handler leaves true of the object, whichever comes first:    *)
(* its type, SirenFollowsAlarm, LastEventExplains, QueueTellsTheStory.     *)
Sound(m) ==
  /\ m \in MonitorType
  /\ Len(m.queue) <= QueueSize
  /\ m.siren <=> m.fsm.state = "TRIGGERED"
  /\ m.last = "entry_delay" <=> m.fsm.state = "PENDING"
  /\ m.fsm.state = "TRIGGERED" => m.last \in {"immediate", "entry_delay_expired"}
  /\ ~m.dropped => Story(m.queue, m.last)

(* How guard and NVS stand to each other before loop() runs. *)
Booting ==
  /\ phase # "loop" => mon.fsm.state \in {"DISARMED", "ARMING", "ARMED"}
  /\ phase = "server" /\ ~unsaved => mon.fsm.state = "DISARMED"
  /\ phase = "begun" /\ ~unsaved /\ mon.fsm.state # "DISARMED" =>
       prefs.armed /\ prefs.home = mon.home

(* The inductive invariant. *)
Inv == TypeOK /\ Sound(mon) /\ Booting /\ RestartKeepsGuard

-----------------------------------------------------------------------------
(* The queue.                                                              *)

(* A story continues with any event that the last one allows. *)
LEMMA StoryContinues ==
  ASSUME NEW queue \in Seq(Reasons), NEW last, NEW reason \in Reasons,
         Story(queue, last),
         reason = "entry_delay_expired" => last = "entry_delay",
         last = "entry_delay" => reason \in {"entry_delay_expired", "disarmed"}
  PROVE  Story(Append(queue, reason), reason)
<1> DEFINE longer == Append(queue, reason)
<1>1. /\ Len(queue) \in Nat /\ Len(longer) = Len(queue) + 1
      /\ longer[Len(longer)] = reason
      /\ \A i \in 1..Len(queue) : longer[i] = queue[i]
  OBVIOUS
<1>2. ASSUME NEW i \in 1..(Len(longer) - 1)
      PROVE  /\ longer[i + 1] = "entry_delay_expired" => longer[i] = "entry_delay"
             /\ longer[i] = "entry_delay" =>
                  longer[i + 1] \in {"entry_delay_expired", "disarmed"}
  <2>1. CASE i = Len(queue)
    <3>1. queue # <<>> /\ queue[i] = last
      BY <1>1, <2>1 DEF Story
    <3>2. longer[i] = last /\ longer[i + 1] = reason
      BY <1>1, <2>1, <3>1
    <3>3. QED
      BY <3>2
  <2>2. CASE i # Len(queue)
    <3>1. i \in 1..(Len(queue) - 1)
      BY <1>1, <2>2
    <3>2. longer[i] = queue[i] /\ longer[i + 1] = queue[i + 1]
      BY <1>1, <3>1
    <3>3. QED
      BY <3>1, <3>2 DEF Story
  <2>3. QED
    BY <2>1, <2>2
<1>3. QED
  BY <1>1, <1>2 DEF Story

(* ... and stays one when its beginning is consumed. *)
LEMMA StoryShortens ==
  ASSUME NEW queue \in Seq(Reasons), queue # <<>>, NEW last, Story(queue, last)
  PROVE  Story(Tail(queue), last)
<1> DEFINE rest == Tail(queue)
<1>1. /\ Len(queue) \in Nat /\ Len(queue) > 0 /\ Len(rest) = Len(queue) - 1
      /\ \A i \in 1..Len(rest) : rest[i] = queue[i + 1]
      /\ rest # <<>> => Len(rest) > 0
  OBVIOUS
<1>2. ASSUME NEW i \in 1..(Len(rest) - 1)
      PROVE  /\ rest[i + 1] = "entry_delay_expired" => rest[i] = "entry_delay"
             /\ rest[i] = "entry_delay" =>
                  rest[i + 1] \in {"entry_delay_expired", "disarmed"}
  <2>1. i + 1 \in 1..(Len(queue) - 1) /\ i \in 1..Len(rest) /\ i + 1 \in 1..Len(rest)
    BY <1>1
  <2>2. rest[i] = queue[i + 1] /\ rest[i + 1] = queue[(i + 1) + 1]
    BY <1>1, <2>1
  <2>3. QED
    BY <2>1, <2>2 DEF Story
<1>3. rest # <<>> => rest[Len(rest)] = last
  <2> HAVE rest # <<>>
  <2>1. Len(rest) \in 1..Len(rest) /\ rest[Len(rest)] = queue[Len(rest) + 1]
    BY <1>1
  <2>2. QED
    BY <1>1, <2>1 DEF Story
<1>4. QED
  BY <1>2, <1>3 DEF Story

(* enqueueAlarmEvent() touches nothing but queue and last event. *)
LEMMA EnqueueEffect ==
  ASSUME NEW m \in MonitorType, Len(m.queue) <= QueueSize, NEW reason \in Reasons,
         NEW n, n = EnqueueAlarmEvent(m, reason)
  PROVE  /\ n \in MonitorType /\ Len(n.queue) <= QueueSize
         /\ n.fsm = m.fsm /\ n.siren = m.siren /\ n.home = m.home
         /\ n.last = reason
         /\ ~n.dropped => ~m.dropped /\ n.queue = Append(m.queue, reason)
<1>1. m.queue \in Seq(Reasons) /\ m.dropped \in BOOLEAN
  BY DEF MonitorType
<1>2. CASE Full(m)
  <2>1. n = [m EXCEPT !.last = reason, !.dropped = TRUE]
    BY <1>2 DEF EnqueueAlarmEvent, MonitorType
  <2>2. QED
    BY <2>1 DEF MonitorType
<1>3. CASE ~Full(m)
  <2>1. n = [m EXCEPT !.queue = Append(@, reason), !.last = reason]
    BY <1>1, <1>3 DEF EnqueueAlarmEvent, MonitorType
  <2>2. /\ Append(m.queue, reason) \in Seq(Reasons)
        /\ Len(Append(m.queue, reason)) <= QueueSize
    BY <1>1, <1>3, QueueAssumption DEF Full
  <2>3. QED
    BY <2>1, <2>2 DEF MonitorType
<1>4. QED
  BY <1>2, <1>3

-----------------------------------------------------------------------------
(* The handlers, on the object.                                            *)

(* A step of the state machine that comes with an event and the right      *)
(* position of the siren leaves a sound object.                            *)
LEMMA EventSound ==
  ASSUME NEW m, Sound(m), NEW n \in MonitorType, NEW reason \in Reasons,
         Len(n.queue) <= QueueSize, n.last = reason,
         ~n.dropped => ~m.dropped /\ n.queue = Append(m.queue, reason),
         n.siren <=> n.fsm.state = "TRIGGERED",
         reason = "entry_delay" <=> n.fsm.state = "PENDING",
         n.fsm.state = "TRIGGERED" => reason \in {"immediate", "entry_delay_expired"},
         reason = "entry_delay_expired" => m.fsm.state = "PENDING",
         m.fsm.state = "PENDING" => reason \in {"entry_delay_expired", "disarmed"}
  PROVE  Sound(n)
<1>1. ASSUME ~n.dropped PROVE Story(n.queue, n.last)
  <2>1. ~m.dropped /\ n.queue = Append(m.queue, reason) /\ Story(m.queue, m.last)
    BY <1>1 DEF Sound
  <2>2. m.queue \in Seq(Reasons) /\ (m.last = "entry_delay" <=> m.fsm.state = "PENDING")
    BY DEF Sound, MonitorType
  <2>3. Story(Append(m.queue, reason), reason)
    BY <2>1, <2>2, StoryContinues
  <2>4. QED
    BY <2>1, <2>3
<1>2. QED
  BY <1>1 DEF Sound

(* update(), and the end of processRadarData(): applyTick().  With auto    *)
(* re-arm it neither begins nor ends a guard.                              *)
LEMMA ApplyTickSound ==
  ASSUME NEW m, Sound(m), cfg \in ConfigType, now \in Instants,
         NEW n, n = ApplyTick(m)
  PROVE  /\ Sound(n) /\ n.home = m.home
         /\ cfg.autoRearm => (n.fsm.state = "DISARMED" <=> m.fsm.state = "DISARMED")
<1> DEFINE e == TickEvent(m.fsm, cfg, now)
           g == TickFSM(m.fsm, cfg, now)
           ticked == [m EXCEPT !.fsm = g]
<1>1. m \in MonitorType /\ m.fsm \in FSMType /\ m.home \in BOOLEAN
  BY DEF Sound, MonitorType
<1>2. g \in FSMType
  BY <1>1, MethodTypes DEF Behaviors
<1>3. /\ ticked \in MonitorType /\ ticked.fsm = g
      /\ ticked.siren = m.siren /\ ticked.home = m.home /\ ticked.last = m.last
      /\ ticked.queue = m.queue /\ ticked.dropped = m.dropped
  BY <1>1, <1>2 DEF MonitorType
<1>4. CASE e = "NONE" /\ g = m.fsm
  <2>1. n = ticked
    BY <1>4 DEF ApplyTick
  <2>2. QED
    BY <1>3, <1>4, <2>1 DEF Sound
<1>5. CASE e = "EXIT_DELAY_DONE" /\ m.fsm.state = "ARMING" /\ g.state = "ARMED"
  <2>1. n = ticked
    BY <1>5 DEF ApplyTick
  <2>2. QED
    BY <1>3, <1>5, <2>1 DEF Sound
<1>6. CASE /\ e \in {"AUTO_REARMED", "AUTO_DISARMED"} /\ m.fsm.state = "TRIGGERED"
           /\ g.state \in {"ARMED", "DISARMED"}
           /\ cfg.autoRearm => g.state = "ARMED"
  <2>1. n = [ticked EXCEPT !.siren = FALSE]
    BY <1>6 DEF ApplyTick
  <2>2. /\ n \in MonitorType /\ n.fsm = g /\ ~n.siren /\ n.home = m.home
        /\ n.last = m.last /\ n.queue = m.queue /\ n.dropped = m.dropped
    BY <1>3, <2>1 DEF MonitorType
  <2>3. QED
    BY <1>6, <2>2 DEF Sound
<1>7. CASE /\ e = "ENTRY_EXPIRED_TRIGGERED"
           /\ m.fsm.state = "PENDING" /\ g.state = "TRIGGERED"
  <2> DEFINE queued == EnqueueAlarmEvent(ticked, "entry_delay_expired")
  <2>1. n = [queued EXCEPT !.siren = TRUE]
    BY <1>7 DEF ApplyTick
  <2>2. "entry_delay_expired" \in Reasons /\ Len(ticked.queue) <= QueueSize
    BY <1>3 DEF Reasons, Sound
  <2>3. /\ queued \in MonitorType /\ Len(queued.queue) <= QueueSize
        /\ queued.fsm = g /\ queued.home = m.home
        /\ queued.last = "entry_delay_expired"
        /\ ~queued.dropped =>
             ~m.dropped /\ queued.queue = Append(m.queue, "entry_delay_expired")
    <3> HIDE DEF ticked
    <3> QED
      BY <1>3, <2>2, EnqueueEffect
  <2>4. /\ n \in MonitorType /\ n.siren /\ n.fsm = g /\ n.home = m.home
        /\ n.last = "entry_delay_expired" /\ n.queue = queued.queue
        /\ n.dropped = queued.dropped
    BY <2>1, <2>3 DEF MonitorType
  <2>5. Sound(n)
    BY <1>1, <1>2, <1>7, <2>2, <2>3, <2>4, EventSound
  <2>6. QED
    BY <1>7, <2>4, <2>5
<1>8. QED
  BY <1>1, <1>4, <1>5, <1>6, <1>7, TickEvents

(* The report of a frame neither begins nor ends a guard. *)
LEMMA ReportFrameSound ==
  ASSUME NEW m, Sound(m), cfg \in ConfigType, now \in Instants,
         NEW qualifies \in BOOLEAN, NEW behavior \in Behaviors,
         NEW n, n = ReportFrame(m, qualifies, behavior)
  PROVE  /\ Sound(n) /\ n.home = m.home
         /\ n.fsm.state = "DISARMED" <=> m.fsm.state = "DISARMED"
<1> DEFINE e == MotionEvent(m.fsm, cfg, qualifies, behavior)
           g == MotionFSM(m.fsm, cfg, qualifies, behavior, now)
           moved == [m EXCEPT !.fsm = g]
<1>1. m \in MonitorType /\ m.fsm \in FSMType /\ m.home \in BOOLEAN
  BY DEF Sound, MonitorType
<1>2. g \in FSMType
  BY <1>1, MethodTypes
<1>3. /\ moved \in MonitorType /\ moved.fsm = g
      /\ moved.siren = m.siren /\ moved.home = m.home /\ moved.last = m.last
      /\ moved.queue = m.queue /\ moved.dropped = m.dropped
  BY <1>1, <1>2 DEF MonitorType
<1>4. Len(moved.queue) <= QueueSize /\ {"entry_delay", "immediate"} \subseteq Reasons
  BY <1>3 DEF Sound, Reasons
<1>5. CASE e \in {"NONE", "IGNORED"} /\ g.state = m.fsm.state
  <2>1. n = moved
    BY <1>5 DEF ReportFrame
  <2>2. QED
    BY <1>3, <1>5, <2>1 DEF Sound
<1>6. CASE /\ e = "PENDING_STARTED"
           /\ m.fsm.state = "ARMED" /\ g.state = "PENDING"
  <2>1. n = EnqueueAlarmEvent(moved, "entry_delay")
    BY <1>6 DEF ReportFrame
  <2>2. /\ n \in MonitorType /\ Len(n.queue) <= QueueSize
        /\ n.fsm = g /\ n.siren = m.siren /\ n.home = m.home
        /\ n.last = "entry_delay"
        /\ ~n.dropped => ~m.dropped /\ n.queue = Append(m.queue, "entry_delay")
    <3> HIDE DEF moved
    <3> QED
      BY <1>3, <1>4, <2>1, EnqueueEffect
  <2>3. m.siren = FALSE
    BY <1>1, <1>6 DEF Sound, MonitorType
  <2>4. Sound(n)
    <3> HIDE DEF g
    <3>1. n.siren = FALSE /\ FALSE \in BOOLEAN /\ "entry_delay" \in Reasons
      BY <1>4, <2>2, <2>3
    <3> QED
      BY <1>1, <1>2, <1>6, <2>2, <3>1, EventSound
  <2>5. QED
    BY <1>6, <2>2, <2>4
<1>7. CASE /\ e = "TRIGGERED_IMMEDIATE"
           /\ m.fsm.state = "ARMED" /\ g.state = "TRIGGERED"
  <2> DEFINE queued == EnqueueAlarmEvent(moved, "immediate")
  <2>1. n = [queued EXCEPT !.siren = TRUE]
    BY <1>7 DEF ReportFrame
  <2>2. /\ queued \in MonitorType /\ Len(queued.queue) <= QueueSize
        /\ queued.fsm = g /\ queued.home = m.home /\ queued.last = "immediate"
        /\ ~queued.dropped =>
             ~m.dropped /\ queued.queue = Append(m.queue, "immediate")
    <3> HIDE DEF moved
    <3> QED
      BY <1>3, <1>4, EnqueueEffect
  <2>3. /\ n \in MonitorType /\ n.siren /\ n.fsm = g /\ n.home = m.home
        /\ n.last = "immediate" /\ n.queue = queued.queue
        /\ n.dropped = queued.dropped
    BY <2>1, <2>2 DEF MonitorType
  <2>4. Sound(n)
    <3> HIDE DEF g, queued
    <3>1. n.siren = TRUE /\ TRUE \in BOOLEAN /\ "immediate" \in Reasons
      BY <1>4, <2>3 DEF MonitorType
    <3> QED
      BY <1>1, <1>2, <1>7, <2>2, <2>3, <3>1, EventSound
  <2>5. QED
    BY <1>7, <2>3, <2>4
<1>8. QED
  BY <1>1, <1>5, <1>6, <1>7, MotionEvents

(* The three results r of setArmed(true), from object m to object n. *)
ArmOutcome(m, n, r, home) ==
  \/ r = "REJECTED" /\ m.fsm.state \in {"PENDING", "TRIGGERED"} /\ n = m
  \/ /\ r = "IDEMPOTENT" /\ m.fsm.state \in {"ARMING", "ARMED"}
     /\ n.fsm = m.fsm /\ n.home = home
  \/ /\ r = "APPLIED" /\ m.fsm.state = "DISARMED"
     /\ n.fsm.state \in {"ARMING", "ARMED"} /\ n.home = home

(* setArmed(true) leaves a sound object, by one of them. *)
LEMMA ArmSound ==
  ASSUME NEW m, Sound(m), now \in Instants,
         NEW immediate \in BOOLEAN, NEW home \in BOOLEAN
  PROVE  /\ Sound(SetArmedMonitor(m, TRUE, immediate, home))
         /\ ArmOutcome(m, SetArmedMonitor(m, TRUE, immediate, home),
                       SetArmedResult(m, TRUE, immediate), home)
<1> DEFINE r == SetArmedResult(m, TRUE, immediate)
           n == SetArmedMonitor(m, TRUE, immediate, home)
<1> DEFINE g == ArmFSM(m.fsm, immediate, now)
<1>1. m \in MonitorType /\ m.fsm \in FSMType
  BY DEF Sound, MonitorType
<1>2. \/ /\ ArmResult(m.fsm, immediate) = "REJECTED"
         /\ m.fsm.state \in {"PENDING", "TRIGGERED"}
      \/ /\ ArmResult(m.fsm, immediate) = "IDEMPOTENT"
         /\ m.fsm.state \in {"ARMING", "ARMED"} /\ g = m.fsm
      \/ /\ ArmResult(m.fsm, immediate) \in {"ARMED_IMMEDIATE", "ARMING_STARTED"}
         /\ m.fsm.state = "DISARMED" /\ g.state \in {"ARMING", "ARMED"}
  BY <1>1, ArmResults
<1>3. 0 \in 0..CountMax
  BY ConfigAssumption
<1>4. g \in FSMType
  <2>1. CASE ArmResult(m.fsm, immediate) = "ARMED_IMMEDIATE"
    BY <1>1, <1>3, <2>1 DEF ArmFSM, FSMType, States
  <2>2. CASE ArmResult(m.fsm, immediate) = "ARMING_STARTED"
    BY <1>1, <1>3, <2>2 DEF ArmFSM, FSMType, States
  <2>3. CASE ArmResult(m.fsm, immediate) \notin {"ARMED_IMMEDIATE", "ARMING_STARTED"}
    BY <1>1, <2>3 DEF ArmFSM
  <2>4. QED
    BY <2>1, <2>2, <2>3
<1>5. CASE /\ ArmResult(m.fsm, immediate) = "REJECTED"
           /\ m.fsm.state \in {"PENDING", "TRIGGERED"}
  <2>1. r = "REJECTED" /\ n = m
    BY <1>5 DEF SetArmedResult, SetArmedMonitor
  <2>2. QED
    BY <1>5, <2>1 DEF ArmOutcome
<1>6. CASE /\ ArmResult(m.fsm, immediate) # "REJECTED"
           /\ \/ g = m.fsm /\ m.fsm.state \in {"ARMING", "ARMED"}
              \/ m.fsm.state = "DISARMED" /\ g.state \in {"ARMING", "ARMED"}
  <2>1. r # "REJECTED"
    BY <1>6 DEF SetArmedResult
  <2>2. n = [m EXCEPT !.fsm = g, !.home = home]
    BY <2>1 DEF SetArmedMonitor
  <2>3. /\ n \in MonitorType /\ n.fsm = g /\ n.home = home /\ n.siren = m.siren
        /\ n.last = m.last /\ n.queue = m.queue /\ n.dropped = m.dropped
    BY <1>1, <1>4, <2>2 DEF MonitorType
  <2>4. Sound(n)
    BY <1>6, <2>3 DEF Sound
  <2>5. r = IF m.fsm.state = "DISARMED" THEN "APPLIED" ELSE "IDEMPOTENT"
    BY <1>2, <1>6 DEF SetArmedResult
  <2>6. QED
    BY <1>6, <2>3, <2>4, <2>5 DEF ArmOutcome
<1>7. QED
  BY <1>2, <1>5, <1>6

(* setArmed(false): the guard is off, the event says so. *)
LEMMA DisarmSound ==
  ASSUME NEW m, Sound(m), now \in Instants,
         NEW n, n = SetArmedMonitor(m, FALSE, FALSE, FALSE)
  PROVE  Sound(n) /\ n.fsm.state = "DISARMED" /\ n.home = FALSE
<1> DEFINE off == [m EXCEPT !.fsm = DisarmFSM(@), !.siren = FALSE, !.home = FALSE]
<1>1. m \in MonitorType /\ m.fsm \in FSMType
  BY DEF Sound, MonitorType
<1>2. DisarmFSM(m.fsm) \in FSMType /\ DisarmFSM(m.fsm).state = "DISARMED"
  BY ClockAssumption, ConfigAssumption
  DEF DisarmFSM, InitialFSM, FSMType, States, Instants
<1>3. /\ off \in MonitorType /\ off.fsm = DisarmFSM(m.fsm)
      /\ off.siren = FALSE /\ off.home = FALSE
      /\ off.last = m.last /\ off.queue = m.queue /\ off.dropped = m.dropped
  BY <1>1, <1>2 DEF MonitorType
<1>4. CASE m.fsm.state = "DISARMED"
  <2>1. n = off
    BY <1>4 DEF SetArmedMonitor
  <2>2. QED
    BY <1>2, <1>3, <1>4, <2>1 DEF Sound
<1>5. CASE m.fsm.state # "DISARMED"
  <2>1. n = EnqueueAlarmEvent(off, "disarmed")
    BY <1>5 DEF SetArmedMonitor
  <2>2. "disarmed" \in Reasons /\ Len(off.queue) <= QueueSize
    BY <1>3 DEF Reasons, Sound
  <2>3. /\ n \in MonitorType /\ Len(n.queue) <= QueueSize
        /\ n.fsm = DisarmFSM(m.fsm) /\ n.siren = FALSE /\ n.home = FALSE
        /\ n.last = "disarmed"
        /\ ~n.dropped => ~m.dropped /\ n.queue = Append(m.queue, "disarmed")
    <3> HIDE DEF off
    <3>1. /\ n \in MonitorType /\ Len(n.queue) <= QueueSize
          /\ n.fsm = off.fsm /\ n.siren = off.siren /\ n.home = off.home
          /\ n.last = "disarmed"
          /\ ~n.dropped => ~off.dropped /\ n.queue = Append(off.queue, "disarmed")
      BY <1>3, <2>1, <2>2, EnqueueEffect
    <3>2. QED
      BY <1>3, <3>1
  <2>4. Sound(n)
    BY <1>2, <2>2, <2>3, EventSound
  <2>5. QED
    BY <1>2, <2>3, <2>4
<1>6. QED
  BY <1>4, <1>5

-----------------------------------------------------------------------------
(* The steps.                                                              *)

(* The object as constructed is sound and disarmed. *)
LEMMA ConstructedSound ==
  /\ InitialMonitor \in MonitorType /\ Sound(InitialMonitor)
  /\ InitialMonitor.fsm.state = "DISARMED" /\ 0 \in Instants
<1>1. InitialFSM \in FSMType /\ 0 \in Instants
  BY ClockAssumption, ConfigAssumption DEF InitialFSM, FSMType, States, Instants
<1>2. InitialMonitor \in MonitorType /\ InitialMonitor.fsm.state = "DISARMED"
  BY <1>1 DEF InitialMonitor, MonitorType, InitialFSM
<1>3. Story(InitialMonitor.queue, InitialMonitor.last)
  BY DEF InitialMonitor, Story
<1>4. Len(InitialMonitor.queue) <= QueueSize
  BY QueueAssumption DEF InitialMonitor
<1>5. QED
  BY <1>1, <1>2, <1>3, <1>4 DEF Sound, InitialMonitor

(* What the hypothesis of the induction says of the present state. *)
LEMMA InvFacts ==
  ASSUME Inv
  PROVE  /\ Sound(mon) /\ mon \in MonitorType /\ cfg \in Configs
         /\ cfg \in ConfigType /\ cfg.autoRearm \in BOOLEAN /\ now \in Instants
         /\ prefs \in [armed : BOOLEAN, home : BOOLEAN] /\ mon.home \in BOOLEAN
         /\ phase \in Phases /\ unsaved \in BOOLEAN
<1>1. /\ Sound(mon) /\ mon \in MonitorType /\ cfg \in Configs /\ now \in Instants
      /\ prefs \in [armed : BOOLEAN, home : BOOLEAN]
      /\ phase \in Phases /\ unsaved \in BOOLEAN
  BY DEF Inv, TypeOK
<1>2. cfg \in ConfigType /\ mon.home \in BOOLEAN
  BY <1>1, ConfigAssumption DEF MonitorType
<1>3. QED
  BY <1>1, <1>2 DEF ConfigType

(* setup() begins. *)
LEMMA InitInv == Init => Inv
<1> SUFFICES ASSUME Init PROVE Inv
  OBVIOUS
<1>1. Sound(mon) /\ mon.fsm.state = "DISARMED"
  BY ConstructedSound DEF Init
<1>2. TypeOK
  BY <1>1, ConstructedSound DEF Init, TypeOK, Sound, Phases
<1>3. Booting /\ RestartKeepsGuard
  BY <1>1 DEF Init, Booting, RestartKeepsGuard, StatePersists
<1>4. QED
  BY <1>1, <1>2, <1>3 DEF Inv

(* Two putBool() leave what they were given, or the history knows.         *)
LEMMA WrittenEffect ==
  ASSUME prefs \in [armed : BOOLEAN, home : BOOLEAN], unsaved \in BOOLEAN,
         NEW p \in [armed : BOOLEAN, home : BOOLEAN], NEW saved \in BOOLEAN,
         Written(p, saved)
  PROVE  /\ prefs' \in [armed : BOOLEAN, home : BOOLEAN] /\ unsaved' \in BOOLEAN
         /\ ~unsaved' => prefs' = p /\ unsaved' = (unsaved /\ ~saved)
<1>1. {prefs.armed, p.armed} \subseteq BOOLEAN /\ {prefs.home, p.home} \subseteq BOOLEAN
  OBVIOUS
<1>2. QED
  BY <1>1 DEF Written

(* A call of setArmed(true) that gets the mutex.  What it leaves in NVS is *)
(* what it leaves in RAM, unless begin() has yet to come or NVS refuses.   *)
LEMMA ArmStep ==
  ASSUME Inv, NEW immediate \in BOOLEAN, NEW home \in BOOLEAN,
         SetArmed(TRUE, immediate, home), UNCHANGED <<phase, cfg, now>>
  PROVE  Inv'
<1> DEFINE r == SetArmedResult(mon, TRUE, immediate)
<1>1. mon' = SetArmedMonitor(mon, TRUE, immediate, home)
  BY DEF SetArmed
<1>2. /\ Sound(mon')
      /\ \/ /\ r = "REJECTED" /\ mon.fsm.state \in {"PENDING", "TRIGGERED"}
            /\ mon' = mon
         \/ /\ r = "IDEMPOTENT" /\ mon.fsm.state \in {"ARMING", "ARMED"}
            /\ mon'.fsm = mon.fsm /\ mon'.home = home
         \/ /\ r = "APPLIED" /\ mon.fsm.state = "DISARMED"
            /\ mon'.fsm.state \in {"ARMING", "ARMED"} /\ mon'.home = home
  <2> DEFINE n == SetArmedMonitor(mon, TRUE, immediate, home)
  <2>1. Sound(mon) /\ now \in Instants
    BY InvFacts
  <2>2. Sound(n) /\ ArmOutcome(mon, n, r, home)
    BY <2>1, ArmSound, Zenon
  <2> HIDE DEF r, n
  <2>3. mon' = n
    BY <1>1 DEF n
  <2>4. Sound(mon') /\ ArmOutcome(mon, mon', r, home)
    BY <2>2, <2>3
  <2>5. QED
    BY <2>4 DEF ArmOutcome
<1>3. CASE phase = "server"
  <2>1. prefs' = prefs /\ unsaved' = (unsaved \/ mon' # mon)
    BY <1>3 DEF SetArmed
  <2>2. TypeOK'
    BY <1>2, <2>1, InvFacts DEF Inv, TypeOK, Sound
  <2>3. Booting' /\ RestartKeepsGuard'
    BY <1>2, <1>3, <2>1 DEF Inv, Booting, RestartKeepsGuard, StatePersists
  <2>4. QED
    BY <1>2, <2>2, <2>3 DEF Inv
<1>4. CASE phase # "server"
  <2> DEFINE p == Persist(mon, prefs, TRUE, immediate, home)
  <2>1. /\ r = "APPLIED" => p = [armed |-> TRUE, home |-> home]
        /\ r = "IDEMPOTENT" =>
             p = IF mon.home # home THEN [prefs EXCEPT !.home = home] ELSE prefs
        /\ r = "REJECTED" => p = prefs
    BY DEF Persist
  <2>2. p \in [armed : BOOLEAN, home : BOOLEAN]
    <3> HIDE DEF r, p
    <3>1. r \in {"REJECTED", "IDEMPOTENT", "APPLIED"}
      BY <1>2
    <3>2. prefs \in [armed : BOOLEAN, home : BOOLEAN]
      BY InvFacts
    <3>3. /\ [prefs EXCEPT !.home = home] \in [armed : BOOLEAN, home : BOOLEAN]
          /\ [armed |-> TRUE, home |-> home] \in [armed : BOOLEAN, home : BOOLEAN]
      BY <3>2
    <3>4. p \in {[armed |-> TRUE, home |-> home], [prefs EXCEPT !.home = home], prefs}
      BY <2>1, <3>1
    <3>5. QED
      BY <3>2, <3>3, <3>4, Zenon
  <2>3. Written(p, r = "APPLIED")
    BY <1>4 DEF SetArmed
  <2>4. /\ prefs' \in [armed : BOOLEAN, home : BOOLEAN] /\ unsaved' \in BOOLEAN
        /\ ~unsaved' => prefs' = p /\ unsaved' = (unsaved /\ r # "APPLIED")
    <3> HIDE DEF r, p
    <3>1. (r = "APPLIED") \in BOOLEAN
      OBVIOUS
    <3>2. QED
      BY <2>2, <2>3, <3>1, InvFacts, WrittenEffect
  <2>5. TypeOK'
    BY <1>2, <2>4, InvFacts DEF Inv, TypeOK, Sound
  <2>6. CASE unsaved'
    BY <1>2, <1>4, <2>5, <2>6, InvFacts DEF Inv, Booting, RestartKeepsGuard, StatePersists
  <2>7. CASE ~unsaved' /\ r = "REJECTED"
    BY <1>2, <1>4, <2>1, <2>4, <2>5, <2>7
    DEF Inv, Booting, RestartKeepsGuard, StatePersists
  <2>8. CASE ~unsaved' /\ r = "IDEMPOTENT"
    <3>1. /\ prefs'.armed = prefs.armed
          /\ prefs.home = mon.home => prefs'.home = home
          /\ unsaved' = unsaved /\ mon'.home = home /\ mon'.fsm = mon.fsm
          /\ mon.fsm.state \in {"ARMING", "ARMED"}
      BY <1>2, <2>1, <2>4, <2>8, InvFacts
    <3>2. Booting'
      BY <1>4, <3>1 DEF Inv, Booting
    <3>3. RestartKeepsGuard'
      BY <3>1 DEF Inv, RestartKeepsGuard, StatePersists
    <3>4. QED
      BY <1>2, <2>5, <3>2, <3>3 DEF Inv
  <2>9. CASE ~unsaved' /\ r = "APPLIED"
    <3>1. /\ prefs'.armed /\ prefs'.home = home /\ mon'.home = home
          /\ mon'.fsm.state \in {"ARMING", "ARMED"}
      <4> HIDE DEF r
      <4>1. prefs' = [armed |-> TRUE, home |-> home]
        BY <2>1, <2>4, <2>9
      <4>2. QED
        BY <1>2, <2>9, <4>1
    <3>2. Booting' /\ RestartKeepsGuard'
      BY <1>4, <3>1 DEF Booting, RestartKeepsGuard, StatePersists
    <3>3. QED
      BY <1>2, <2>5, <3>2 DEF Inv
  <2>10. QED
    BY <1>2, <2>6, <2>7, <2>8, <2>9
<1>5. QED
  BY <1>3, <1>4

(* A call of setArmed(false) that gets the mutex. *)
LEMMA DisarmStep == Inv /\ Disarm => Inv'
<1> SUFFICES ASSUME Inv, Disarm PROVE Inv'
  OBVIOUS
<1>1. Sound(mon') /\ mon'.fsm.state = "DISARMED" /\ mon'.home = FALSE
  BY InvFacts, DisarmSound DEF Disarm, SetArmed
<1>2. CASE phase = "server"
  <2>1. prefs' = prefs /\ unsaved' = (unsaved \/ mon' # mon)
    BY <1>2 DEF Disarm, SetArmed
  <2>2. TypeOK'
    BY <1>1, <2>1, InvFacts DEF Inv, TypeOK, Sound, Disarm
  <2>3. Booting' /\ RestartKeepsGuard'
    BY <1>1, <1>2 DEF Disarm, Booting, RestartKeepsGuard, StatePersists
  <2>4. QED
    BY <1>1, <2>2, <2>3 DEF Inv
<1>3. CASE phase # "server"
  <2> DEFINE p == [armed |-> FALSE, home |-> FALSE]
  <2>1. /\ prefs' \in [armed : BOOLEAN, home : BOOLEAN] /\ unsaved' \in BOOLEAN
        /\ ~unsaved' => prefs' = p
    <3>1. Written(p, TRUE)
      BY <1>3 DEF Disarm, SetArmed, Persist
    <3>2. p \in [armed : BOOLEAN, home : BOOLEAN] /\ TRUE \in BOOLEAN
      OBVIOUS
    <3> HIDE DEF p
    <3>3. QED
      BY <3>1, <3>2, InvFacts, WrittenEffect
  <2>2. TypeOK'
    BY <1>1, <2>1, InvFacts DEF Inv, TypeOK, Sound, Disarm
  <2>3. Booting' /\ RestartKeepsGuard'
    BY <1>1, <1>3, <2>1 DEF Disarm, Booting, RestartKeepsGuard, StatePersists
  <2>4. QED
    BY <1>1, <2>2, <2>3 DEF Inv
<1>4. QED
  BY <1>2, <1>3

(* A handler of loop() that keeps home mode and, with auto re-arm, guard.  *)
LEMMA LoopStep ==
  ASSUME Inv, phase = "loop", Sound(mon'), mon'.home = mon.home,
         cfg.autoRearm => (mon'.fsm.state = "DISARMED" <=> mon.fsm.state = "DISARMED"),
         UNCHANGED <<prefs, phase, cfg, now, unsaved>>
  PROVE  Inv'
<1>1. TypeOK'
  BY DEF Inv, TypeOK, Sound
<1>2. Booting' /\ RestartKeepsGuard'
  BY DEF Inv, Booting, RestartKeepsGuard, StatePersists
<1>3. QED
  BY <1>1, <1>2 DEF Inv

(* update() *)
LEMMA UpdateStep == Inv /\ Update => Inv'
<1> SUFFICES ASSUME Inv, Update PROVE Inv'
  OBVIOUS
<1>1. /\ Sound(mon') /\ mon'.home = mon.home
      /\ cfg.autoRearm =>
           (mon'.fsm.state = "DISARMED" <=> mon.fsm.state = "DISARMED")
  BY InvFacts, ApplyTickSound DEF Update
<1>2. QED
  BY <1>1, LoopStep DEF Update

(* processRadarData() *)
LEMMA ProcessRadarDataStep == Inv /\ ProcessRadarData => Inv'
<1> SUFFICES ASSUME Inv, phase = "loop",
                    NEW qualifies \in BOOLEAN, NEW behavior \in Behaviors,
                    mon' = ApplyTick(ReportFrame(mon, qualifies, behavior)),
                    UNCHANGED <<prefs, phase, cfg, now, unsaved>>
             PROVE  Inv'
  BY DEF ProcessRadarData
<1> DEFINE reported == ReportFrame(mon, qualifies, behavior)
<1>1. /\ Sound(reported) /\ reported.home = mon.home
      /\ reported.fsm.state = "DISARMED" <=> mon.fsm.state = "DISARMED"
  BY InvFacts, ReportFrameSound
<1>2. /\ Sound(mon') /\ mon'.home = reported.home
      /\ cfg.autoRearm =>
           (mon'.fsm.state = "DISARMED" <=> reported.fsm.state = "DISARMED")
  <2> HIDE DEF reported
  <2>1. mon' = ApplyTick(reported)
    BY DEF reported
  <2>2. QED
    BY <1>1, <2>1, InvFacts, ApplyTickSound
<1>3. QED
  BY <1>1, <1>2, LoopStep

(* consumeAlarmEvent() *)
LEMMA ConsumeStep == Inv /\ ConsumeAlarmEvent => Inv'
<1> SUFFICES ASSUME Inv, ConsumeAlarmEvent PROVE Inv'
  OBVIOUS
<1>1. mon.queue \in Seq(Reasons) /\ mon.queue # <<>> /\ Len(mon.queue) <= QueueSize
  BY InvFacts DEF ConsumeAlarmEvent, MonitorType, Sound
<1>2. /\ Tail(mon.queue) \in Seq(Reasons)
      /\ Len(Tail(mon.queue)) <= QueueSize
  BY <1>1, QueueAssumption
<1>3. /\ mon' \in MonitorType /\ mon'.queue = Tail(mon.queue)
      /\ mon'.fsm = mon.fsm /\ mon'.siren = mon.siren /\ mon'.home = mon.home
      /\ mon'.last = mon.last /\ mon'.dropped = mon.dropped
  BY <1>2, InvFacts DEF ConsumeAlarmEvent, MonitorType
<1>4. Sound(mon')
  BY <1>1, <1>2, <1>3, InvFacts, StoryShortens DEF Sound
<1>5. QED
  BY <1>3, <1>4, LoopStep DEF ConsumeAlarmEvent

(* setup(): begin(), then the guard of before the restart. *)
LEMMA SetupStep == Inv /\ (Begin \/ Restore) => Inv'
<1> SUFFICES ASSUME Inv, Begin \/ Restore PROVE Inv'
  OBVIOUS
<1>1. CASE Begin
  <2>1. TypeOK' /\ Sound(mon')
    BY <1>1 DEF Begin, Inv, TypeOK, Phases
  <2>2. Booting' /\ RestartKeepsGuard'
    BY <1>1 DEF Begin, Inv, Booting, RestartKeepsGuard, StatePersists
  <2>3. QED
    BY <2>1, <2>2 DEF Inv
<1>2. CASE Restore
  <2>1. ASSUME prefs.armed, SetArmed(TRUE, FALSE, prefs.home)
        PROVE  Inv'
    <3> DEFINE r == SetArmedResult(mon, TRUE, FALSE)
    <3>1. phase = "begun" /\ phase' = "loop" /\ UNCHANGED <<cfg, now>>
      BY <1>2 DEF Restore
    <3>2. prefs.home \in BOOLEAN /\ mon.fsm.state \in {"DISARMED", "ARMING", "ARMED"}
      BY <3>1, InvFacts DEF Inv, Booting
    <3>3. /\ mon' = SetArmedMonitor(mon, TRUE, FALSE, prefs.home)
          /\ Written(Persist(mon, prefs, TRUE, FALSE, prefs.home), r = "APPLIED")
      BY <2>1, <3>1 DEF SetArmed
    <3>4. /\ Sound(mon') /\ mon'.home = prefs.home
          /\ mon'.fsm.state # "DISARMED" /\ r \in {"IDEMPOTENT", "APPLIED"}
      <4>1. Sound(mon) /\ now \in Instants /\ FALSE \in BOOLEAN
        BY InvFacts
      <4> HIDE DEF r
      <4>2. r = SetArmedResult(mon, TRUE, FALSE)
        BY DEF r
      <4>3. QED
        BY <3>2, <3>3, <4>1, <4>2, ArmSound DEF ArmOutcome
    <3>5. prefs' \in [armed : BOOLEAN, home : BOOLEAN] /\ unsaved' \in BOOLEAN
          /\ prefs'.armed /\ prefs'.home = prefs.home
      <4> DEFINE p == Persist(mon, prefs, TRUE, FALSE, prefs.home)
      <4>1. p = prefs
        BY <2>1, <3>4, InvFacts DEF Persist
      <4>2. Written(p, r = "APPLIED")
        BY <3>3
      <4> HIDE DEF p, r
      <4>3. prefs' = prefs /\ unsaved' \in BOOLEAN
        BY <4>1, <4>2, InvFacts DEF Written
      <4>4. QED
        BY <2>1, <4>3, InvFacts
    <3>6. TypeOK'
      BY <3>1, <3>3, <3>4, <3>5, InvFacts DEF Inv, TypeOK, Sound, Phases
    <3>7. Booting' /\ RestartKeepsGuard'
      BY <3>1, <3>4, <3>5 DEF Booting, RestartKeepsGuard, StatePersists
    <3>8. QED
      BY <3>4, <3>6, <3>7 DEF Inv
  <2>2. ASSUME unsaved', UNCHANGED <<mon, prefs>> PROVE Inv'
    BY <1>2, <2>2
    DEF Restore, Inv, TypeOK, Phases, Booting, RestartKeepsGuard, StatePersists
  <2>3. ASSUME ~prefs.armed, UNCHANGED <<mon, prefs, unsaved>> PROVE Inv'
    BY <1>2, <2>3
    DEF Restore, Inv, TypeOK, Phases, Booting, RestartKeepsGuard, StatePersists
  <2>4. QED
    BY <1>2, <2>1, <2>2, <2>3 DEF Restore
<1>3. QED
  BY <1>1, <1>2

(* A restart, in the middle of saving too, begins setup() anew. *)
LEMMA RestartStep == Inv /\ (Restart \/ RestartWhilePersisting) => Inv'
<1> SUFFICES ASSUME Inv, LoseRAM,
                    prefs' \in [armed : BOOLEAN, home : BOOLEAN]
             PROVE  Inv'
  BY InvFacts DEF Restart, RestartWhilePersisting
<1>1. Sound(mon') /\ mon'.fsm.state = "DISARMED"
  BY ConstructedSound DEF LoseRAM
<1>2. TypeOK'
  BY <1>1, ConstructedSound, InvFacts DEF LoseRAM, Inv, TypeOK, Sound, Phases
<1>3. Booting' /\ RestartKeepsGuard'
  BY <1>1 DEF LoseRAM, Booting, RestartKeepsGuard, StatePersists
<1>4. QED
  BY <1>1, <1>2, <1>3 DEF Inv

(* Every step preserves the invariant. *)
LEMMA StepInv == Inv /\ [Next]_vars => Inv'
<1> SUFFICES ASSUME Inv, [Next]_vars PROVE Inv'
  OBVIOUS
<1>1. WebArm \/ LoopArm => Inv'
  BY ArmStep DEF WebArm, LoopArm
<1>2. TimePasses => Inv'
  <2> HAVE TimePasses
  <2>1. now' \in Instants
    BY InvFacts, ClockAssumption DEF TimePasses, Instants
  <2>2. QED
    BY <2>1 DEF TimePasses, Inv, TypeOK, Booting, RestartKeepsGuard, StatePersists
<1>3. UNCHANGED vars => Inv'
  BY DEF vars, Inv, TypeOK, Booting, RestartKeepsGuard, StatePersists
<1>4. QED
  BY <1>1, <1>2, <1>3, DisarmStep, UpdateStep, ProcessRadarDataStep, ConsumeStep,
     SetupStep, RestartStep DEF Next

(* Whatever web, MQTT, Telegram, radar and timers do in whatever order,    *)
(* and wherever the power fails: types, siren, events and NVS hold         *)
(* together.                                                               *)
THEOREM Invariance == Spec => []Inv
BY InitInv, StepInv, PTL DEF Spec

(* The monitor, the flags in NVS and the clock keep their types. *)
THEOREM TypeCorrect == Spec => []TypeOK
<1>1. Inv => TypeOK
  BY DEF Inv
<1>2. QED
  BY <1>1, Invariance, PTL

(* The siren pin is set exactly while the alarm is triggered. *)
THEOREM SirenIsTrue == Spec => []SirenFollowsAlarm
<1>1. Inv => SirenFollowsAlarm
  BY DEF Inv, Sound, SirenFollowsAlarm
<1>2. QED
  BY <1>1, Invariance, PTL

(* The last event explains the state of the alarm. *)
THEOREM LastEventIsTrue == Spec => []LastEventExplains
<1>1. Inv => LastEventExplains
  BY DEF Inv, Sound, LastEventExplains
<1>2. QED
  BY <1>1, Invariance, PTL

(* The queue of alarm events tells a possible story. *)
THEOREM QueueIsTrue == Spec => []QueueTellsTheStory
<1>1. Inv => QueueTellsTheStory
  BY DEF Inv, Sound, Story, QueueTellsTheStory
<1>2. QED
  BY <1>1, Invariance, PTL

(* With auto re-arm, a power cut brings back the guard that stood. *)
THEOREM GuardSurvives == Spec => []RestartKeepsGuard
<1>1. Inv => RestartKeepsGuard
  BY DEF Inv
<1>2. QED
  BY <1>1, Invariance, PTL

-----------------------------------------------------------------------------
(* MqttState: what the broker has of the texts.                            *)

SessionTyped ==
  /\ current \in [Topics -> 0..1]
  /\ DOMAIN lastPub = Topics
  /\ DOMAIN retained = {"topic", "operation", "maintenance", "entities"}
  /\ DOMAIN retained.topic = Topics
  /\ todo \in {Order, <<"tamper", "fusion">>, <<"fusion">>, <<>>}
  /\ place = "publish" => todo # <<>>

(* Over a live session the cache is right about each text it has published,*)
(* unless it is about to be told of a reconnect.                           *)
TextsArePublished ==
  link = "up" /\ ~justReconnected =>
    \A t \in Texts : lastPub[t] # Invalid => retained.topic[t] = lastPub[t]

MqttInv == SessionTyped /\ TextsArePublished

(* Announcements leave the topics alone.                                   *)
SameTopics(broker, before) ==
  DOMAIN broker = DOMAIN before /\ broker.topic = before.topic

LEMMA ToldTopics ==
  ASSUME NEW broker, DOMAIN broker = {"topic", "operation", "maintenance", "entities"},
         NEW field \in {"operation", "maintenance", "entities"}, NEW value
  PROVE  SameTopics(Told(broker, field, value), broker)
BY DEF Told, SameTopics

LEMMA AnnouncedTopics ==
  ASSUME SessionTyped
  PROVE  /\ SameTopics(OperationTold(retained), retained)
         /\ SameTopics(Deferred(retained), retained)
         /\ SameTopics(Announced(Deferred(OperationTold(retained))), retained)
         /\ SameTopics(Greeted(retained), retained)
<1>1. PICK told : told = OperationTold(retained)
  OBVIOUS
<1>2. PICK deferred : deferred = Deferred(told)
  OBVIOUS
<1>3. SameTopics(told, retained)
  BY <1>1, ToldTopics DEF OperationTold, SessionTyped, SameTopics
<1>4. SameTopics(deferred, told)
  BY <1>2, <1>3, ToldTopics DEF Deferred, SessionTyped, SameTopics
<1>5. SameTopics(Announced(deferred), deferred)
  BY <1>3, <1>4, ToldTopics DEF Announced, SessionTyped, SameTopics
<1>6. SameTopics(Deferred(retained), retained)
  BY ToldTopics DEF Deferred, SessionTyped, SameTopics
<1>7. SameTopics(Greeted(retained), retained)
  BY DEF Greeted, SessionTyped, SameTopics
<1>8. QED
  BY <1>1, <1>2, <1>3, <1>4, <1>5, <1>6, <1>7 DEF SameTopics

(* No text has its impossible value at the topics.                         *)
LEMMA CachesInvalid ==
  ASSUME SessionTyped
  PROVE  /\ DOMAIN NeverPublished = Topics /\ DOMAIN Invalidated(lastPub) = Topics
         /\ \A t \in Texts : NeverPublished[t] = Invalid /\ Invalidated(lastPub)[t] = Invalid
BY DEF NeverPublished, Invalidated, Topics, Texts, Flags, Kept, SessionTyped

(* The steps of update(), which replays, and of a restart.                 *)
LEMMA SessionStep ==
  ASSUME MqttInv,
         SameTopics(retained', retained), UNCHANGED current,
         \/ Replayed /\ (link' = "up" => link = "up")
         \/ lastPub' = Invalidated(lastPub),
         AfterUpdate
  PROVE  MqttInv'
<1>1. SessionTyped'
  BY CachesInvalid DEF MqttInv, SessionTyped, SameTopics, Replayed, AfterUpdate, Order
<1>2. TextsArePublished'
  BY CachesInvalid DEF MqttInv, TextsArePublished, SameTopics, Replayed, AfterUpdate
<1>3. QED
  BY <1>1, <1>2 DEF MqttInv

LEMMA RestartedStep ==
  ASSUME MqttInv, Restarted, UNCHANGED current, SameTopics(retained', retained)
  PROVE  MqttInv'
BY CachesInvalid
   DEF MqttInv, SessionTyped, TextsArePublished, SameTopics, Restarted, RestartedCache

LEMMA LookStep ==
  ASSUME MqttInv, LookAt
  PROVE  /\ MqttInv'
         /\ \A t \in Texts : Passed(t) /\ Working => retained'.topic[t] = current[t]
<1>1. PICK t : t = Head(todo)
  OBVIOUS
<1>2. /\ IF current[t] # lastPub[t] THEN Publish(t) ELSE UNCHANGED <<lastPub, retained, link>>
      /\ todo' = Tail(todo) /\ Finished(Tail(todo))
      /\ UNCHANGED <<justReconnected, current, claimed>>
  BY <1>1 DEF LookAt, world
<1>3. /\ t \in Topics /\ Tail(todo) \in {<<"tamper", "fusion">>, <<"fusion">>, <<>>}
      /\ (t \in Texts => todo = Order)
  <2>1. place = "publish"
    BY DEF LookAt
  <2>2. CASE todo = Order
    BY <2>2, <1>1 DEF Order, Topics, Texts, Flags, Kept
  <2>3. CASE todo = <<"tamper", "fusion">>
    BY <2>3, <1>1 DEF Topics, Texts, Flags, Kept
  <2>4. CASE todo = <<"fusion">>
    BY <2>4, <1>1 DEF Topics, Texts, Flags, Kept
  <2>5. QED
    BY <2>1, <2>2, <2>3, <2>4 DEF MqttInv, SessionTyped
<1>4. \/ UNCHANGED <<lastPub, retained>> /\ (link' = "up" => link = "up")
         /\ ((current[t] = lastPub[t]) \/ (link # "up" \/ OtaRuns))
      \/ /\ link' = link
         /\ lastPub' = [lastPub EXCEPT ![t] = current[t]]
         /\ retained' = [retained EXCEPT !.topic[t] = IF link = "up" THEN current[t] ELSE @]
  BY <1>2 DEF Publish
<1>5. CASE /\ UNCHANGED <<lastPub, retained>> /\ (link' = "up" => link = "up")
           /\ ((current[t] = lastPub[t]) \/ (link # "up" \/ OtaRuns))
  <2>1. MqttInv'
    BY <1>2, <1>3, <1>5 DEF MqttInv, SessionTyped, TextsArePublished, Finished
  <2>2. ASSUME NEW x \in Texts, Passed(x), Working
        PROVE  retained'.topic[x] = current[x]
    <3>1. x = t /\ current[x] = lastPub[x]
      BY <1>1, <1>5, <2>2 DEF Passed, Working
    <3>2. current[x] \in 0..1 /\ Invalid \notin 0..1
      BY <2>2 DEF MqttInv, SessionTyped, Topics, Invalid
    <3>3. lastPub[x] # Invalid
      BY <3>1, <3>2
    <3>4. QED
      BY <3>1, <3>3, <1>5, <2>2 DEF MqttInv, TextsArePublished, Working
  <2>3. QED
    BY <2>1, <2>2
<1>6. CASE /\ link' = link
           /\ lastPub' = [lastPub EXCEPT ![t] = current[t]]
           /\ retained' = [retained EXCEPT !.topic[t] = IF link = "up" THEN current[t] ELSE @]
  <2>1. /\ DOMAIN lastPub' = Topics /\ DOMAIN retained' = DOMAIN retained
        /\ DOMAIN retained'.topic = Topics
        /\ lastPub'[t] = current[t] /\ (link = "up" => retained'.topic[t] = current[t])
        /\ \A x \in Topics : x # t =>
             lastPub'[x] = lastPub[x] /\ retained'.topic[x] = retained.topic[x]
    BY <1>3, <1>6 DEF MqttInv, SessionTyped
  <2>2. SessionTyped'
    BY <2>1, <1>2, <1>3 DEF MqttInv, SessionTyped, Finished
  <2>3. TextsArePublished'
    BY <2>1, <1>2, <1>3, <1>6 DEF MqttInv, TextsArePublished, Topics
  <2>4. QED
    BY <2>1, <2>2, <2>3, <1>1 DEF MqttInv, Passed, Working
<1>7. QED
  BY <1>4, <1>5, <1>6

LEMMA MqttStep ==
  ASSUME MqttInv, [MqttNext]_mqttVars
  PROVE  MqttInv'
<1> USE DEF device, maintenanceVars, world
<1>1. CASE UpdateFrozen
  <2>1. /\ SameTopics(retained', retained) /\ UNCHANGED <<current, link>>
        /\ Replayed /\ AfterUpdate
    BY <1>1, AnnouncedTopics DEF UpdateFrozen, MqttInv
  <2>2. QED
    BY <2>1, SessionStep
<1>2. CASE UpdateConnect
  <2>1. /\ SameTopics(retained', retained) /\ UNCHANGED current
        /\ lastPub' = Invalidated(lastPub) /\ AfterUpdate
    BY <1>2, AnnouncedTopics DEF UpdateConnect, MqttInv
  <2>2. QED
    BY <2>1, SessionStep
<1>3. CASE UpdateOffline
  <2>1. /\ SameTopics(retained', retained) /\ UNCHANGED <<current, link>>
        /\ Replayed /\ AfterUpdate
    BY <1>3 DEF UpdateOffline, SameTopics
  <2>2. QED
    BY <2>1, SessionStep
<1>4. CASE UpdateConnected
  <2>1. /\ SameTopics(retained', retained) /\ UNCHANGED <<current, link>>
        /\ Replayed /\ AfterUpdate
    BY <1>4, AnnouncedTopics DEF UpdateConnected, MqttInv
  <2>2. QED
    BY <2>1, SessionStep
<1>5. CASE KeepaliveExpires
  <2>1. /\ SameTopics(retained', retained) /\ UNCHANGED current /\ link' = "down"
        /\ Replayed /\ AfterUpdate
    BY <1>5 DEF KeepaliveExpires, SameTopics
  <2>2. QED
    BY <2>1, SessionStep
<1>6. CASE FinishEspota \/ Reboot \/ Crash
  <2>1. Restarted /\ UNCHANGED current
    BY <1>6 DEF FinishEspota, Reboot, Crash
  <2>2. SameTopics(retained', retained)
    <3>1. CASE FinishEspota
      BY <3>1, ToldTopics DEF FinishEspota, MqttInv, SessionTyped
    <3>2. CASE Reboot
      BY <3>2, AnnouncedTopics DEF Reboot, MqttInv
    <3>3. CASE Crash
      BY <3>3 DEF Crash, SameTopics
    <3>4. QED
      BY <1>6, <3>1, <3>2, <3>3
  <2>3. QED
    BY <2>1, <2>2, RestartedStep
<1>7. CASE OpenWindow
  <2>1. SameTopics(retained', retained) /\ UNCHANGED <<current, lastPub, todo, place, link, justReconnected>>
    BY <1>7, ToldTopics DEF OpenWindow, MqttInv, SessionTyped
  <2>2. QED
    BY <2>1 DEF MqttInv, SessionTyped, TextsArePublished, SameTopics
<1>8. CASE SoftRecovery
  <2>1. /\ SameTopics(retained', retained) /\ UNCHANGED <<current, lastPub, todo, place>>
        /\ (link' = "up" => justReconnected')
    BY <1>8, AnnouncedTopics DEF SoftRecovery, SameTopics, MqttInv
  <2>2. QED
    BY <2>1 DEF MqttInv, SessionTyped, TextsArePublished, SameTopics
<1>9. CASE Heartbeat
  <2>1. UNCHANGED <<current, retained, todo, place, link, justReconnected>>
    BY <1>9 DEF Heartbeat
  <2>2. DOMAIN lastPub' = Topics /\ \A t \in Texts : lastPub'[t] = Invalid
    BY <1>9 DEF Heartbeat, Topics
  <2>3. QED
    BY <2>1, <2>2 DEF MqttInv, SessionTyped, TextsArePublished
<1>10. CASE \E t \in Topics : Change(t)
  <2>1. UNCHANGED <<lastPub, retained, todo, place, link, justReconnected>>
    BY <1>10 DEF Change
  <2>2. PICK t \in Topics : current' = [current EXCEPT ![t] = 1 - @]
    BY <1>10 DEF Change
  <2>3. current[t] \in 0..1
    BY <2>2 DEF MqttInv, SessionTyped
  <2>4. current' \in [Topics -> 0..1]
    BY <2>2, <2>3 DEF MqttInv, SessionTyped
  <2>5. QED
    BY <2>1, <2>4 DEF MqttInv, SessionTyped, TextsArePublished
<1>11. CASE BrokerRestarts
  <2>1. UNCHANGED <<current, lastPub, todo, place, justReconnected>> /\ retained' = EmptyBroker
        /\ link' # "up"
    BY <1>11 DEF BrokerRestarts
  <2>2. /\ DOMAIN EmptyBroker = {"topic", "operation", "maintenance", "entities"}
        /\ DOMAIN EmptyBroker.topic = Topics
    BY DEF EmptyBroker
  <2>3. QED
    BY <2>1, <2>2 DEF MqttInv, SessionTyped, TextsArePublished
<1>12. CASE Break \/ LowMemory
  <2>1. /\ UNCHANGED <<current, lastPub, retained, justReconnected>>
        /\ (link' = "up" => link = "up")
        /\ (UNCHANGED <<todo, place>> \/ (todo' = <<>> /\ place' = "start"))
    BY <1>12 DEF Break, LowMemory
  <2>2. QED
    BY <2>1 DEF MqttInv, SessionTyped, TextsArePublished
<1>13. CASE \/ \E operation \in Operations : Claim(operation)
            \/ AskRestart \/ CallOff \/ RestoreServices \/ BrokerReturns
            \/ UNCHANGED mqttVars
  <2>1. UNCHANGED <<current, lastPub, retained, todo, place, link, justReconnected>>
    BY <1>13 DEF Claim, AskRestart, CallOff, RestoreServices, BrokerReturns, mqttVars
  <2>2. QED
    BY <2>1 DEF MqttInv, SessionTyped, TextsArePublished
<1>14. CASE LookAt
  BY <1>14, LookStep
<1>15. QED
  BY <1>1, <1>2, <1>3, <1>4, <1>5, <1>6, <1>7, <1>8, <1>9, <1>10, <1>11, <1>12, <1>13, <1>14
     DEF MqttNext, Loop, World

(* Only a look takes the first topic off the list.                         *)
LEMMA PassedByLook ==
  ASSUME MqttInv, [MqttNext]_mqttVars, NEW t \in Texts, Passed(t)
  PROVE  LookAt
<1>1. todo = Order /\ todo' = <<"tamper", "fusion">> /\ place = "publish"
  <2>1. /\ place = "publish" /\ Head(todo) = "presence" /\ todo' = Tail(todo)
        /\ todo \in {Order, <<"tamper", "fusion">>, <<"fusion">>}
    BY DEF MqttInv, SessionTyped, Passed, Texts
  <2>2. /\ Head(<<"tamper", "fusion">>) # "presence" /\ Head(<<"fusion">>) # "presence"
        /\ Tail(Order) = <<"tamper", "fusion">>
    BY DEF Order
  <2>3. QED
    BY <2>1, <2>2
<1>2. Order # <<"tamper", "fusion">> /\ <<"tamper", "fusion">> # <<>>
  BY DEF Order
<1>3. ~UNCHANGED todo /\ todo' # <<>> /\ place # "start"
  BY <1>1, <1>2
<1>4. QED
  BY <1>3 DEF MqttNext, Loop, World, OpenWindow, FinishEspota, UpdateFrozen, UpdateConnect,
     UpdateOffline, UpdateConnected, KeepaliveExpires, Change, Claim, AskRestart, Reboot,
     CallOff, RestoreServices, Heartbeat, SoftRecovery, Break, BrokerRestarts,
     BrokerReturns, LowMemory, Crash, Restarted, device, mqttVars

(* Whatever connections and the broker do: over a working one, a text that *)
(* the replay names is right at the broker once loop() has looked at it.   *)
THEOREM TextsReachTheBroker == MqttSpec => TextsAreReplayed
<1>1. MqttInit => MqttInv
  <2> SUFFICES ASSUME MqttInit PROVE MqttInv
    OBVIOUS
  <2>1. SessionTyped
    BY DEF MqttInit, SessionTyped, NeverPublished, EmptyBroker
  <2>2. TextsArePublished
    BY DEF MqttInit, TextsArePublished
  <2>3. QED
    BY <2>1, <2>2 DEF MqttInv
<1>2. MqttInv /\ [MqttNext]_mqttVars => MqttInv'
  BY MqttStep
<1>3. MqttInv /\ [MqttNext]_mqttVars =>
        [\A t \in Texts : Passed(t) /\ Working => retained'.topic[t] = current[t]]_mqttVars
  BY PassedByLook, LookStep
<1>4. QED
  BY <1>1, <1>2, <1>3, PTL DEF MqttSpec, TextsAreReplayed
=============================================================================
