------------------------ MODULE AlarmFSMClass_proofs ------------------------
(***************************************************************************)
(* Lemmas about the methods of include/services/AlarmFSM.h, for the proofs *)
(* about the modules that call them.                                       *)
(***************************************************************************)
EXTENDS AlarmFSMClass, TLAPS

-----------------------------------------------------------------------------
(* Arithmetic of the wrapping counter.                                     *)

Later(t, d) == IF t + d < Wrap THEN t + d ELSE t + d - Wrap

(* A difference of two instants is an instant, and zero for equal ones. *)
LEMMA ElapsedType ==
  ASSUME NEW t \in Instants, NEW start \in Instants
  PROVE  /\ Elapsed(t, start) \in Instants
         /\ Elapsed(t, t) = 0
  BY ClockAssumption DEF Elapsed, Instants

(* Advancing the counter by d advances the difference by d, modulo Wrap. *)
LEMMA ElapsedAdvances ==
  ASSUME NEW t \in Instants, NEW start \in Instants, NEW d \in 1..MaxGap
  PROVE  /\ Later(t, d) \in Instants
         /\ Elapsed(Later(t, d), start) = Later(Elapsed(t, start), d)
  BY ClockAssumption DEF Elapsed, Instants, Later

-----------------------------------------------------------------------------
(* No method takes the object out of its type: arm(), disarm(), tick(),    *)
(* reportMotion().                                                         *)
LEMMA MethodTypes ==
  ASSUME NEW f \in FSMType, NEW c \in ConfigType, NEW t \in Instants,
         NEW immediate \in BOOLEAN, NEW qualifies \in BOOLEAN,
         NEW behavior \in Behaviors
  PROVE  /\ InitialFSM \in FSMType
         /\ ArmFSM(f, immediate, t) \in FSMType
         /\ DisarmFSM(f) \in FSMType
         /\ TickFSM(f, c, t) \in FSMType
         /\ MotionFSM(f, c, qualifies, behavior, t) \in FSMType
<1>1. InitialFSM \in FSMType
  BY ClockAssumption, ConfigAssumption DEF InitialFSM, FSMType, States, Instants
<1>z. 0 \in 0..CountMax
  BY ConfigAssumption
<1>2. ArmFSM(f, immediate, t) \in FSMType
  <2>1. CASE ArmResult(f, immediate) = "ARMED_IMMEDIATE"
    BY <1>z, <2>1 DEF ArmFSM, FSMType, States
  <2>2. CASE ArmResult(f, immediate) = "ARMING_STARTED"
    BY <1>z, <2>2 DEF ArmFSM, FSMType, States
  <2>3. CASE ArmResult(f, immediate) \notin {"ARMED_IMMEDIATE", "ARMING_STARTED"}
    BY <2>3 DEF ArmFSM
  <2>4. QED
    BY <2>1, <2>2, <2>3
<1>3. DisarmFSM(f) \in FSMType
  BY <1>1 DEF DisarmFSM
<1>4. TickFSM(f, c, t) \in FSMType
  BY DEF TickFSM, FSMType, States
<1>5. MotionFSM(f, c, qualifies, behavior, t) \in FSMType
  <2> DEFINE ev == MotionEvent(f, c, qualifies, behavior)
             n == IF qualifies /\ ~Confirmed(f, c, qualifies)
                  THEN CountedFrames(f) ELSE 0
  <2>1. n \in 0..CountMax
    BY ConfigAssumption DEF CountedFrames, FSMType
  <2>2. CASE f.state # "ARMED"
    BY <2>2 DEF MotionFSM
  <2>3. CASE f.state = "ARMED" /\ ev = "TRIGGERED_IMMEDIATE"
    BY <1>z, <2>3 DEF MotionFSM, FSMType, States
  <2>4. CASE f.state = "ARMED" /\ ev = "PENDING_STARTED"
    BY <1>z, <2>4 DEF MotionFSM, FSMType, States
  <2>5. CASE f.state = "ARMED" /\ ev \notin {"TRIGGERED_IMMEDIATE", "PENDING_STARTED"}
    <3>1. MotionFSM(f, c, qualifies, behavior, t) = [f EXCEPT !.debounce = n]
      BY <2>5 DEF MotionFSM
    <3>2. QED
      BY <2>1, <3>1 DEF FSMType
  <2>6. QED
    BY <2>2, <2>3, <2>4, <2>5
<1>6. QED
  BY <1>1, <1>2, <1>3, <1>4, <1>5

(* The edges of the state diagram each method may take. *)
LEMMA ArmEffect ==
  ASSUME NEW f \in FSMType, NEW immediate \in BOOLEAN, NEW t \in Instants,
         NEW g, g = ArmFSM(f, immediate, t)
  PROVE  \/ g = f
         \/ /\ f.state = "DISARMED" /\ g.debounce = 0
            /\ \/ g.state = "ARMED"
               \/ g.state = "ARMING" /\ g.exitStart = t
<1>1. CASE ArmResult(f, immediate) = "ARMED_IMMEDIATE"
  BY <1>1 DEF ArmFSM, ArmResult, FSMType, States
<1>2. CASE ArmResult(f, immediate) = "ARMING_STARTED"
  BY <1>2 DEF ArmFSM, ArmResult, FSMType, States
<1>3. CASE ArmResult(f, immediate) \notin {"ARMED_IMMEDIATE", "ARMING_STARTED"}
  BY <1>3 DEF ArmFSM
<1>4. QED
  BY <1>1, <1>2, <1>3

(* tick() takes at most one edge, each with the waiting time it compares.  *)
LEMMA TickEffect ==
  ASSUME NEW f \in FSMType, NEW c \in ConfigType, NEW t \in Instants,
         NEW g, g = TickFSM(f, c, t)
  PROVE  \/ /\ g = f
            /\ f.state = "ARMING" => ~(Elapsed(t, f.exitStart) >= c.exitDelay)
            /\ f.state = "PENDING" => ~(Elapsed(t, f.entryStart) >= c.entryDelay)
         \/ /\ f.state = "ARMING" /\ Elapsed(t, f.exitStart) >= c.exitDelay
            /\ g.state = "ARMED" /\ g.debounce = f.debounce
         \/ /\ f.state = "PENDING" /\ Elapsed(t, f.entryStart) >= c.entryDelay
            /\ g.state = "TRIGGERED" /\ g.debounce = f.debounce
            /\ g.triggerStart = t
         \/ /\ f.state = "TRIGGERED" /\ c.triggerTimeout > 0
            /\ Elapsed(t, f.triggerStart) >= c.triggerTimeout
            /\ g.state = (IF c.autoRearm THEN "ARMED" ELSE "DISARMED")
            /\ g.debounce = f.debounce
<1> DEFINE e == TickEvent(f, c, t)
<1>1. CASE f.state = "ARMING" /\ Elapsed(t, f.exitStart) >= c.exitDelay
  <2>1. e = "EXIT_DELAY_DONE"
    BY <1>1 DEF TickEvent
  <2>2. QED
    BY <1>1, <2>1 DEF TickFSM, FSMType
<1>2. CASE /\ f.state = "TRIGGERED" /\ c.triggerTimeout > 0
           /\ Elapsed(t, f.triggerStart) >= c.triggerTimeout
  <2>1. e = IF c.autoRearm THEN "AUTO_REARMED" ELSE "AUTO_DISARMED"
    BY <1>2 DEF TickEvent
  <2>2. c.autoRearm \in BOOLEAN
    BY DEF ConfigType
  <2>3. QED
    BY <1>2, <2>1, <2>2 DEF TickFSM, FSMType
<1>3. CASE f.state = "PENDING" /\ Elapsed(t, f.entryStart) >= c.entryDelay
  <2>1. e = "ENTRY_EXPIRED_TRIGGERED"
    BY <1>3 DEF TickEvent
  <2>2. QED
    BY <1>3, <2>1 DEF TickFSM, FSMType
<1>4. CASE /\ ~(f.state = "ARMING" /\ Elapsed(t, f.exitStart) >= c.exitDelay)
           /\ ~(/\ f.state = "TRIGGERED" /\ c.triggerTimeout > 0
                /\ Elapsed(t, f.triggerStart) >= c.triggerTimeout)
           /\ ~(f.state = "PENDING" /\ Elapsed(t, f.entryStart) >= c.entryDelay)
  <2>1. e = "NONE"
    BY <1>4 DEF TickEvent
  <2>2. QED
    BY <1>4, <2>1 DEF TickFSM
<1>5. QED
  BY <1>1, <1>2, <1>3, <1>4

(* reportMotion() leaves ARMED only with its debounce satisfied, and       *)
(* counts at most one frame.                                               *)
LEMMA MotionEffect ==
  ASSUME NEW f \in FSMType, NEW c \in ConfigType, NEW t \in Instants,
         NEW qualifies \in BOOLEAN, NEW behavior \in Behaviors,
         f.debounce < CountMax,
         NEW g, g = MotionFSM(f, c, qualifies, behavior, t)
  PROVE  /\ g.debounce < CountMax
         /\ \/ g = f
            \/ /\ f.state = "ARMED" /\ g.state = "ARMED"
               /\ g.debounce \in {0, f.debounce + 1}
            \/ /\ f.state = "ARMED" /\ g.debounce = 0
               /\ f.debounce + 1 >= c.debounceFrames
               /\ \/ g.state = "TRIGGERED" /\ g.triggerStart = t
                  \/ g.state = "PENDING" /\ g.entryStart = t
<1> DEFINE ev == MotionEvent(f, c, qualifies, behavior)
           n == IF qualifies /\ ~Confirmed(f, c, qualifies)
                THEN CountedFrames(f) ELSE 0
<1>1. CountedFrames(f) = f.debounce + 1
  BY DEF CountedFrames
<1>2. /\ f.debounce \in Nat /\ c.debounceFrames \in 0..CountMax
      /\ RequiredFrames(c) <= CountMax /\ c.debounceFrames <= RequiredFrames(c)
  BY ConfigAssumption DEF FSMType, ConfigType, RequiredFrames
<1>3. f.state = "ARMED" => n < CountMax /\ n \in {0, f.debounce + 1}
  BY <1>1, <1>2, ConfigAssumption DEF Confirmed, RequiredFrames, ConfigType
<1>4. ev \in {"TRIGGERED_IMMEDIATE", "PENDING_STARTED"}
        => f.debounce + 1 >= c.debounceFrames
  BY <1>1, <1>2 DEF MotionEvent, Confirmed, RequiredFrames
<1>5. CASE f.state # "ARMED"
  BY <1>5 DEF MotionFSM
<1>6. CASE f.state = "ARMED" /\ ev = "TRIGGERED_IMMEDIATE"
  <2>1. g = [f EXCEPT !.state = "TRIGGERED", !.triggerStart = t, !.debounce = 0]
    BY <1>6 DEF MotionFSM
  <2>2. g.state = "TRIGGERED" /\ g.triggerStart = t /\ g.debounce = 0
    BY <2>1 DEF FSMType
  <2>3. QED
    BY <1>4, <1>6, <2>2, ConfigAssumption
<1>7. CASE f.state = "ARMED" /\ ev = "PENDING_STARTED"
  <2>1. g = [f EXCEPT !.state = "PENDING", !.entryStart = t, !.debounce = 0]
    BY <1>7 DEF MotionFSM
  <2>2. g.state = "PENDING" /\ g.entryStart = t /\ g.debounce = 0
    BY <2>1 DEF FSMType
  <2>3. QED
    BY <1>4, <1>7, <2>2, ConfigAssumption
<1>8. CASE f.state = "ARMED" /\ ev \notin {"TRIGGERED_IMMEDIATE", "PENDING_STARTED"}
  <2>1. g = [f EXCEPT !.debounce = n]
    BY <1>8 DEF MotionFSM
  <2>2. QED
    BY <1>3, <1>8, <2>1 DEF FSMType
<1>9. QED
  BY <1>5, <1>6, <1>7, <1>8

-----------------------------------------------------------------------------
(* What the callers are told: each result stands for one kind of edge.     *)

(* arm(): the three results of the switch. *)
LEMMA ArmResults ==
  ASSUME NEW f \in FSMType, NEW immediate \in BOOLEAN, NEW t \in Instants,
         NEW r, r = ArmResult(f, immediate),
         NEW g, g = ArmFSM(f, immediate, t)
  PROVE  \/ r = "REJECTED" /\ f.state \in {"PENDING", "TRIGGERED"} /\ g = f
         \/ r = "IDEMPOTENT" /\ f.state \in {"ARMING", "ARMED"} /\ g = f
         \/ /\ r \in {"ARMED_IMMEDIATE", "ARMING_STARTED"}
            /\ f.state = "DISARMED" /\ g.state \in {"ARMING", "ARMED"}
<1>1. f.state \in States
  BY DEF FSMType
<1>2. CASE f.state \in {"PENDING", "TRIGGERED"}
  BY <1>2 DEF ArmResult, ArmFSM
<1>3. CASE f.state \in {"ARMING", "ARMED"}
  BY <1>3 DEF ArmResult, ArmFSM
<1>4. CASE f.state = "DISARMED"
  <2>1. CASE immediate
    BY <1>4, <2>1 DEF ArmResult, ArmFSM, FSMType
  <2>2. CASE ~immediate
    BY <1>4, <2>2 DEF ArmResult, ArmFSM, FSMType
  <2>3. QED
    BY <2>1, <2>2
<1>5. QED
  BY <1>1, <1>2, <1>3, <1>4 DEF States

(* tick(): the event names the edge. *)
LEMMA TickEvents ==
  ASSUME NEW f \in FSMType, NEW c \in ConfigType, NEW t \in Instants,
         NEW e, e = TickEvent(f, c, t),
         NEW g, g = TickFSM(f, c, t)
  PROVE  \/ e = "NONE" /\ g = f
         \/ e = "EXIT_DELAY_DONE" /\ f.state = "ARMING" /\ g.state = "ARMED"
         \/ /\ e = "AUTO_REARMED" /\ c.autoRearm
            /\ f.state = "TRIGGERED" /\ g.state = "ARMED"
         \/ /\ e = "AUTO_DISARMED" /\ ~c.autoRearm
            /\ f.state = "TRIGGERED" /\ g.state = "DISARMED"
         \/ /\ e = "ENTRY_EXPIRED_TRIGGERED"
            /\ f.state = "PENDING" /\ g.state = "TRIGGERED"
<1>1. CASE f.state = "ARMING" /\ Elapsed(t, f.exitStart) >= c.exitDelay
  <2>1. e = "EXIT_DELAY_DONE"
    BY <1>1 DEF TickEvent
  <2>2. QED
    BY <1>1, <2>1 DEF TickFSM, FSMType
<1>2. CASE /\ f.state = "TRIGGERED" /\ c.triggerTimeout > 0
           /\ Elapsed(t, f.triggerStart) >= c.triggerTimeout
  <2>1. e = IF c.autoRearm THEN "AUTO_REARMED" ELSE "AUTO_DISARMED"
    BY <1>2 DEF TickEvent
  <2>2. CASE c.autoRearm
    BY <1>2, <2>1, <2>2 DEF TickFSM, FSMType
  <2>3. CASE ~c.autoRearm
    BY <1>2, <2>1, <2>3 DEF TickFSM, FSMType
  <2>4. QED
    BY <2>2, <2>3
<1>3. CASE f.state = "PENDING" /\ Elapsed(t, f.entryStart) >= c.entryDelay
  <2>1. e = "ENTRY_EXPIRED_TRIGGERED"
    BY <1>3 DEF TickEvent
  <2>2. QED
    BY <1>3, <2>1 DEF TickFSM, FSMType
<1>4. CASE /\ ~(f.state = "ARMING" /\ Elapsed(t, f.exitStart) >= c.exitDelay)
           /\ ~(/\ f.state = "TRIGGERED" /\ c.triggerTimeout > 0
                /\ Elapsed(t, f.triggerStart) >= c.triggerTimeout)
           /\ ~(f.state = "PENDING" /\ Elapsed(t, f.entryStart) >= c.entryDelay)
  <2>1. e = "NONE"
    BY <1>4 DEF TickEvent
  <2>2. QED
    BY <1>4, <2>1 DEF TickFSM
<1>5. QED
  BY <1>1, <1>2, <1>3, <1>4

(* reportMotion(): the event names the edge. *)
LEMMA MotionEvents ==
  ASSUME NEW f \in FSMType, NEW c \in ConfigType, NEW t \in Instants,
         NEW qualifies \in BOOLEAN, NEW behavior \in Behaviors,
         NEW e, e = MotionEvent(f, c, qualifies, behavior),
         NEW g, g = MotionFSM(f, c, qualifies, behavior, t)
  PROVE  \/ e \in {"NONE", "IGNORED"} /\ g.state = f.state
         \/ /\ e = "PENDING_STARTED"
            /\ f.state = "ARMED" /\ g.state = "PENDING"
         \/ /\ e = "TRIGGERED_IMMEDIATE"
            /\ f.state = "ARMED" /\ g.state = "TRIGGERED"
<1>1. CASE ~Confirmed(f, c, qualifies)
  <2>1. e = "NONE"
    BY <1>1 DEF MotionEvent
  <2>2. QED
    BY <2>1 DEF MotionFSM, FSMType
<1>2. CASE Confirmed(f, c, qualifies)
  <2>1. f.state = "ARMED"
    BY <1>2 DEF Confirmed
  <2>2. CASE behavior = 2
    <3>1. e = "IGNORED"
      BY <1>2, <2>2 DEF MotionEvent
    <3>2. QED
      BY <2>1, <3>1 DEF MotionFSM, FSMType
  <2>3. CASE behavior = 1
    <3>1. e = "TRIGGERED_IMMEDIATE"
      BY <1>2, <2>3 DEF MotionEvent
    <3>2. QED
      BY <2>1, <3>1 DEF MotionFSM, FSMType
  <2>4. CASE behavior \notin {1, 2}
    <3>1. e = "PENDING_STARTED"
      BY <1>2, <2>4 DEF MotionEvent
    <3>2. QED
      BY <2>1, <3>1 DEF MotionFSM, FSMType
  <2>5. QED
    BY <2>2, <2>3, <2>4
<1>3. QED
  BY <1>1, <1>2
=============================================================================
