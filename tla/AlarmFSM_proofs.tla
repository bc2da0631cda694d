--------------------------- MODULE AlarmFSM_proofs ---------------------------
(***************************************************************************)
(* Proofs about AlarmFSM for every counter width, every set of settings    *)
(* and every loop period that ClockAssumption allows.                      *)
(***************************************************************************)
EXTENDS AlarmFSM, AlarmFSMClass_proofs

(* The inductive invariant.  DelaysEnd carries the induction: it keeps the *)
(* true waiting time below Wrap, the only range in which the difference of *)
(* two time stamps determines it.                                          *)
Inv ==
  /\ TypeOK
  /\ TimersTellTheTruth
  /\ DelaysEnd
  /\ EvidenceIsOfThisGuard
  /\ fsm.debounce < CountMax   \* so "if (_debounceCount < 255)" never bites

-----------------------------------------------------------------------------
(* The object as constructed. *)
LEMMA InitInv == Init => Inv
<1> SUFFICES ASSUME Init PROVE Inv
  OBVIOUS
<1>1. TypeOK
  BY ClockAssumption, ConfigAssumption
  DEF Init, TypeOK, InitialFSM, FSMType, States, Instants
<1>2. fsm.state = "DISARMED" /\ fsm.debounce = 0 /\ 0 < CountMax
  BY ConfigAssumption DEF Init, InitialFSM
<1>3. QED
  BY <1>1, <1>2 DEF Inv, TimersTellTheTruth, DelaysEnd, EvidenceIsOfThisGuard

(* What the hypotheses of the induction say of the present state. *)
LEMMA InvFacts ==
  ASSUME Inv
  PROVE  /\ fsm \in FSMType /\ fsm.debounce \in Nat /\ fsm.state \in States
         /\ cfg \in Configs /\ cfg \in ConfigType
         /\ cfg.exitDelay \in 0..MaxDelay /\ cfg.entryDelay \in 0..MaxDelay
         /\ cfg.triggerTimeout \in 0..MaxDelay /\ cfg.autoRearm \in BOOLEAN
         /\ cfg.debounceFrames \in 0..CountMax
         /\ now \in Instants /\ since \in Nat /\ gap \in Nat
         /\ Elapsed(now, fsm.exitStart) \in Nat
         /\ Elapsed(now, fsm.entryStart) \in Nat
         /\ Elapsed(now, fsm.triggerStart) \in Nat
         /\ MaxDelay \in Nat /\ MaxGap \in Nat /\ Wrap \in Nat /\ CountMax \in Nat
<1>1. /\ fsm \in FSMType /\ cfg \in Configs /\ cfg \in ConfigType
      /\ now \in Instants /\ since \in Nat /\ gap \in Nat
  BY ClockAssumption, ConfigAssumption DEF Inv, TypeOK
<1>2. /\ fsm.exitStart \in Instants /\ fsm.entryStart \in Instants
      /\ fsm.triggerStart \in Instants /\ fsm.debounce \in Nat
      /\ fsm.state \in States
  BY <1>1, ConfigAssumption DEF FSMType
<1>3. /\ cfg.exitDelay \in 0..MaxDelay /\ cfg.entryDelay \in 0..MaxDelay
      /\ cfg.triggerTimeout \in 0..MaxDelay /\ cfg.autoRearm \in BOOLEAN
      /\ cfg.debounceFrames \in 0..CountMax
  BY <1>1 DEF ConfigType
<1>4. Instants \subseteq Nat
  BY ClockAssumption DEF Instants
<1>5. QED
  BY <1>1, <1>2, <1>3, <1>4, ElapsedType, ClockAssumption, ConfigAssumption

(* arm() starts the exit delay at the present instant. *)
LEMMA ArmInv == Inv /\ Arm => Inv'
<1> SUFFICES ASSUME Inv, NEW immediate \in BOOLEAN,
                    fsm' = ArmFSM(fsm, immediate, now), Age,
                    UNCHANGED <<cfg, now, gap>>
             PROVE  Inv'
  BY DEF Arm
<1>1. fsm' \in FSMType
  BY InvFacts, MethodTypes DEF Behaviors
<1>2. TypeOK'
  BY <1>1, ClockAssumption DEF Inv, TypeOK, Age
<1>3. CASE fsm' = fsm
  BY <1>2, <1>3 DEF Inv, Age, TimersTellTheTruth, DelaysEnd, EvidenceIsOfThisGuard
<1>4. CASE /\ fsm.state = "DISARMED" /\ fsm'.debounce = 0
           /\ \/ fsm'.state = "ARMED"
              \/ fsm'.state = "ARMING" /\ fsm'.exitStart = now
  <2>1. since' = 0 /\ fsm'.debounce < CountMax /\ Elapsed(now, now) = 0
    BY <1>4, InvFacts, ElapsedType, ConfigAssumption DEF Age
  <2>2. TimersTellTheTruth' /\ DelaysEnd' /\ EvidenceIsOfThisGuard'
    BY <1>4, <2>1, InvFacts DEF TimersTellTheTruth, DelaysEnd,
       EvidenceIsOfThisGuard, Elapsed
  <2>3. QED
    BY <1>2, <2>1, <2>2 DEF Inv
<1>5. QED
  BY <1>3, <1>4, ArmEffect, InvFacts

(* disarm() leaves nothing behind. *)
LEMMA DisarmInv == Inv /\ Disarm => Inv'
<1> SUFFICES ASSUME Inv, Disarm PROVE Inv'
  OBVIOUS
<1>1. fsm' = InitialFSM /\ fsm' \in FSMType
  BY InvFacts, MethodTypes DEF Disarm, DisarmFSM, Behaviors
<1>2. TypeOK'
  BY <1>1, ClockAssumption DEF Inv, TypeOK, Disarm, Age
<1>3. fsm'.state = "DISARMED" /\ fsm'.debounce = 0 /\ 0 < CountMax
  BY <1>1, ConfigAssumption DEF InitialFSM
<1>4. QED
  BY <1>2, <1>3 DEF Inv, TimersTellTheTruth, DelaysEnd, EvidenceIsOfThisGuard

(* tick() starts a timer or ends one, and closes the gap. *)
LEMMA TickInv == Inv /\ Tick => Inv'
<1> SUFFICES ASSUME Inv, Tick PROVE Inv'
  OBVIOUS
<1>0. 0 \in Behaviors /\ TRUE \in BOOLEAN
  BY DEF Behaviors
<1>1. fsm' \in FSMType
  <2>1. TickFSM(fsm, cfg, now) \in FSMType
    BY <1>0, InvFacts, MethodTypes
  <2>2. QED
    BY <2>1 DEF Tick
<1>2. TypeOK'
  BY <1>1, ClockAssumption DEF Inv, TypeOK, Tick, Age
<1>3. now' = now /\ gap' = 0 /\ fsm' = TickFSM(fsm, cfg, now)
  BY DEF Tick
<1>4. CASE /\ fsm' = fsm
           /\ fsm.state = "ARMING" => ~(Elapsed(now, fsm.exitStart) >= cfg.exitDelay)
           /\ fsm.state = "PENDING" => ~(Elapsed(now, fsm.entryStart) >= cfg.entryDelay)
  <2>1. since' = since
    BY <1>4 DEF Tick, Age
  <2>2. TimersTellTheTruth' /\ EvidenceIsOfThisGuard'
    BY <1>3, <1>4, <2>1 DEF Inv, TimersTellTheTruth, EvidenceIsOfThisGuard
  <2>3. fsm.state \in {"ARMING", "PENDING"} => since <= MaxDelay
    BY <1>4, InvFacts DEF Inv, TimersTellTheTruth
  <2>4. DelaysEnd'
    BY <1>3, <1>4, <2>1, <2>3, InvFacts DEF DelaysEnd
  <2>5. QED
    BY <1>2, <1>4, <2>2, <2>4 DEF Inv
<1>5. CASE /\ fsm'.state \in {"ARMED", "DISARMED"} /\ fsm'.debounce = fsm.debounce
           /\ fsm.state # "ARMED"
  <2>1. fsm'.debounce = 0
    BY <1>5, InvFacts DEF Inv, EvidenceIsOfThisGuard
  <2>2. QED
    BY <1>2, <1>5, <2>1, ConfigAssumption
    DEF Inv, TimersTellTheTruth, DelaysEnd, EvidenceIsOfThisGuard
<1>6. CASE /\ fsm.state = "PENDING" /\ fsm'.state = "TRIGGERED"
           /\ fsm'.debounce = fsm.debounce /\ fsm'.triggerStart = now
  <2>1. fsm'.debounce = 0 /\ since' = 0 /\ Elapsed(now, now) = 0
    BY <1>6, InvFacts, ElapsedType DEF Inv, EvidenceIsOfThisGuard, Tick, Age
  <2>2. TimersTellTheTruth'
    BY <1>3, <1>6, <2>1 DEF TimersTellTheTruth, Elapsed
  <2>3. QED
    BY <1>2, <1>6, <2>1, <2>2, ConfigAssumption
    DEF Inv, DelaysEnd, EvidenceIsOfThisGuard
<1>7. QED
  BY <1>3, <1>4, <1>5, <1>6, TickEffect, InvFacts

(* reportMotion() starts the entry delay at the present instant. *)
LEMMA ReportMotionInv == Inv /\ ReportMotion => Inv'
<1> SUFFICES ASSUME Inv, NEW qualifies \in BOOLEAN, NEW behavior \in Behaviors,
                    fsm' = MotionFSM(fsm, cfg, qualifies, behavior, now), Age,
                    UNCHANGED <<cfg, now, gap>>
             PROVE  Inv'
  BY DEF ReportMotion
<1>1. fsm' \in FSMType
  BY InvFacts, MethodTypes
<1>2. TypeOK'
  BY <1>1, ClockAssumption DEF Inv, TypeOK, Age
<1>3. fsm.debounce < CountMax
  BY DEF Inv
<1>4. CASE fsm' = fsm
  BY <1>2, <1>4 DEF Inv, Age, TimersTellTheTruth, DelaysEnd, EvidenceIsOfThisGuard
<1>5. CASE fsm'.state = "ARMED" /\ fsm'.debounce < CountMax
  BY <1>2, <1>5 DEF Inv, TimersTellTheTruth, DelaysEnd, EvidenceIsOfThisGuard
<1>6. CASE /\ fsm.state = "ARMED" /\ fsm'.debounce = 0 /\ fsm'.debounce < CountMax
           /\ \/ fsm'.state = "TRIGGERED" /\ fsm'.triggerStart = now
              \/ fsm'.state = "PENDING" /\ fsm'.entryStart = now
  <2>1. since' = 0 /\ Elapsed(now, now) = 0
    BY <1>6, InvFacts, ElapsedType DEF Age
  <2>2. TimersTellTheTruth' /\ DelaysEnd' /\ EvidenceIsOfThisGuard'
    BY <1>6, <2>1, InvFacts DEF TimersTellTheTruth, DelaysEnd,
       EvidenceIsOfThisGuard, Elapsed
  <2>3. QED
    BY <1>2, <1>6, <2>2 DEF Inv
<1>7. QED
  BY <1>3, <1>4, <1>5, <1>6, MotionEffect, InvFacts

(* A change of settings moves no timer. *)
LEMMA ReconfigureInv == Inv /\ Reconfigure => Inv'
BY DEF Reconfigure, Inv, TypeOK, TimersTellTheTruth, DelaysEnd,
   EvidenceIsOfThisGuard, Elapsed

(* The counter and the true time advance together, across a wrap. *)
LEMMA TimePassesInv == Inv /\ TimePasses => Inv'
<1> SUFFICES ASSUME Inv, NEW d \in 1..MaxGap, gap + d <= MaxGap, gap' = gap + d,
                    now' = Later(now, d),
                    since' = IF since + d < Wrap THEN since + d ELSE Wrap,
                    UNCHANGED <<fsm, cfg>>
             PROVE  Inv'
  BY DEF TimePasses, Later
<1>1. TypeOK'
  <2>1. now' \in Instants
    BY InvFacts, ElapsedAdvances
  <2>2. since' \in 0..Wrap /\ gap' \in 0..MaxGap
    BY InvFacts
  <2>3. QED
    BY <2>1, <2>2 DEF Inv, TypeOK
<1>2. CASE fsm.state \in {"ARMING", "PENDING"}
  <2> DEFINE start == IF fsm.state = "ARMING" THEN fsm.exitStart ELSE fsm.entryStart
  <2>1. start \in Instants /\ Elapsed(now, start) = since
    BY <1>2, InvFacts DEF Inv, TimersTellTheTruth, FSMType
  <2>2. since + d <= MaxDelay + gap + d /\ since + d < Wrap
    BY <1>2, InvFacts, ClockAssumption DEF Inv, DelaysEnd
  <2>3. since' = since + d /\ DelaysEnd'
    BY <2>2, InvFacts DEF DelaysEnd
  <2>4. Elapsed(now', start) = since'
    BY <2>1, <2>2, <2>3, InvFacts, ElapsedAdvances DEF Later
  <2>5. TimersTellTheTruth'
    BY <1>2, <2>4 DEF TimersTellTheTruth, Elapsed
  <2>6. QED
    BY <1>1, <2>3, <2>5 DEF Inv, EvidenceIsOfThisGuard
<1>3. CASE fsm.state = "TRIGGERED"
  <2>1. /\ fsm.triggerStart \in Instants
        /\ Elapsed(now, fsm.triggerStart) <= since
        /\ Elapsed(now, fsm.triggerStart) \in Instants
    BY <1>3, InvFacts, ElapsedType DEF Inv, TimersTellTheTruth, FSMType
  <2>2. Elapsed(now', fsm.triggerStart) = Later(Elapsed(now, fsm.triggerStart), d)
    BY <2>1, InvFacts, ElapsedAdvances
  <2>3. Later(Elapsed(now, fsm.triggerStart), d) <= since'
    BY <2>1, InvFacts, ClockAssumption DEF Later, Instants
  <2>4. TimersTellTheTruth' /\ DelaysEnd'
    BY <1>3, <2>2, <2>3 DEF TimersTellTheTruth, DelaysEnd, Elapsed
  <2>5. QED
    BY <1>1, <2>4 DEF Inv, EvidenceIsOfThisGuard
<1>4. CASE fsm.state \notin {"ARMING", "PENDING", "TRIGGERED"}
  BY <1>1, <1>4 DEF Inv, TimersTellTheTruth, DelaysEnd, EvidenceIsOfThisGuard
<1>5. QED
  BY <1>2, <1>3, <1>4

(* Every step preserves the invariant. *)
LEMMA StepInv == Inv /\ [Next]_vars => Inv'
<1>1. Inv /\ UNCHANGED vars => Inv'
  BY DEF vars, Inv, TypeOK, TimersTellTheTruth, DelaysEnd,
     EvidenceIsOfThisGuard, Elapsed
<1>2. QED
  BY <1>1, ArmInv, DisarmInv, TickInv, ReportMotionInv, ReconfigureInv,
     TimePassesInv DEF Next

(* The conjunction of everything claimed of AlarmFSM.h is inductive. *)
THEOREM Invariance == Spec => []Inv
BY InitInv, StepInv, PTL DEF Spec

-----------------------------------------------------------------------------
(* What the runs of AlarmFSM.cfg check, for every value of the constants.  *)

(* The object, the settings and the clock stay in their types: in          *)
(* particular no time stamp and no debounce count leaves its width.        *)
THEOREM TypeCorrect == Spec => []TypeOK
<1>1. Inv => TypeOK
  BY DEF Inv
<1>2. QED
  BY <1>1, Invariance, PTL

(* tick() compares true waiting times, however often millis() has wrapped. *)
THEOREM TimersAreTrue == Spec => []TimersTellTheTruth
<1>1. Inv => TimersTellTheTruth
  BY DEF Inv
<1>2. QED
  BY <1>1, Invariance, PTL

(* No entry or exit delay outlives its setting by more than a loop period. *)
THEOREM DelaysAreBounded == Spec => []DelaysEnd
<1>1. Inv => DelaysEnd
  BY DEF Inv
<1>2. QED
  BY <1>1, Invariance, PTL

(* Motion evidence is never carried from one guard into the next. *)
THEOREM NoStaleEvidence == Spec => []EvidenceIsOfThisGuard
<1>1. Inv => EvidenceIsOfThisGuard
  BY DEF Inv
<1>2. QED
  BY <1>1, Invariance, PTL

-----------------------------------------------------------------------------
(* AlarmFSM implements AlarmTimer.  The invariant turns what the methods   *)
(* compare (time stamps) into what the promise speaks of (true time).      *)

(* The constructed object is a disarmed alarm. *)
LEMMA PromisedInit == Init => Promise!Init
BY DEF Init, InitialFSM, Promise!Init

(* arm() is the promised Arm, or changes nothing. *)
LEMMA PromisedArm == Inv /\ Arm => [Promise!Next]_Promise!vars
<1> SUFFICES ASSUME Inv, NEW immediate \in BOOLEAN,
                    fsm' = ArmFSM(fsm, immediate, now), Age,
                    UNCHANGED <<cfg, now, gap>>
             PROVE  [Promise!Next]_Promise!vars
  BY DEF Arm
<1>1. CASE fsm' = fsm
  BY <1>1 DEF Age, Promise!vars
<1>2. CASE /\ fsm.state = "DISARMED" /\ fsm'.debounce = 0
           /\ fsm'.state \in {"ARMED", "ARMING"}
  BY <1>2 DEF Age, Promise!Next, Promise!Arm, Promise!Enter
<1>3. QED
  BY <1>1, <1>2, ArmEffect, InvFacts

(* disarm() is the promised Disarm, or changes nothing. *)
LEMMA PromisedDisarm == Inv /\ Disarm => [Promise!Next]_Promise!vars
<1> SUFFICES ASSUME Inv, Disarm PROVE [Promise!Next]_Promise!vars
  OBVIOUS
<1>1. fsm'.state = "DISARMED" /\ fsm'.debounce = 0 /\ UNCHANGED cfg
  BY DEF Disarm, DisarmFSM, InitialFSM
<1>2. CASE fsm.state = "DISARMED"
  <2>1. fsm.debounce = 0
    BY <1>2, InvFacts DEF Inv, EvidenceIsOfThisGuard
  <2>2. QED
    BY <1>1, <1>2, <2>1 DEF Disarm, Age, Promise!vars
<1>3. CASE fsm.state # "DISARMED"
  BY <1>1, <1>3 DEF Disarm, Age, Promise!Next, Promise!Disarm, Promise!Enter
<1>4. QED
  BY <1>2, <1>3

(* tick() ends a delay or an alarm only when its time has come. *)
LEMMA PromisedTick == Inv /\ Tick => [Promise!Next]_Promise!vars
<1> SUFFICES ASSUME Inv, Tick PROVE [Promise!Next]_Promise!vars
  OBVIOUS
<1>1. fsm.state # "ARMED" => fsm.debounce = 0
  BY InvFacts DEF Inv, EvidenceIsOfThisGuard
<1>2. CASE fsm' = fsm
  BY <1>2 DEF Tick, Age, Promise!vars
<1>3. CASE /\ fsm.state = "ARMING" /\ Elapsed(now, fsm.exitStart) >= cfg.exitDelay
           /\ fsm'.state = "ARMED" /\ fsm'.debounce = fsm.debounce
  <2>1. since >= cfg.exitDelay
    BY <1>3 DEF Inv, TimersTellTheTruth
  <2>2. QED
    BY <1>1, <1>3, <2>1
    DEF Tick, Age, Promise!Next, Promise!ExitDelayOver, Promise!Enter
<1>4. CASE /\ fsm.state = "PENDING" /\ Elapsed(now, fsm.entryStart) >= cfg.entryDelay
           /\ fsm'.state = "TRIGGERED" /\ fsm'.debounce = fsm.debounce
  <2>1. since >= cfg.entryDelay
    BY <1>4 DEF Inv, TimersTellTheTruth
  <2>2. QED
    BY <1>1, <1>4, <2>1
    DEF Tick, Age, Promise!Next, Promise!EntryDelayOver, Promise!Enter
<1>5. CASE /\ fsm.state = "TRIGGERED" /\ cfg.triggerTimeout > 0
           /\ Elapsed(now, fsm.triggerStart) >= cfg.triggerTimeout
           /\ fsm'.state = (IF cfg.autoRearm THEN "ARMED" ELSE "DISARMED")
           /\ fsm'.debounce = fsm.debounce
  <2>1. since >= cfg.triggerTimeout
    BY <1>5, InvFacts DEF Inv, TimersTellTheTruth
  <2>2. fsm'.state # fsm.state
    BY <1>5
  <2>3. QED
    BY <1>1, <1>5, <2>1, <2>2
    DEF Tick, Age, Promise!Next, Promise!AutoSilence, Promise!Enter
<1>6. fsm' = TickFSM(fsm, cfg, now)
  BY DEF Tick
<1>7. QED
  BY <1>2, <1>3, <1>4, <1>5, <1>6, TickEffect, InvFacts

(* reportMotion() is one promised Frame. *)
LEMMA PromisedReportMotion == Inv /\ ReportMotion => [Promise!Next]_Promise!vars
<1> SUFFICES ASSUME Inv, NEW qualifies \in BOOLEAN, NEW behavior \in Behaviors,
                    fsm' = MotionFSM(fsm, cfg, qualifies, behavior, now), Age,
                    UNCHANGED <<cfg, now, gap>>
             PROVE  [Promise!Next]_Promise!vars
  BY DEF ReportMotion
<1>1. CASE fsm' = fsm
  BY <1>1 DEF Age, Promise!vars
<1>2. CASE /\ fsm.state = "ARMED" /\ fsm'.state = "ARMED"
           /\ fsm'.debounce \in {0, fsm.debounce + 1}
  BY <1>2 DEF Age, Promise!Next, Promise!Frame
<1>3. CASE /\ fsm.state = "ARMED" /\ fsm'.debounce = 0
           /\ fsm.debounce + 1 >= cfg.debounceFrames
           /\ fsm'.state \in {"TRIGGERED", "PENDING"}
  BY <1>3 DEF Age, Promise!Next, Promise!Frame, Promise!Enter
<1>4. fsm.debounce < CountMax
  BY DEF Inv
<1>5. QED
  BY <1>1, <1>2, <1>3, <1>4, MotionEffect, InvFacts

(* Every step is promised. *)
LEMMA PromisedStep == Inv /\ [Next]_vars => [Promise!Next]_Promise!vars
<1>1. Inv /\ Reconfigure => [Promise!Next]_Promise!vars
  BY DEF Reconfigure, Promise!Next, Promise!Reconfigure
<1>2. Inv /\ TimePasses => [Promise!Next]_Promise!vars
  BY DEF TimePasses, Promise!Next, Promise!TimePasses
<1>3. UNCHANGED vars => UNCHANGED Promise!vars
  BY DEF vars, Promise!vars
<1>4. QED
  BY <1>1, <1>2, <1>3, PromisedArm, PromisedDisarm, PromisedTick,
     PromisedReportMotion DEF Next

(* The firmware's 32-bit state machine implements the household's promise: *)
(* no delay cut short, no alarm without its debounce, no other edge of the *)
(* state diagram, for every width of the counter and every setting.        *)
THEOREM Implementation == Spec => KeepsThePromise
<1>1. Spec => Promise!Init
  BY PromisedInit DEF Spec
<1>2. QED
  BY <1>1, PromisedStep, Invariance, PTL DEF Spec, KeepsThePromise, Promise!Spec

=============================================================================
