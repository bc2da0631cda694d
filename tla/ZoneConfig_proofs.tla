-------------------------- MODULE ZoneConfig_proofs --------------------------
(***************************************************************************)
(* Proofs about what the device keeps in flash and works with in RAM: the  *)
(* zones (ZoneConfig), for every set of zones and every limit of the NVS   *)
(* entry, the models of CSI learning (CsiModel), for any number of         *)
(* generations, requests and faults, and the event log (EventLog), for     *)
(* rings of any size and any number of tasks that flush.                   *)
(***************************************************************************)
EXTENDS ZoneConfig, CsiModel, EventLog, FiniteSetTheorems, TLAPS

(* A list on its way is the one acknowledged last, and a list that loop()  *)
(* has saved, and NVS has taken, is the one it is about to use.            *)
OnTheWay ==
  /\ pending.update => pending.list = acked
  /\ loop = "saved" /\ ~refused => nvs = zonesJson

(* The inductive invariant. *)
Inv ==
  /\ TypeOK
  /\ OnTheWay
  /\ LatestListIsShown
  /\ RestartKeepsZones
  /\ AcceptedListGuards

-----------------------------------------------------------------------------
(* The empty list fits, so that there is one to start from. *)
LEMMA EmptyListFits == Fits({}) /\ {} \in Lists
BY FS_EmptySet, ZoneConfigAssumption DEF Fits, Lists

(* What may be queued is a list, and comes out of the queue unchanged. *)
LEMMA QueueType ==
  ASSUME NEW list \in Lists
  PROVE  /\ Queue(list) \in [update : BOOLEAN, list : Lists]
         /\ Queue(list).update /\ Queue(list).list = list
BY DEF Queue

(* The device starts empty. *)
LEMMA InitInv == Init => Inv
<1> SUFFICES ASSUME Init PROVE Inv
  OBVIOUS
<1>1. TypeOK
  BY EmptyListFits DEF Init, TypeOK, Nothing, Idle
<1>2. OnTheWay /\ LatestListIsShown /\ RestartKeepsZones /\ AcceptedListGuards
  BY DEF Init, Nothing, OnTheWay, LatestListIsShown, RestartKeepsZones,
         AcceptedListGuards
<1>3. QED
  BY <1>1, <1>2 DEF Inv

(* A web handler that queues a list, or gives up. *)
LEMMA WebStep ==
  ASSUME Inv, NEW list \in Lists,
         \/ pending' = Queue(list) /\ acked' = list
         \/ pending' = pending /\ acked' = acked,
         before' \in Lists, learn' \in [on : BOOLEAN, copy : Lists],
         UNCHANGED <<zonesJson, nvs, active, loop, refused>>
  PROVE  Inv'
<1>1. TypeOK'
  BY QueueType DEF Inv, TypeOK
<1>2. OnTheWay'
  BY QueueType DEF Inv, OnTheWay
<1>3. LatestListIsShown' /\ RestartKeepsZones' /\ AcceptedListGuards'
  BY QueueType DEF Inv, LatestListIsShown, RestartKeepsZones, AcceptedListGuards, Fits
<1>4. QED
  BY <1>1, <1>2, <1>3 DEF Inv

(* Every step preserves the invariant. *)
LEMMA StepInv == Inv /\ [Next]_vars => Inv'
<1> SUFFICES ASSUME Inv, [Next]_vars PROVE Inv'
  OBVIOUS
<1> USE DEF Inv
<1>1. CASE PostZones
  <2>1. PICK list \in SUBSET Zones :
          \/ pending' = Queue(list) /\ acked' = list /\ before' = {}
          \/ UNCHANGED <<pending, acked, before>>
    BY <1>1 DEF PostZones
  <2>2. list \in Lists /\ before' \in Lists
    BY <2>1, EmptyListFits DEF TypeOK, Lists
  <2>3. QED
    BY <1>1, <2>1, <2>2, WebStep DEF PostZones, TypeOK
<1>2. CASE LearnRead
  <2>1. learn' \in [on : BOOLEAN, copy : Lists] /\ before' \in Lists
    BY <1>2 DEF LearnRead, TypeOK
  <2>2. QED
    BY <1>2, <2>1, EmptyListFits, WebStep DEF LearnRead
<1>3. CASE LearnWrite
  <2>1. LearnedList(learn.copy) \in Lists
    BY DEF LearnedList, ToArray, Lists
  <2>2. learn' \in [on : BOOLEAN, copy : Lists] /\ before' \in Lists
    BY <1>3, EmptyListFits DEF LearnWrite, Idle, TypeOK
  <2>3. QED
    BY <1>3, <2>1, <2>2, WebStep DEF LearnWrite
<1>4. CASE TakePending
  <2>1. zonesJson' = acked /\ acked' = acked /\ zonesJson' \in Lists
    BY <1>4 DEF TakePending, OnTheWay, TypeOK
  <2>2. TypeOK'
    BY <1>4, <2>1, EmptyListFits DEF TakePending, TypeOK, Nothing, Fits
  <2>3. OnTheWay' /\ LatestListIsShown' /\ RestartKeepsZones' /\ AcceptedListGuards'
    BY <1>4, <2>1
    DEF TakePending, Nothing, OnTheWay, LatestListIsShown, RestartKeepsZones,
        AcceptedListGuards
  <2>4. QED
    BY <2>2, <2>3
<1>5. CASE SaveZonesToNVS
  <2>1. TypeOK'
    BY <1>5 DEF SaveZonesToNVS, Save, Write, Drop, TypeOK, Fits
  <2>2. OnTheWay' /\ LatestListIsShown' /\ RestartKeepsZones'
    BY <1>5
    DEF SaveZonesToNVS, Save, Write, Drop, OnTheWay, LatestListIsShown, RestartKeepsZones
  <2>3. AcceptedListGuards'
    BY <1>5
    DEF SaveZonesToNVS, Save, Write, Drop, LatestListIsShown, AcceptedListGuards, Fits
  <2>4. QED
    BY <2>1, <2>2, <2>3
<1>6. CASE UpdateZonesFromJSON
  <2>1. TypeOK'
    BY <1>6 DEF UpdateZonesFromJSON, TypeOK, Fits
  <2>2. OnTheWay' /\ LatestListIsShown' /\ RestartKeepsZones' /\ AcceptedListGuards'
    BY <1>6
    DEF UpdateZonesFromJSON, OnTheWay, LatestListIsShown, RestartKeepsZones,
        AcceptedListGuards, Fits
  <2>3. QED
    BY <2>1, <2>2
<1>7. CASE Restart
  <2>1. TypeOK'
    BY <1>7, EmptyListFits DEF Restart, TypeOK, Nothing, Idle, Fits
  <2>2. OnTheWay' /\ LatestListIsShown' /\ RestartKeepsZones' /\ AcceptedListGuards'
    BY <1>7
    DEF Restart, Nothing, OnTheWay, LatestListIsShown, RestartKeepsZones,
        AcceptedListGuards
  <2>3. QED
    BY <2>1, <2>2
<1>8. CASE UNCHANGED vars
  BY <1>8 DEF vars, TypeOK, OnTheWay, LatestListIsShown, RestartKeepsZones,
              AcceptedListGuards, Fits
<1>9. QED
  BY <1>1, <1>2, <1>3, <1>4, <1>5, <1>6, <1>7, <1>8 DEF Next

(* Whatever the routes, loop() and restarts do in whatever order: what is  *)
(* queued, shown, saved and used belongs together.                         *)
THEOREM Invariance == Spec => []Inv
BY InitInv, StepInv, PTL DEF Spec

(* Every list is one of zones, and the one in NVS fits. *)
THEOREM TypeCorrect == Spec => []TypeOK
<1>1. Inv => TypeOK
  BY DEF Inv
<1>2. QED
  BY <1>1, Invariance, PTL

(* With nothing pending, GET /api/zones shows the list accepted last. *)
THEOREM ShownIsLatest == Spec => []LatestListIsShown
<1>1. Inv => LatestListIsShown
  BY DEF Inv
<1>2. QED
  BY <1>1, Invariance, PTL

(* A restart brings back the zones that guarded the house, unless it falls *)
(* between saveZonesToNVS() and updateZonesFromJSON().                     *)
THEOREM ZonesSurvive == Spec => []RestartKeepsZones
<1>1. Inv => RestartKeepsZones
  BY DEF Inv
<1>2. QED
  BY <1>1, Invariance, PTL

(* The list accepted last guards the house when loop() is done with it, if *)
(* it fits in NVS.                                                         *)
THEOREM AcceptedIsActive == Spec => []AcceptedListGuards
<1>1. Inv => AcceptedListGuards
  BY DEF Inv
<1>2. QED
  BY <1>1, Invariance, PTL

-----------------------------------------------------------------------------
(* CsiModel: the answer of the command slot.                               *)

SlotTyped ==
  /\ DOMAIN command = {"state", "abandoned", "req", "answers"}
  /\ command.state \in {"IDLE", "PENDING", "EXECUTING", "DONE"}
  /\ DOMAIN requester = {"at", "asked", "told"}
  /\ DOMAIN worker = {"at", "req"}

(* The slot is executing while csi_proc is busy with a command, and only   *)
(* then: so it is never free for a second command meanwhile.               *)
BusyIsExecuting == command.state = "EXECUTING" <=> worker.at # "idle"

(* While the web task waits, whatever is in the slot, being executed or    *)
(* offered is its own.                                                     *)
SlotIsOfTheWaiter ==
  requester.at # "idle" =>
    /\ command.state = "PENDING" => command.req.id = requester.asked
    /\ worker.at # "idle" => worker.req.id = requester.asked
    /\ worker.at \in {"free", "offer"} => command.answers = requester.asked
    /\ command.state = "DONE" => command.answers = requester.asked

ToldIsAsked == requester.told \in {0, requester.asked}

SlotInv == SlotTyped /\ BusyIsExecuting /\ SlotIsOfTheWaiter /\ ToldIsAsked

LEMMA IdleCommandIs ==
  /\ DOMAIN IdleCommand = {"state", "abandoned", "req", "answers"}
  /\ IdleCommand.state = "IDLE"
BY DEF IdleCommand

LEMMA SubmitSlot ==
  ASSUME SlotInv, NEW cmd \in Commands, NEW sound \in BOOLEAN, submit(cmd, sound)
  PROVE  SlotInv'
<1>1. PICK r : r = [id |-> requester.asked + 1, cmd |-> cmd, sound |-> sound]
  OBVIOUS
<1>2. /\ requester.at = "idle" /\ worker' = worker
      /\ IF command.state = "IDLE"
           THEN /\ command' = [IdleCommand EXCEPT !.state = "PENDING", !.req = r]
                /\ requester' = [at |-> "waiting", asked |-> r.id, told |-> 0]
           ELSE /\ requester' = [requester EXCEPT !.asked = r.id, !.told = 0]
                /\ command' = command
  BY <1>1 DEF submit
<1>3. CASE command.state = "IDLE"
  <2>1. /\ DOMAIN command' = {"state", "abandoned", "req", "answers"}
        /\ command'.state = "PENDING" /\ command'.req = r
        /\ requester' = [at |-> "waiting", asked |-> r.id, told |-> 0]
    BY <1>2, <1>3 DEF IdleCommand
  <2>2. worker.at = "idle"
    BY <1>3 DEF SlotInv, BusyIsExecuting
  <2>3. QED
    BY <2>1, <2>2, <1>2 DEF SlotInv, SlotTyped, BusyIsExecuting, SlotIsOfTheWaiter, ToldIsAsked
<1>4. CASE command.state # "IDLE"
  <2>1. /\ requester' = [requester EXCEPT !.asked = r.id, !.told = 0]
        /\ command' = command
    BY <1>2, <1>4
  <2>2. /\ DOMAIN requester' = {"at", "asked", "told"} /\ requester'.at = "idle"
        /\ requester'.told = 0
    BY <2>1, <1>2 DEF SlotInv, SlotTyped
  <2>3. QED
    BY <2>1, <2>2, <1>2 DEF SlotInv, SlotTyped, BusyIsExecuting, SlotIsOfTheWaiter, ToldIsAsked
<1>5. QED
  BY <1>3, <1>4

LEMMA WaiterSlot ==
  ASSUME SlotInv, poll \/ RaiseAbandoned \/ TakeBack \/ LastPoll
  PROVE  SlotInv'
<1>1. worker' = worker /\ requester.at # "idle"
  BY DEF poll, RaiseAbandoned, TakeBack, LastPoll
<1>2. CASE Answered
  <2>1. /\ command.state = "DONE" /\ command' = IdleCommand
        /\ requester' = [requester EXCEPT !.at = "idle", !.told = command.answers]
    BY <1>2 DEF Answered
  <2>2. /\ DOMAIN requester' = {"at", "asked", "told"} /\ requester'.at = "idle"
        /\ requester'.told = command.answers /\ requester'.asked = requester.asked
    BY <2>1 DEF SlotInv, SlotTyped
  <2>3. command.answers = requester.asked /\ worker.at = "idle"
    BY <2>1, <1>1 DEF SlotInv, SlotIsOfTheWaiter, BusyIsExecuting
  <2>4. QED
    BY <2>1, <2>2, <2>3, <1>1, IdleCommandIs
       DEF SlotInv, SlotTyped, BusyIsExecuting, SlotIsOfTheWaiter, ToldIsAsked
<1>3. CASE RaiseAbandoned
  <2>1. /\ command' = [command EXCEPT !.abandoned = TRUE]
        /\ requester' = [requester EXCEPT !.at = "abandoning"]
    BY <1>3 DEF RaiseAbandoned
  <2>2. /\ DOMAIN command' = DOMAIN command /\ command'.state = command.state
        /\ command'.req = command.req /\ command'.answers = command.answers
        /\ DOMAIN requester' = DOMAIN requester /\ requester'.asked = requester.asked
        /\ requester'.told = requester.told
    BY <2>1 DEF SlotInv, SlotTyped
  <2>3. QED
    BY <2>2, <1>1 DEF SlotInv, SlotTyped, BusyIsExecuting, SlotIsOfTheWaiter, ToldIsAsked
<1>4. CASE TakeBack
  <2>1. /\ command' = TakenBack(command)
        /\ requester' = [requester EXCEPT !.at = "last_poll"]
    BY <1>4 DEF TakeBack
  <2>2. /\ DOMAIN requester' = DOMAIN requester /\ requester'.asked = requester.asked
        /\ requester'.told = requester.told
    BY <2>1 DEF SlotInv, SlotTyped
  <2>3. CASE command.state = "PENDING"
    <3>1. command' = IdleCommand /\ worker.at = "idle"
      BY <2>1, <2>3 DEF TakenBack, SlotInv, BusyIsExecuting
    <3>2. QED
      BY <3>1, <2>2, <1>1, IdleCommandIs
         DEF SlotInv, SlotTyped, BusyIsExecuting, SlotIsOfTheWaiter, ToldIsAsked
  <2>4. CASE command.state # "PENDING"
    <3>1. command' = command
      BY <2>1, <2>4 DEF TakenBack
    <3>2. QED
      BY <3>1, <2>2, <1>1
         DEF SlotInv, SlotTyped, BusyIsExecuting, SlotIsOfTheWaiter, ToldIsAsked
  <2>5. QED
    BY <2>3, <2>4
<1>5. CASE LastPoll /\ ~Answered
  <2>1. requester' = [requester EXCEPT !.at = "idle", !.told = 0] /\ command' = command
    BY <1>5 DEF LastPoll
  <2>2. /\ DOMAIN requester' = DOMAIN requester /\ requester'.at = "idle"
        /\ requester'.told = 0
    BY <2>1 DEF SlotInv, SlotTyped
  <2>3. QED
    BY <2>1, <2>2, <1>1
       DEF SlotInv, SlotTyped, BusyIsExecuting, SlotIsOfTheWaiter, ToldIsAsked
<1>6. QED
  BY <1>2, <1>3, <1>4, <1>5 DEF poll

(* csi_proc: a step within a command, before its result is on its way.     *)
LEMMA WithinCommandSlot ==
  ASSUME SlotInv, UNCHANGED <<command, requester>>, worker.at \in {"execute", "second"},
         NEW at \in {"second", "complete"}, worker' = [worker EXCEPT !.at = at]
  PROVE  SlotInv'
<1>1. DOMAIN worker' = {"at", "req"} /\ worker'.at = at /\ worker'.req = worker.req
  BY DEF SlotInv, SlotTyped
<1>2. QED
  BY <1>1 DEF SlotInv, SlotTyped, BusyIsExecuting, SlotIsOfTheWaiter, ToldIsAsked

LEMMA CsiProcSlot ==
  ASSUME SlotInv, CsiProc
  PROVE  SlotInv'
<1>1. CASE claimCommand
  <2>1. /\ worker.at = "idle" /\ command.state = "PENDING" /\ requester' = requester
        /\ command' = [command EXCEPT !.state = "EXECUTING"]
        /\ worker' = [at |-> "execute", req |-> command.req]
    BY <1>1 DEF claimCommand
  <2>2. /\ DOMAIN command' = DOMAIN command /\ command'.state = "EXECUTING"
        /\ DOMAIN worker' = {"at", "req"} /\ worker'.at = "execute"
        /\ worker'.req = command.req
    BY <2>1 DEF SlotInv, SlotTyped
  <2>3. QED
    BY <2>1, <2>2 DEF SlotInv, SlotTyped, BusyIsExecuting, SlotIsOfTheWaiter, ToldIsAsked
<1>2. CASE SwitchFirstWrite \/ SwitchSecondWrite \/ clearCandidate \/ clearAll \/ importCandidate
  <2>1. /\ UNCHANGED <<command, requester>> /\ worker.at \in {"execute", "second"}
        /\ \/ worker' = [worker EXCEPT !.at = "second"]
           \/ worker' = [worker EXCEPT !.at = "complete"]
    BY <1>2 DEF SwitchFirstWrite, SwitchSecondWrite, clearCandidate, clearAll,
                importCandidate, Finished
  <2>2. QED
    BY <2>1, WithinCommandSlot
<1>3. CASE CompleteRead
  <2>1. PICK at \in {"free", "offer"} :
          /\ worker' = [worker EXCEPT !.at = at]
          /\ command' = [command EXCEPT !.abandoned = FALSE, !.answers = worker.req.id]
          /\ requester' = requester /\ worker.at = "complete"
    BY <1>3 DEF CompleteRead
  <2>2. /\ DOMAIN worker' = {"at", "req"} /\ worker'.at = at /\ worker'.req = worker.req
        /\ DOMAIN command' = DOMAIN command /\ command'.state = command.state
        /\ command'.req = command.req /\ command'.answers = worker.req.id
    BY <2>1 DEF SlotInv, SlotTyped
  <2>3. command.state = "EXECUTING" /\ worker'.at # "idle"
    BY <2>1, <2>2 DEF SlotInv, BusyIsExecuting
  <2>4. QED
    BY <2>1, <2>2, <2>3
       DEF SlotInv, SlotTyped, BusyIsExecuting, SlotIsOfTheWaiter, ToldIsAsked
<1>4. CASE CompleteWrite
  <2>1. /\ worker.at \in {"free", "offer"} /\ command' = Released(command)
        /\ worker' = IdleWorker /\ requester' = requester
    BY <1>4 DEF CompleteWrite
  <2>2. DOMAIN worker' = {"at", "req"} /\ worker'.at = "idle"
    BY <2>1 DEF IdleWorker
  <2>3. CASE worker.at = "free"
    <3>1. command' = IdleCommand
      BY <2>1, <2>3 DEF Released
    <3>2. QED
      BY <3>1, <2>1, <2>2, IdleCommandIs
         DEF SlotInv, SlotTyped, BusyIsExecuting, SlotIsOfTheWaiter, ToldIsAsked
  <2>4. CASE worker.at = "offer"
    <3>1. command' = [command EXCEPT !.state = "DONE"]
      BY <2>1, <2>4 DEF Released
    <3>2. /\ DOMAIN command' = DOMAIN command /\ command'.state = "DONE"
          /\ command'.answers = command.answers
      BY <3>1 DEF SlotInv, SlotTyped
    <3>3. QED
      BY <3>2, <2>1, <2>2, <2>4
         DEF SlotInv, SlotTyped, BusyIsExecuting, SlotIsOfTheWaiter, ToldIsAsked
  <2>5. QED
    BY <2>1, <2>3, <2>4
<1>5. CASE persistDrift
  BY <1>5 DEF persistDrift, SlotInv, SlotTyped, BusyIsExecuting, SlotIsOfTheWaiter, ToldIsAsked
<1>6. QED
  BY <1>1, <1>2, <1>3, <1>4, <1>5 DEF CsiProc

LEMMA SlotStep == SlotInv /\ [CsiModelNext]_csiModelVars => SlotInv'
<1> SUFFICES ASSUME SlotInv, [CsiModelNext]_csiModelVars PROVE SlotInv'
  OBVIOUS
<1>1. CASE \E cmd \in Commands, sound \in BOOLEAN : submit(cmd, sound)
  BY <1>1, SubmitSlot
<1>2. CASE poll \/ RaiseAbandoned \/ TakeBack \/ LastPoll
  BY <1>2, WaiterSlot
<1>3. CASE CsiProc
  BY <1>3, CsiProcSlot
<1>4. CASE startSiteLearning \/ stopSiteLearning \/ LoopTask \/ UNCHANGED csiModelVars
  <2>1. UNCHANGED <<command, requester, worker>>
    BY <1>4 DEF startSiteLearning, stopSiteLearning, LoopTask, FinishLearning, DriftRead,
                DriftWrite, DriftPublish, csiModelVars
  <2>2. QED
    BY <2>1 DEF SlotInv, SlotTyped, BusyIsExecuting, SlotIsOfTheWaiter, ToldIsAsked
<1>5. CASE PowerCut
  <2>1. /\ requester' = [requester EXCEPT !.at = "idle", !.told = 0]
        /\ command' = IdleCommand /\ worker' = IdleWorker
    BY <1>5 DEF PowerCut
  <2>2. /\ DOMAIN requester' = DOMAIN requester /\ requester'.at = "idle"
        /\ requester'.told = 0 /\ DOMAIN worker' = {"at", "req"} /\ worker'.at = "idle"
    BY <2>1 DEF SlotInv, SlotTyped, IdleWorker
  <2>3. QED
    BY <2>1, <2>2, IdleCommandIs
       DEF SlotInv, SlotTyped, BusyIsExecuting, SlotIsOfTheWaiter, ToldIsAsked
<1>6. QED
  BY <1>1, <1>2, <1>3, <1>4, <1>5 DEF CsiModelNext, WebTask

(* A client that is given a result is given the result of its own command, *)
(* however many commands were given up while they waited or were executed  *)
(* (CsiModelCommandSlot::submit, poll, abandon, claim, complete).          *)
THEOREM AnswersBelong == CsiModelSpec => []AnswerIsOfTheRequest
<1>1. CsiModelInit => SlotInv
  BY DEF CsiModelInit, IdleCommand, IdleWorker, SlotInv, SlotTyped, BusyIsExecuting,
         SlotIsOfTheWaiter, ToldIsAsked
<1>2. SlotInv => AnswerIsOfTheRequest
  BY DEF SlotInv, ToldIsAsked, AnswerIsOfTheRequest
<1>3. QED
  BY <1>1, <1>2, SlotStep, PTL DEF CsiModelSpec

-----------------------------------------------------------------------------
(* CsiModel: the active model in flash and in RAM.                         *)

IsModel(m) == DOMAIN m = {"gen", "base"}

SlotsOfModels(slots) == IsModel(slots.act) /\ IsModel(slots.cand) /\ IsModel(slots.prev)

ModelsTyped ==
  /\ DOMAIN models = {"act", "cand", "prev"} /\ SlotsOfModels(models)
  /\ DOMAIN modelNvs = {"act", "cand", "prev", "lastGen", "legacy"} /\ SlotsOfModels(modelNvs)

(* Flash holds the generation that RAM reports, or a torn blob.            *)
ActiveIsKept == modelNvs.act = Torn \/ modelNvs.act.gen = models.act.gen

ModelsInv == ModelsTyped /\ ActiveIsKept

LEMMA ModelsAre ==
  /\ IsModel(NoModel) /\ IsModel(Torn) /\ IsModel(Blank)
  /\ NoModel.gen = 0 /\ Torn.gen = 0
  /\ \A g : IsModel(NewModel(g)) /\ NewModel(g).gen = g
BY DEF IsModel, NoModel, Torn, Blank, NewModel

(* What is read from flash has the generation of the blob: none, if torn.  *)
LEMMA ReadKeepsGeneration ==
  ASSUME NEW m
  PROVE  readSlot(m).gen = m.gen /\ (IsModel(m) => IsModel(readSlot(m)))
BY ModelsAre DEF readSlot, Valid

LEMMA WriteOutcomesAre ==
  /\ WriteOutcomes \subseteq {"ok", "refused", "torn"}
  /\ EraseOutcomes \subseteq {"ok", "refused"}
BY DEF WriteOutcomes, EraseOutcomes

(* A write that went through, or one that did not, of a generation.        *)
LEMMA WriteKeeps ==
  ASSUME NEW old, NEW new, NEW outcome \in WriteOutcomes, NEW g,
         outcome = "ok" => new.gen = g,
         outcome = "refused" => old = Torn \/ old.gen = g
  PROVE  writeSlot(old, new, outcome) = Torn \/ writeSlot(old, new, outcome).gen = g
<1>1. outcome \in {"ok", "refused", "torn"}
  BY WriteOutcomesAre
<1>2. CASE outcome = "ok"
  BY <1>2 DEF writeSlot
<1>3. CASE outcome = "refused"
  BY <1>3 DEF writeSlot
<1>4. CASE outcome = "torn"
  BY <1>4 DEF writeSlot
<1>5. QED
  BY <1>1, <1>2, <1>3, <1>4

LEMMA WriteIsModel ==
  ASSUME NEW old, IsModel(old), NEW new, IsModel(new), NEW outcome \in WriteOutcomes
  PROVE  IsModel(writeSlot(old, new, outcome))
<1>1. outcome \in {"ok", "refused", "torn"}
  BY WriteOutcomesAre
<1>2. QED
  BY <1>1, ModelsAre DEF writeSlot

(* What a flash of models has in common with the RAM it is loaded into.    *)
LEMMA BootKeeps ==
  ASSUME NEW flash, DOMAIN flash = {"act", "cand", "prev", "lastGen", "legacy"},
         SlotsOfModels(flash), NEW outcome \in WriteOutcomes
  PROVE  LET b == Boot(flash, outcome)
         IN /\ DOMAIN b.models = {"act", "cand", "prev"} /\ SlotsOfModels(b.models)
            /\ DOMAIN b.nvs = DOMAIN flash /\ SlotsOfModels(b.nvs)
            /\ b.nvs.act = Torn \/ b.nvs.act.gen = b.models.act.gen
<1>1. PICK ram : ram = loadFromStore(flash)
  OBVIOUS
<1>2. /\ DOMAIN ram = {"act", "cand", "prev"} /\ SlotsOfModels(ram)
      /\ ram.act.gen = flash.act.gen
  BY <1>1, ReadKeepsGeneration DEF loadFromStore, SlotsOfModels
<1>3. PICK model : model = NewModel(nextGeneration(flash))
  OBVIOUS
<1>4. IsModel(model)
  BY <1>3, ModelsAre
<1>5. CASE Migrates(flash)
  <2>1. PICK act : act = writeSlot(flash.act, model, outcome)
    OBVIOUS
  <2>2. PICK m : m = IF outcome = "ok" THEN [ram EXCEPT !.act = model] ELSE ram
    OBVIOUS
  <2>3. PICK n : n = [flash EXCEPT !.act = act, !.lastGen = model.gen, !.legacy = outcome # "ok"]
    OBVIOUS
  <2>4. Boot(flash, outcome).models = m /\ Boot(flash, outcome).nvs = n
    BY <1>1, <1>3, <1>5, <2>1, <2>2, <2>3 DEF Boot
  <2>5. IsModel(act)
    BY <2>1, <1>4, WriteIsModel DEF SlotsOfModels
  <2>6. /\ DOMAIN n = DOMAIN flash /\ n.act = act /\ n.cand = flash.cand /\ n.prev = flash.prev
    BY <2>3
  <2>7. /\ DOMAIN m = {"act", "cand", "prev"} /\ m.cand = ram.cand /\ m.prev = ram.prev
        /\ m.act = IF outcome = "ok" THEN model ELSE ram.act
    BY <2>2, <1>2
  <2>8. act = Torn \/ act.gen = m.act.gen
    BY <2>1, <2>7, <1>2, WriteKeeps
  <2>9. SlotsOfModels(m) /\ SlotsOfModels(n)
    BY <2>5, <2>6, <2>7, <1>2, <1>4 DEF SlotsOfModels
  <2>10. QED
    BY <2>4, <2>6, <2>7, <2>8, <2>9
<1>6. CASE ~Migrates(flash)
  <2>1. Boot(flash, outcome).models = ram /\ Boot(flash, outcome).nvs = flash
    BY <1>1, <1>6 DEF Boot
  <2>2. QED
    BY <2>1, <1>2
<1>7. QED
  BY <1>5, <1>6

LEMMA SwitchSteps ==
  ASSUME ModelsInv, SwitchFirstWrite \/ SwitchSecondWrite
  PROVE  ModelsInv'
<1>1. /\ DOMAIN models = {"act", "cand", "prev"} /\ SlotsOfModels(models)
      /\ DOMAIN modelNvs = {"act", "cand", "prev", "lastGen", "legacy"}
      /\ SlotsOfModels(modelNvs)
      /\ modelNvs.act = Torn \/ modelNvs.act.gen = models.act.gen
  BY DEF ModelsInv, ModelsTyped, ActiveIsKept
<1>2. IsModel(NextPrevious)
  BY <1>1, ModelsAre DEF NextPrevious, SlotsOfModels
<1>3. \A cmd : IsModel(NextActive(cmd))
  BY <1>1 DEF NextActive, SlotsOfModels
<1>4. CASE SwitchFirstWrite
  <2>1. models' = models
    BY <1>4 DEF SwitchFirstWrite
  <2>2. CASE modelNvs' = modelNvs
    BY <2>1, <2>2 DEF ModelsInv, ModelsTyped, ActiveIsKept
  <2>3. CASE modelNvs' # modelNvs
    <3>1. PICK outcome \in WriteOutcomes : modelNvs' = FirstWrite(modelNvs, worker.req.cmd, outcome)
      BY <1>4, <2>3 DEF SwitchFirstWrite
    <3>2. PICK prev : prev = writeSlot(modelNvs.prev, NextPrevious, outcome)
      OBVIOUS
    <3>3. IsModel(prev)
      BY <3>2, <1>1, <1>2, WriteIsModel DEF SlotsOfModels
    <3>4. modelNvs' = [modelNvs EXCEPT !.prev = prev]
      BY <3>1, <3>2 DEF FirstWrite
    <3>5. /\ DOMAIN modelNvs' = DOMAIN modelNvs /\ modelNvs'.prev = prev
          /\ modelNvs'.act = modelNvs.act /\ modelNvs'.cand = modelNvs.cand
      BY <3>4, <1>1
    <3>6. QED
      BY <2>1, <3>3, <3>5 DEF ModelsInv, ModelsTyped, ActiveIsKept, SlotsOfModels
  <2>4. QED
    BY <2>2, <2>3
<1>5. CASE SwitchSecondWrite
  <2>1. PICK next : next = NextActive(worker.req.cmd)
    OBVIOUS
  <2>2. PICK outcome \in WriteOutcomes :
          /\ modelNvs' = SecondWrite(modelNvs, worker.req.cmd, outcome)
          /\ IF outcome = "ok"
               THEN models' = [models EXCEPT
                      !.act  = next,
                      !.prev = IF WritesPrevious(worker.req.cmd) THEN NextPrevious ELSE @]
               ELSE models' = models
    BY <1>5, <2>1 DEF SwitchSecondWrite
  <2>3. PICK act : act = writeSlot(modelNvs.act, next, outcome)
    OBVIOUS
  <2>4. modelNvs' = [modelNvs EXCEPT !.act = act]
    BY <2>1, <2>2, <2>3 DEF SecondWrite
  <2>5. IsModel(act) /\ IsModel(next)
    BY <2>1, <2>3, <1>1, <1>3, WriteIsModel DEF SlotsOfModels
  <2>6. /\ DOMAIN modelNvs' = DOMAIN modelNvs /\ modelNvs'.act = act
        /\ modelNvs'.cand = modelNvs.cand /\ modelNvs'.prev = modelNvs.prev
    BY <2>4, <1>1
  <2>7. /\ DOMAIN models' = DOMAIN models /\ models'.cand = models.cand
        /\ models'.prev \in {NextPrevious, models.prev}
        /\ models'.act = IF outcome = "ok" THEN next ELSE models.act
    <3>1. CASE outcome = "ok"
      <4>1. PICK prev \in {NextPrevious, models.prev} :
              models' = [models EXCEPT !.act = next, !.prev = prev]
        BY <2>2, <3>1
      <4>2. QED
        BY <4>1, <3>1, <1>1
    <3>2. CASE outcome # "ok"
      BY <2>2, <3>2
    <3>3. QED
      BY <3>1, <3>2
  <2>8. act = Torn \/ act.gen = models'.act.gen
    BY <2>3, <2>7, <1>1, WriteKeeps
  <2>9. QED
    BY <2>5, <2>6, <2>7, <2>8, <1>1, <1>2
       DEF ModelsInv, ModelsTyped, ActiveIsKept, SlotsOfModels
<1>6. QED
  BY <1>4, <1>5

LEMMA ClearedCandidateStep ==
  ASSUME ModelsInv, ClearedCandidate
  PROVE  ModelsInv'
<1>1. /\ DOMAIN models = {"act", "cand", "prev"}
      /\ DOMAIN modelNvs = {"act", "cand", "prev", "lastGen", "legacy"}
  BY DEF ModelsInv, ModelsTyped
<1>2. CASE UNCHANGED <<models, modelNvs>>
  BY <1>2 DEF ModelsInv, ModelsTyped, ActiveIsKept
<1>3. CASE /\ models' = [models EXCEPT !.cand = NoModel]
           /\ modelNvs' = [modelNvs EXCEPT !.cand = NoModel]
  <2>1. /\ DOMAIN models' = DOMAIN models /\ models'.cand = NoModel
        /\ models'.act = models.act /\ models'.prev = models.prev
        /\ DOMAIN modelNvs' = DOMAIN modelNvs /\ modelNvs'.cand = NoModel
        /\ modelNvs'.act = modelNvs.act /\ modelNvs'.prev = modelNvs.prev
    BY <1>1, <1>3
  <2>2. QED
    BY <2>1, ModelsAre DEF ModelsInv, ModelsTyped, ActiveIsKept, SlotsOfModels
<1>4. QED
  BY <1>2, <1>3 DEF ClearedCandidate

LEMMA ClearAllStep ==
  ASSUME ModelsInv, clearAll
  PROVE  ModelsInv'
<1>1. PICK outcomes \in [{"act", "cand", "prev"} -> EraseOutcomes] :
        LET erased(slots) == [s \in {"act", "cand", "prev"} |->
                                IF outcomes[s] = "ok" THEN NoModel ELSE slots[s]]
        IN /\ models' = [act |-> erased(models)["act"], cand |-> erased(models)["cand"],
                         prev |-> erased(models)["prev"]]
           /\ modelNvs' = [modelNvs EXCEPT !.act = erased(modelNvs)["act"],
                                           !.cand = erased(modelNvs)["cand"],
                                           !.prev = erased(modelNvs)["prev"], !.legacy = FALSE]
  BY DEF clearAll
<1>2. /\ DOMAIN models' = {"act", "cand", "prev"}
      /\ models'.act = (IF outcomes["act"] = "ok" THEN NoModel ELSE models.act)
      /\ models'.cand = (IF outcomes["cand"] = "ok" THEN NoModel ELSE models.cand)
      /\ models'.prev = (IF outcomes["prev"] = "ok" THEN NoModel ELSE models.prev)
  BY <1>1
<1>3. PICK act, cand, prev :
        /\ act = (IF outcomes["act"] = "ok" THEN NoModel ELSE modelNvs.act)
        /\ cand = (IF outcomes["cand"] = "ok" THEN NoModel ELSE modelNvs.cand)
        /\ prev = (IF outcomes["prev"] = "ok" THEN NoModel ELSE modelNvs.prev)
  OBVIOUS
<1>4. modelNvs' = [modelNvs EXCEPT !.act = act, !.cand = cand, !.prev = prev, !.legacy = FALSE]
  BY <1>1, <1>3
<1>5. /\ DOMAIN modelNvs' = DOMAIN modelNvs
      /\ modelNvs'.act = act /\ modelNvs'.cand = cand /\ modelNvs'.prev = prev
  BY <1>4 DEF ModelsInv, ModelsTyped
<1>6. QED
  BY <1>2, <1>3, <1>5, ModelsAre DEF ModelsInv, ModelsTyped, ActiveIsKept, SlotsOfModels

LEMMA FinalizeStep ==
  ASSUME ModelsInv, NEW sound, finalizeCandidate(sound)
  PROVE  ModelsInv'
<1>1. /\ DOMAIN models = {"act", "cand", "prev"} /\ SlotsOfModels(models)
      /\ DOMAIN modelNvs = {"act", "cand", "prev", "lastGen", "legacy"}
      /\ SlotsOfModels(modelNvs)
  BY DEF ModelsInv, ModelsTyped
<1>2. PICK g : g = nextGeneration(modelNvs)
  OBVIOUS
<1>3. IsModel(NewModel(g))
  BY ModelsAre
<1>4. CASE sound
  <2>1. PICK outcome \in WriteOutcomes :
          /\ modelNvs' = [modelNvs EXCEPT !.lastGen = g,
                                          !.cand = writeSlot(@, NewModel(g), outcome)]
          /\ models' = IF outcome = "ok" THEN [models EXCEPT !.cand = NewModel(g)] ELSE models
    BY <1>2, <1>4 DEF finalizeCandidate
  <2>2. PICK cand : cand = writeSlot(modelNvs.cand, NewModel(g), outcome)
    OBVIOUS
  <2>3. IsModel(cand)
    BY <2>2, <1>1, <1>3, WriteIsModel DEF SlotsOfModels
  <2>4. /\ DOMAIN modelNvs' = DOMAIN modelNvs /\ modelNvs'.cand = cand
        /\ modelNvs'.act = modelNvs.act /\ modelNvs'.prev = modelNvs.prev
    BY <2>1, <2>2, <1>1
  <2>5. /\ DOMAIN models' = DOMAIN models /\ models'.cand \in {models.cand, NewModel(g)}
        /\ models'.act = models.act /\ models'.prev = models.prev
    BY <2>1, <1>1
  <2>6. QED
    BY <2>3, <2>4, <2>5, <1>1, <1>3 DEF ModelsInv, ModelsTyped, ActiveIsKept, SlotsOfModels
<1>5. CASE ~sound
  <2>1. modelNvs' = [modelNvs EXCEPT !.lastGen = g] /\ models' = models
    BY <1>2, <1>5 DEF finalizeCandidate
  <2>2. /\ DOMAIN modelNvs' = DOMAIN modelNvs /\ modelNvs'.cand = modelNvs.cand
        /\ modelNvs'.act = modelNvs.act /\ modelNvs'.prev = modelNvs.prev
    BY <2>1, <1>1
  <2>3. QED
    BY <2>1, <2>2 DEF ModelsInv, ModelsTyped, ActiveIsKept, SlotsOfModels
<1>6. QED
  BY <1>4, <1>5

(* The drift keeps the generation, in RAM whatever the store says.         *)
LEMMA DriftStep ==
  ASSUME ModelsInv, persistDrift
  PROVE  ModelsInv'
<1>1. /\ DOMAIN models = {"act", "cand", "prev"} /\ SlotsOfModels(models)
      /\ DOMAIN modelNvs = {"act", "cand", "prev", "lastGen", "legacy"}
      /\ SlotsOfModels(modelNvs)
      /\ modelNvs.act = Torn \/ modelNvs.act.gen = models.act.gen
  BY DEF ModelsInv, ModelsTyped, ActiveIsKept
<1>2. CASE UNCHANGED <<models, modelNvs>>
  BY <1>2 DEF ModelsInv, ModelsTyped, ActiveIsKept
<1>3. CASE ~UNCHANGED <<models, modelNvs>>
  <2>1. PICK outcome \in WriteOutcomes :
          LET m == [models.act EXCEPT !.base = drift.base]
          IN /\ models' = [models EXCEPT !.act = m]
             /\ modelNvs' = [modelNvs EXCEPT !.act = writeSlot(@, m, outcome)]
    BY <1>3 DEF persistDrift
  <2>2. PICK m : m = [models.act EXCEPT !.base = drift.base]
    OBVIOUS
  <2>3. IsModel(m) /\ m.gen = models.act.gen
    BY <2>2, <1>1 DEF SlotsOfModels, IsModel
  <2>4. PICK act : act = writeSlot(modelNvs.act, m, outcome)
    OBVIOUS
  <2>5. /\ models' = [models EXCEPT !.act = m] /\ modelNvs' = [modelNvs EXCEPT !.act = act]
    BY <2>1, <2>2, <2>4
  <2>6. /\ DOMAIN models' = DOMAIN models /\ models'.act = m
        /\ models'.cand = models.cand /\ models'.prev = models.prev
        /\ DOMAIN modelNvs' = DOMAIN modelNvs /\ modelNvs'.act = act
        /\ modelNvs'.cand = modelNvs.cand /\ modelNvs'.prev = modelNvs.prev
    BY <2>5, <1>1
  <2>7. IsModel(act)
    BY <2>3, <2>4, <1>1, WriteIsModel DEF SlotsOfModels
  <2>8. act = Torn \/ act.gen = m.gen
    BY <2>3, <2>4, <1>1, WriteKeeps
  <2>9. QED
    BY <2>3, <2>6, <2>7, <2>8 DEF ModelsInv, ModelsTyped, ActiveIsKept, SlotsOfModels
<1>4. QED
  BY <1>2, <1>3

LEMMA PowerCutStep ==
  ASSUME ModelsInv, PowerCut
  PROVE  ModelsInv'
<1>1. PICK outcome \in WriteOutcomes :
        models' = Boot(modelNvs, outcome).models /\ modelNvs' = Boot(modelNvs, outcome).nvs
  BY DEF PowerCut
<1>2. /\ DOMAIN modelNvs = {"act", "cand", "prev", "lastGen", "legacy"}
      /\ SlotsOfModels(modelNvs)
  BY DEF ModelsInv, ModelsTyped
<1>3. PICK b : b = Boot(modelNvs, outcome)
  OBVIOUS
<1>4. /\ DOMAIN b.models = {"act", "cand", "prev"} /\ SlotsOfModels(b.models)
      /\ DOMAIN b.nvs = DOMAIN modelNvs /\ SlotsOfModels(b.nvs)
      /\ b.nvs.act = Torn \/ b.nvs.act.gen = b.models.act.gen
  BY <1>2, <1>3, BootKeeps
<1>5. QED
  BY <1>1, <1>2, <1>3, <1>4 DEF ModelsInv, ModelsTyped, ActiveIsKept

LEMMA ModelsStep == ModelsInv /\ [CsiModelNext]_csiModelVars => ModelsInv'
<1> SUFFICES ASSUME ModelsInv, [CsiModelNext]_csiModelVars PROVE ModelsInv'
  OBVIOUS
<1>1. CASE SwitchFirstWrite \/ SwitchSecondWrite
  BY <1>1, SwitchSteps
<1>2. CASE clearCandidate \/ startSiteLearning
  BY <1>2, ClearedCandidateStep DEF clearCandidate, startSiteLearning
<1>3. CASE clearAll
  BY <1>3, ClearAllStep
<1>4. CASE importCandidate
  BY <1>4, FinalizeStep DEF importCandidate
<1>5. CASE FinishLearning
  <2>1. finalizeCandidate(TRUE) \/ UNCHANGED <<models, modelNvs>>
    BY <1>5 DEF FinishLearning
  <2>2. CASE finalizeCandidate(TRUE)
    BY <2>2, FinalizeStep
  <2>3. CASE UNCHANGED <<models, modelNvs>>
    BY <2>3 DEF ModelsInv, ModelsTyped, ActiveIsKept
  <2>4. QED
    BY <2>1, <2>2, <2>3
<1>6. CASE persistDrift
  BY <1>6, DriftStep
<1>7. CASE PowerCut
  BY <1>7, PowerCutStep
<1>8. CASE \/ \E cmd \in Commands, sound \in BOOLEAN : submit(cmd, sound)
           \/ poll \/ RaiseAbandoned \/ TakeBack \/ LastPoll \/ stopSiteLearning
           \/ claimCommand \/ CompleteRead \/ CompleteWrite
           \/ DriftRead \/ DriftPublish \/ (\E due \in BOOLEAN : DriftWrite(due))
           \/ UNCHANGED csiModelVars
  <2>1. UNCHANGED <<models, modelNvs>>
    BY <1>8 DEF submit, poll, RaiseAbandoned, TakeBack, LastPoll, stopSiteLearning,
                claimCommand, CompleteRead, CompleteWrite, DriftRead, DriftPublish,
                DriftWrite, csiModelVars
  <2>2. QED
    BY <2>1 DEF ModelsInv, ModelsTyped, ActiveIsKept
<1>9. QED
  BY <1>1, <1>2, <1>3, <1>4, <1>5, <1>6, <1>7, <1>8
     DEF CsiModelNext, WebTask, CsiProc, LoopTask

(* Whatever write is refused, and wherever between the two writes of an    *)
(* apply or a rollback the power fails: the device comes back with the     *)
(* generation it reported, unless a write tore the blob (CsiModelManager:: *)
(* applyCandidate, rollback, loadFromStore).                               *)
THEOREM ActiveSurvives == CsiModelSpec => []ActiveSurvivesRestart
<1>1. CsiModelInit => ModelsInv
  <2> SUFFICES ASSUME CsiModelInit PROVE ModelsInv
    OBVIOUS
  <2>1. PICK flash \in [act : {NoModel, NewModel(1)}, cand : {NoModel}, prev : {NoModel},
                        lastGen : {1}, legacy : BOOLEAN] :
          models = Boot(flash, "ok").models /\ modelNvs = Boot(flash, "ok").nvs
    BY DEF CsiModelInit
  <2>2. DOMAIN flash = {"act", "cand", "prev", "lastGen", "legacy"} /\ SlotsOfModels(flash)
    BY ModelsAre DEF SlotsOfModels
  <2>3. "ok" \in WriteOutcomes
    BY DEF WriteOutcomes
  <2>4. PICK b : b = Boot(flash, "ok")
    OBVIOUS
  <2>5. /\ DOMAIN b.models = {"act", "cand", "prev"} /\ SlotsOfModels(b.models)
        /\ DOMAIN b.nvs = DOMAIN flash /\ SlotsOfModels(b.nvs)
        /\ b.nvs.act = Torn \/ b.nvs.act.gen = b.models.act.gen
    BY <2>2, <2>3, <2>4, BootKeeps
  <2>6. QED
    BY <2>1, <2>2, <2>4, <2>5 DEF ModelsInv, ModelsTyped, ActiveIsKept
<1>2. ModelsInv => ActiveSurvivesRestart
  BY ReadKeepsGeneration DEF ModelsInv, ActiveIsKept, ActiveSurvivesRestart
<1>3. QED
  BY <1>1, <1>2, ModelsStep, PTL DEF CsiModelSpec

-----------------------------------------------------------------------------
(* EventLog: rings and what they list.                                     *)

(* Counted from the end of a sequence, or backwards from a slot, 0 being   *)
(* the one before.                                                         *)
FromBack(s, k) == s[Len(s) - k]
SlotBefore(p, k) == IF p > k THEN p - k - 1 ELSE p - k - 1 + DiskCapacity

SlotAfter(p) == IF p + 1 < DiskCapacity THEN p + 1 ELSE 0

DiskRings == [head : 0 .. DiskCapacity - 1, count : Nat]

(* The slot that a ring uses next, and the slots it holds.                 *)
NextSlot(r) ==
  IF r.count >= DiskCapacity THEN r.head
  ELSE IF r.head + r.count < DiskCapacity THEN r.head + r.count
       ELSE r.head + r.count - DiskCapacity

Within(r, p) ==
  (IF p >= r.head THEN p - r.head ELSE p - r.head + DiskCapacity) < r.count

LEMMA ModTwice ==
  ASSUME NEW n \in Nat \ {0}, NEW x \in 0..(2 * n - 1)
  PROVE  x % n = IF x < n THEN x ELSE x - n
<1>1. CASE x < n
  BY <1>1
<1>2. CASE x >= n
  <2>1. x - n \in 0..(n - 1)
    BY <1>2
  <2>2. x % n = (x - n) % n
    BY <1>2
  <2>3. QED
    BY <1>2, <2>1, <2>2
<1>3. QED
  BY <1>1, <1>2

LEMMA SeqGrows ==
  ASSUME NEW A, NEW B, A \subseteq B
  PROVE  Seq(A) \subseteq Seq(B)
<1>1. SUFFICES ASSUME NEW s \in Seq(A) PROVE s \in Seq(B)
  OBVIOUS
<1>2. Len(s) \in Nat /\ s = [i \in 1 .. Len(s) |-> s[i]] /\ \A i \in 1 .. Len(s) : s[i] \in B
  OBVIOUS
<1>3. QED
  BY <1>2

LEMMA NewestIs ==
  ASSUME NEW S, NEW s \in Seq(S), NEW n \in Nat
  PROVE  /\ Newest(s, n) \in Seq(S)
         /\ Len(Newest(s, n)) = IF Len(s) <= n THEN Len(s) ELSE n
         /\ \A k \in 0 .. Len(Newest(s, n)) - 1 : FromBack(Newest(s, n), k) = FromBack(s, k)
<1>1. CASE Len(s) <= n
  BY <1>1 DEF Newest, FromBack
<1>2. CASE Len(s) > n
  <2>1. Newest(s, n) = SubSeq(s, Len(s) - n + 1, Len(s))
    BY <1>2 DEF Newest
  <2>2. Len(Newest(s, n)) = n /\ Newest(s, n) \in Seq(S)
    BY <1>2, <2>1
  <2>3. \A k \in 0 .. n - 1 : Newest(s, n)[n - k] = s[Len(s) - k]
    BY <1>2, <2>1
  <2>4. QED
    BY <1>2, <2>2, <2>3 DEF FromBack
<1>3. QED
  BY <1>1, <1>2

LEMMA AppendBack ==
  ASSUME NEW S, NEW s \in Seq(S), NEW e \in S
  PROVE  /\ Append(s, e) \in Seq(S) /\ Len(Append(s, e)) = Len(s) + 1
         /\ FromBack(Append(s, e), 0) = e
         /\ \A k \in 1 .. Len(s) : FromBack(Append(s, e), k) = FromBack(s, k - 1)
BY DEF FromBack

LEMMA RangeFromBack ==
  ASSUME NEW S, NEW s \in Seq(S)
  PROVE  Range(s) = {FromBack(s, k) : k \in 0 .. Len(s) - 1}
<1>1. \A i \in DOMAIN s : Len(s) - i \in 0 .. Len(s) - 1 /\ s[i] = FromBack(s, Len(s) - i)
  BY DEF FromBack
<1>2. \A k \in 0 .. Len(s) - 1 : Len(s) - k \in DOMAIN s
  OBVIOUS
<1>3. QED
  BY <1>1, <1>2 DEF Range, FromBack

(* Positions in a ring.                                                    *)
LEMMA SlotPositions ==
  ASSUME NEW p \in 0 .. DiskCapacity - 1
  PROVE  /\ SlotAfter(p) \in 0 .. DiskCapacity - 1
         /\ SlotBefore(SlotAfter(p), 0) = p
         /\ \A k \in 0 .. DiskCapacity - 1 : SlotBefore(p, k) \in 0 .. DiskCapacity - 1
         /\ \A k \in 1 .. DiskCapacity - 1 :
              /\ SlotBefore(SlotAfter(p), k) = SlotBefore(p, k - 1)
              /\ SlotBefore(p, k - 1) # p
BY LogAssumption DEF SlotAfter, SlotBefore

LEMMA SlotIs ==
  ASSUME disk \in DiskRings
  PROVE  Slot = NextSlot(disk) /\ NextSlot(disk) \in 0 .. DiskCapacity - 1
<1>1. /\ disk.head \in 0 .. DiskCapacity - 1 /\ disk.count \in Nat
      /\ DiskCapacity \in Nat \ {0}
  BY LogAssumption DEF DiskRings
<1>2. CASE disk.count >= DiskCapacity
  BY <1>1, <1>2 DEF Slot, Wraps, NextSlot
<1>3. CASE disk.count < DiskCapacity
  <2>1. disk.head + disk.count \in 0..(2 * DiskCapacity - 1)
    BY <1>1, <1>3
  <2>2. (disk.head + disk.count) % DiskCapacity =
          IF disk.head + disk.count < DiskCapacity THEN disk.head + disk.count
          ELSE disk.head + disk.count - DiskCapacity
    BY <1>1, <2>1, ModTwice
  <2>3. QED
    BY <1>1, <1>3, <2>2 DEF Slot, Wraps, NextSlot
<1>4. QED
  BY <1>1, <1>2, <1>3

(* A ring holds as many slots before the next one as it counts.            *)
LEMMA WithinBefore ==
  ASSUME NEW r \in DiskRings, r.count <= DiskCapacity, NEW k \in 0 .. r.count - 1
  PROVE  Within(r, SlotBefore(NextSlot(r), k))
BY LogAssumption DEF DiskRings, Within, SlotBefore, NextSlot

(* A ring that uses its next slot.                                         *)
Used(r) == IF r.count >= DiskCapacity THEN [r EXCEPT !.head = (@ + 1) % DiskCapacity]
                                      ELSE [r EXCEPT !.count = @ + 1]

LEMMA UsedIs ==
  ASSUME NEW r \in DiskRings
  PROVE  /\ Used(r) \in DiskRings
         /\ Used(r).count = IF r.count >= DiskCapacity THEN r.count ELSE r.count + 1
         /\ NextSlot(Used(r)) = SlotAfter(NextSlot(r))
<1>1. /\ r.head \in 0 .. DiskCapacity - 1 /\ r.count \in Nat
      /\ DiskCapacity \in Nat \ {0} /\ r = [head |-> r.head, count |-> r.count]
  BY LogAssumption DEF DiskRings
<1>2. CASE r.count >= DiskCapacity
  <2>1. (r.head + 1) % DiskCapacity = SlotAfter(r.head)
    BY <1>1, ModTwice DEF SlotAfter
  <2>2. Used(r) = [head |-> SlotAfter(r.head), count |-> r.count]
    BY <1>1, <1>2, <2>1 DEF Used
  <2>3. QED
    BY <1>1, <1>2, <2>2, SlotPositions DEF DiskRings, NextSlot
<1>3. CASE r.count < DiskCapacity
  <2>1. Used(r) = [head |-> r.head, count |-> r.count + 1]
    BY <1>1, <1>3 DEF Used
  <2>2. NextSlot(Used(r)) = SlotAfter(NextSlot(r))
    BY <1>1, <1>3, <2>1 DEF NextSlot, SlotAfter
  <2>3. QED
    BY <1>1, <1>3, <2>1, <2>2 DEF DiskRings
<1>4. QED
  BY <1>1, <1>2, <1>3

-----------------------------------------------------------------------------
(* What every step keeps.                                                  *)

Numbers == 0 .. added

FileType == [slots : [0 .. DiskCapacity - 1 -> Numbers], ring : DiskRings]

FlushType ==
  {f \in [at : {"none", "slots", "written", "mark"}, todo : Seq(Numbers),
          copies : SUBSET Numbers, seq : Nat, wraps : BOOLEAN] :
     f.at = "written" => f.todo # <<>>}

LogTyped ==
  /\ added \in Nat /\ since \in Nat /\ since <= added
  /\ buffer \in Seq(Numbers)
  /\ sequence \in [ram : Nat, flushed : Nat]
  /\ file = NoFile \/ file \in FileType
  /\ disk \in DiskRings
  /\ flusher \in [LogTasks -> FlushType]
  /\ saved \subseteq Nat
  /\ recent \in Seq(Int)

(* The listing of a boot.                                                  *)
LEMMA ListingIs ==
  ASSUME LogTyped
  PROVE  /\ Listing \in Seq(Numbers)
         /\ Len(Listing) = IF file.ring.count > DiskCapacity THEN DiskCapacity
                           ELSE file.ring.count
         /\ file = NoFile => Listing = <<>>
         /\ file # NoFile =>
              \A i \in 1 .. Len(Listing) :
                Listing[i] = file.slots[IF file.ring.head + i - 1 < DiskCapacity
                                        THEN file.ring.head + i - 1
                                        ELSE file.ring.head + i - 1 - DiskCapacity]
<1>1. PICK count : count = IF file.ring.count > DiskCapacity THEN DiskCapacity
                           ELSE file.ring.count
  OBVIOUS
<1>2. Listing = [i \in 1 .. count |-> file.slots[(file.ring.head + i - 1) % DiskCapacity]]
  BY <1>1 DEF Listing
<1>3. CASE file = NoFile
  <2>1. count = 0
    BY <1>1, <1>3, LogAssumption DEF NoFile, EmptyRing
  <2>2. Listing = <<>>
    BY <1>2, <2>1
  <2>3. QED
    BY <1>1, <1>3, <2>1, <2>2
<1>4. CASE file # NoFile
  <2>1. /\ file.slots \in [0 .. DiskCapacity - 1 -> Numbers]
        /\ file.ring.head \in 0 .. DiskCapacity - 1 /\ file.ring.count \in Nat
        /\ DiskCapacity \in Nat \ {0}
    BY <1>4, LogAssumption DEF LogTyped, FileType, DiskRings
  <2>2. count \in 0 .. DiskCapacity
    BY <1>1, <2>1
  <2>3. ASSUME NEW i \in 1 .. count
        PROVE  /\ file.ring.head + i - 1 \in 0 .. (2 * DiskCapacity - 1)
               /\ (file.ring.head + i - 1) % DiskCapacity =
                    (IF file.ring.head + i - 1 < DiskCapacity THEN file.ring.head + i - 1
                     ELSE file.ring.head + i - 1 - DiskCapacity)
               /\ (file.ring.head + i - 1) % DiskCapacity \in 0 .. DiskCapacity - 1
    <3>1. PICK x : x = file.ring.head + i - 1
      OBVIOUS
    <3>2. x \in 0 .. (2 * DiskCapacity - 1)
      BY <2>1, <2>2, <3>1
    <3>3. x % DiskCapacity = IF x < DiskCapacity THEN x ELSE x - DiskCapacity
      BY <2>1, <3>2, ModTwice
    <3>4. QED
      BY <2>1, <3>1, <3>2, <3>3
  <2>4. Listing \in Seq(Numbers) /\ Len(Listing) = count
    <3>1. Listing \in [1 .. count -> Numbers]
      BY <1>2, <2>1, <2>3
    <3>2. QED
      BY <2>2, <3>1
  <2>5. \A i \in 1 .. count : Listing[i] = file.slots[(file.ring.head + i - 1) % DiskCapacity]
    BY <1>2
  <2>6. QED
    BY <1>1, <1>4, <2>3, <2>4, <2>5
<1>5. QED
  BY <1>3, <1>4

(* What a slot within the ring of the file holds is listed.                *)
LEMMA WithinIsListed ==
  ASSUME LogTyped, file # NoFile, NEW p \in 0 .. DiskCapacity - 1,
         Within(file.ring, p)
  PROVE  file.slots[p] \in Range(Listing)
<1>1. /\ file.ring.head \in 0 .. DiskCapacity - 1 /\ file.ring.count \in Nat
      /\ DiskCapacity \in Nat \ {0}
  BY LogAssumption DEF LogTyped, FileType, DiskRings
<1>2. PICK i : i = (IF p >= file.ring.head THEN p - file.ring.head
                    ELSE p - file.ring.head + DiskCapacity) + 1
  OBVIOUS
<1>3. i \in 1 .. Len(Listing)
  <2>1. i \in 1 .. DiskCapacity /\ i <= file.ring.count
    BY <1>1, <1>2 DEF Within
  <2>2. Len(Listing) = IF file.ring.count > DiskCapacity THEN DiskCapacity ELSE file.ring.count
    BY ListingIs
  <2>3. QED
    BY <1>1, <2>1, <2>2
<1>4. Listing[i] = file.slots[p]
  <2>1. p = IF file.ring.head + i - 1 < DiskCapacity THEN file.ring.head + i - 1
            ELSE file.ring.head + i - 1 - DiskCapacity
    BY <1>1, <1>2
  <2>2. QED
    BY <1>3, <2>1, ListingIs
<1>5. QED
  BY <1>3, <1>4, ListingIs DEF Range

-----------------------------------------------------------------------------
(* What holds while flushes keep out of each other's way and of clear()'s. *)

Alone ==
  /\ \A t, o \in LogTasks : flusher[t] # NoFlush /\ flusher[o] # NoFlush => t = o
  /\ clearing => sequence.flushed = 0 /\ \A t \in LogTasks : flusher[t] = NoFlush

(* The slots used last are those before the next one of the ring in RAM,   *)
(* and those a header covers are in the ring of the file.                  *)
Written == \E t \in LogTasks : flusher[t].at = "written"
RingEnd == IF Written THEN SlotAfter(NextSlot(disk)) ELSE NextSlot(disk)
Depth == IF Written /\ disk.count < DiskCapacity THEN disk.count + 1 ELSE disk.count

Magnitude(e) == IF e < 0 THEN -e ELSE e
Stored(e, p) == file.slots[p] = Magnitude(e) /\ (e >= 0 => Within(file.ring, p))

RingIsTrue ==
  /\ disk.count <= DiskCapacity
  /\ \A t \in LogTasks : flusher[t].at = "written" =>
       file # NoFile /\ (flusher[t].wraps <=> disk.count >= DiskCapacity)
  /\ recent # <<>> => file # NoFile
  /\ Len(recent) <= Depth
  /\ \A k \in 0 .. Len(recent) - 1 : Stored(FromBack(recent, k), SlotBefore(RingEnd, k))

(* The ring in RAM ends with the events since the last boot or clear(), in *)
(* order; those up to the n-th of them that it still has are kept.         *)
EndsWithNews ==
  \A k \in 0 .. Len(buffer) - 1 :
    /\ k < sequence.ram => FromBack(buffer, k) = added - k
    /\ k >= sequence.ram => FromBack(buffer, k) <= since

KeptUpTo(n, kept) ==
  \A e \in Range(buffer) : since < e /\ e <= added - sequence.ram + n => e \in kept

FlushIsTrue(f) ==
  f.at # "none" =>
    /\ sequence.flushed < f.seq /\ f.seq <= sequence.ram
    /\ KeptUpTo(f.seq, IF f.at = "mark" THEN saved ELSE saved \cup f.copies)
    /\ \A i \in DOMAIN f.todo : f.todo[i] # 0

NewsAreKept ==
  /\ sequence.flushed <= sequence.ram /\ sequence.ram <= added
  /\ added - sequence.ram <= since
  /\ EndsWithNews
  /\ sequence.ram # sequence.flushed => dirty
  /\ KeptUpTo(sequence.flushed, saved)
  /\ \A t \in LogTasks : FlushIsTrue(flusher[t])
  /\ file = NoFile =>
       saved = {} /\ \A t \in LogTasks : flusher[t].at = "slots" =>
                                           flusher[t].copies = Range(flusher[t].todo)

LogInv == LogTyped /\ (~raced => Alone /\ RingIsTrue /\ NewsAreKept)

(* One flush goes on.                                                      *)
LEMMA FlushGoesOn ==
  ASSUME LogTyped, NEW t \in LogTasks, NEW f \in FlushType, UNCHANGED added,
         flusher' = [flusher EXCEPT ![t] = f]
  PROVE  /\ flusher' \in [LogTasks -> FlushType']
         /\ flusher'[t] = f /\ \A o \in LogTasks : o # t => flusher'[o] = flusher[o]
<1>1. FlushType' = FlushType
  BY DEF FlushType, Numbers
<1>2. QED
  BY <1>1 DEF LogTyped

LEMMA NoFlushTyped == NoFlush \in FlushType /\ NoFlush.at = "none"
<1>1. <<>> \in Seq(Numbers) /\ {} \in SUBSET Numbers
  OBVIOUS
<1>2. QED
  BY <1>1 DEF NoFlush, FlushType

(* Steps that leave file, header and the slots used alone.                 *)
LEMMA SameRing ==
  ASSUME RingIsTrue, UNCHANGED <<file, disk, recent>>,
         \A t \in LogTasks :
           /\ flusher'[t].at = "written" <=> flusher[t].at = "written"
           /\ flusher'[t].at = "written" => flusher'[t].wraps = flusher[t].wraps
  PROVE  RingIsTrue'
<1>1. (Written' <=> Written) /\ RingEnd' = RingEnd /\ Depth' = Depth
  BY DEF Written, RingEnd, Depth
<1>2. QED
  BY <1>1 DEF RingIsTrue, Stored

(* While a flush goes on alone, the others rest.                           *)
LEMMA OthersRest ==
  ASSUME Alone, NEW t \in LogTasks, flusher[t].at # "none"
  PROVE  ~clearing /\ \A o \in LogTasks : o # t => flusher[o] = NoFlush /\ flusher[o].at = "none"
BY NoFlushTyped DEF Alone

-----------------------------------------------------------------------------
(* The steps.                                                              *)

LEMMA AddStep ==
  ASSUME LogInv, addEvent
  PROVE  LogInv'
<1>1. /\ ~raced /\ raced' = raced /\ added' = added + 1 /\ dirty'
      /\ buffer' = Newest(Append(buffer, added + 1), RamCapacity)
      /\ sequence' = [sequence EXCEPT !.ram = @ + 1]
      /\ UNCHANGED <<file, disk, available, flusher, clearing, since, saved, recent>>
  BY DEF addEvent, logHistories
<1>2. LogTyped /\ Alone /\ RingIsTrue /\ NewsAreKept
  BY <1>1 DEF LogInv
<1>3. added \in Nat /\ RamCapacity \in Nat \ {0}
  BY <1>2, LogAssumption DEF LogTyped
<1>4. buffer \in Seq(0 .. added + 1) /\ added + 1 \in 0 .. added + 1
  BY <1>2, <1>3 DEF LogTyped, Numbers
<1>5. PICK long : long = Append(buffer, added + 1)
  OBVIOUS
<1>6. /\ long \in Seq(0 .. added + 1) /\ Len(long) = Len(buffer) + 1
      /\ FromBack(long, 0) = added + 1
      /\ \A k \in 1 .. Len(buffer) : FromBack(long, k) = FromBack(buffer, k - 1)
  BY <1>4, <1>5, AppendBack
<1>7. /\ buffer' \in Seq(0 .. added + 1) /\ Len(buffer') <= Len(buffer) + 1
      /\ \A k \in 0 .. Len(buffer') - 1 : FromBack(buffer', k) = FromBack(long, k)
  <2>1. buffer' = Newest(long, RamCapacity) /\ RamCapacity \in Nat
    BY <1>1, <1>3, <1>5
  <2>2. /\ Newest(long, RamCapacity) \in Seq(0 .. added + 1)
        /\ Len(Newest(long, RamCapacity)) = IF Len(long) <= RamCapacity THEN Len(long)
                                            ELSE RamCapacity
        /\ \A k \in 0 .. Len(Newest(long, RamCapacity)) - 1 :
             FromBack(Newest(long, RamCapacity), k) = FromBack(long, k)
    BY <2>1, <1>6, NewestIs
  <2>3. Len(long) = Len(buffer) + 1 /\ Len(buffer) \in Nat
    BY <1>4, <1>6
  <2>4. Len(buffer') <= Len(buffer) + 1
    BY <2>1, <2>2, <2>3
  <2>5. QED
    BY <2>1, <2>2, <2>4
<1>8. \A k \in 0 .. Len(buffer') - 1 :
        FromBack(buffer', k) = IF k = 0 THEN added + 1 ELSE FromBack(buffer, k - 1)
  BY <1>6, <1>7
<1>9. /\ sequence' = [ram |-> sequence.ram + 1, flushed |-> sequence.flushed]
      /\ sequence.ram \in Nat /\ sequence.flushed \in Nat
  BY <1>1, <1>2 DEF LogTyped
<1>10. LogTyped'
  <2>1. Numbers \subseteq Numbers' /\ Numbers' = 0 .. added + 1
    BY <1>1, <1>3 DEF Numbers
  <2>2. FlushType \subseteq FlushType'
    <3>1. Seq(Numbers) \subseteq Seq(Numbers') /\ SUBSET Numbers \subseteq SUBSET Numbers'
      BY <2>1, SeqGrows
    <3>2. QED
      BY <3>1 DEF FlushType
  <2>3. FileType \subseteq FileType'
    BY <2>1 DEF FileType
  <2>4. flusher' \in [LogTasks -> FlushType']
    BY <1>1, <1>2, <2>2 DEF LogTyped
  <2>5. file' = NoFile \/ file' \in FileType'
    BY <1>1, <1>2, <2>3 DEF LogTyped
  <2>6. /\ added' \in Nat /\ since' \in Nat /\ since' <= added'
        /\ sequence' \in [ram : Nat, flushed : Nat]
    <3>1. /\ added' = added + 1 /\ since' = since
      BY <1>1
    <3>2. /\ added \in Nat /\ since \in Nat /\ since <= added
          /\ sequence.ram \in Nat /\ sequence.flushed \in Nat
      BY <1>2 DEF LogTyped
    <3>3. sequence' \in [ram : Nat, flushed : Nat]
      BY <1>9, <3>2
    <3>4. QED
      BY <3>1, <3>2, <3>3
  <2>7. QED
    BY <1>1, <1>2, <1>7, <2>1, <2>4, <2>5, <2>6 DEF LogTyped
<1>11. Alone' /\ RingIsTrue'
  BY <1>1, <1>2, SameRing DEF Alone
<1>12. Range(buffer') \subseteq Range(buffer) \cup {added + 1}
  <2>1. \A k \in 0 .. Len(buffer') - 1 : k # 0 => k - 1 \in 0 .. Len(buffer) - 1
    BY <1>7
  <2>2. Range(buffer') = {FromBack(buffer', k) : k \in 0 .. Len(buffer') - 1}
    BY <1>7, RangeFromBack
  <2>3. Range(buffer) = {FromBack(buffer, k) : k \in 0 .. Len(buffer) - 1}
    BY <1>4, RangeFromBack
  <2>4. QED
    BY <2>1, <2>2, <2>3, <1>8
<1>13. ASSUME NEW n \in Nat, n <= sequence.ram, NEW kept, KeptUpTo(n, kept)
       PROVE  \A e \in Range(buffer') : since' < e /\ e <= added' - sequence'.ram + n => e \in kept
  BY <1>1, <1>2, <1>9, <1>12, <1>13 DEF KeptUpTo, LogTyped
<1>14. EndsWithNews'
  <2>1. ASSUME NEW k \in 0 .. Len(buffer') - 1
        PROVE  /\ k < sequence.ram + 1 => FromBack(buffer', k) = added + 1 - k
               /\ k >= sequence.ram + 1 => FromBack(buffer', k) <= since
    <3>1. CASE k = 0
      BY <1>8, <1>9, <3>1, <1>3
    <3>2. CASE k # 0
      <4>1. k - 1 \in 0 .. Len(buffer) - 1
        BY <1>7, <3>2
      <4>2. /\ k - 1 < sequence.ram => FromBack(buffer, k - 1) = added - (k - 1)
            /\ k - 1 >= sequence.ram => FromBack(buffer, k - 1) <= since
        BY <4>1, <1>2 DEF NewsAreKept, EndsWithNews
      <4>3. FromBack(buffer', k) = FromBack(buffer, k - 1) /\ added - (k - 1) = added + 1 - k
            /\ (k - 1 < sequence.ram <=> k < sequence.ram + 1)
            /\ (k - 1 >= sequence.ram <=> k >= sequence.ram + 1)
        BY <1>3, <1>8, <1>9, <3>2
      <4>4. QED
        BY <4>2, <4>3
    <3>3. QED
      BY <3>1, <3>2
  <2>2. sequence'.ram = sequence.ram + 1 /\ added' = added + 1 /\ since' = since
    BY <1>1, <1>9
  <2>3. \A k \in 0 .. Len(buffer') - 1 :
          /\ k < sequence'.ram => FromBack(buffer', k) = added' - k
          /\ k >= sequence'.ram => FromBack(buffer', k) <= since'
    BY <2>1, <2>2, <1>3, <1>9
  <2>4. QED
    BY <2>3 DEF EndsWithNews
<1>15. \A t \in LogTasks : FlushIsTrue(flusher[t])'
  <2> SUFFICES ASSUME NEW t \in LogTasks, flusher[t].at # "none"
               PROVE  FlushIsTrue(flusher[t])'
    BY <1>1 DEF FlushIsTrue
  <2>1. PICK kept : kept = IF flusher[t].at = "mark" THEN saved ELSE saved \cup flusher[t].copies
    OBVIOUS
  <2>2. /\ sequence.flushed < flusher[t].seq /\ flusher[t].seq <= sequence.ram
        /\ KeptUpTo(flusher[t].seq, kept)
        /\ \A i \in DOMAIN flusher[t].todo : flusher[t].todo[i] # 0
    BY <1>2, <2>1 DEF NewsAreKept, FlushIsTrue
  <2>3. flusher[t].seq \in Nat
    BY <1>2 DEF LogTyped, FlushType
  <2>4. \A e \in Range(buffer') :
          since' < e /\ e <= added' - sequence'.ram + flusher[t].seq => e \in kept
    BY <1>13, <2>2, <2>3
  <2>5. KeptUpTo(flusher[t].seq, IF flusher[t].at = "mark" THEN saved
                                 ELSE saved \cup flusher[t].copies)'
    BY <1>1, <2>1, <2>4 DEF KeptUpTo
  <2>6. sequence'.flushed < flusher[t].seq /\ flusher[t].seq <= sequence'.ram
    BY <1>9, <2>2, <2>3
  <2>7. QED
    BY <1>1, <2>2, <2>5, <2>6 DEF FlushIsTrue
<1>16. NewsAreKept'
  <2>1. /\ sequence.flushed <= sequence.ram /\ sequence.ram <= added
        /\ added - sequence.ram <= since /\ KeptUpTo(sequence.flushed, saved)
    BY <1>2 DEF NewsAreKept
  <2>2. /\ sequence'.flushed <= sequence'.ram /\ sequence'.ram <= added'
        /\ added' - sequence'.ram <= since'
    BY <1>1, <1>3, <1>9, <2>1
  <2>3. KeptUpTo(sequence.flushed, saved)'
    BY <1>1, <1>9, <1>13, <2>1 DEF KeptUpTo
  <2>4. QED
    BY <1>1, <1>2, <1>14, <1>15, <2>2, <2>3 DEF NewsAreKept
<1>17. QED
  BY <1>1, <1>10, <1>11, <1>16 DEF LogInv

(* What is not yet flushed, as far as the ring still has it.               *)
LEMMA NewEventsTyped ==
  ASSUME LogTyped
  PROVE  NewEvents \in Seq(Numbers)
<1>1. CASE sequence.ram < sequence.flushed
  BY <1>1 DEF NewEvents, LogTyped
<1>2. CASE sequence.ram >= sequence.flushed
  <2>1. sequence.ram - sequence.flushed \in Nat /\ buffer \in Seq(Numbers)
    BY <1>2 DEF LogTyped
  <2>2. NewEvents = Newest(buffer, sequence.ram - sequence.flushed)
    BY <1>2 DEF NewEvents, LogTyped
  <2>3. QED
    BY <2>1, <2>2, NewestIs
<1>3. QED
  BY <1>1, <1>2 DEF LogTyped

LEMMA NewEventsAre ==
  ASSUME LogTyped, NewsAreKept
  PROVE  /\ \A i \in DOMAIN NewEvents : NewEvents[i] # 0
         /\ \A e \in Range(buffer) :
              since < e => e \in saved \/ e \in Range(NewEvents)
         /\ \A e \in Range(buffer) :
              since < e /\ e \notin saved => e > added - sequence.ram + sequence.flushed
<1>1. /\ added \in Nat /\ since \in Nat /\ sequence.ram \in Nat /\ sequence.flushed \in Nat
      /\ buffer \in Seq(Numbers)
  BY DEF LogTyped
<1>2. /\ sequence.flushed <= sequence.ram /\ sequence.ram <= added
      /\ EndsWithNews /\ KeptUpTo(sequence.flushed, saved)
  BY DEF NewsAreKept
<1>3. PICK n : n = sequence.ram - sequence.flushed
  OBVIOUS
<1>4. n \in Nat /\ n <= sequence.ram
  BY <1>1, <1>2, <1>3
<1>5. NewEvents = Newest(buffer, n)
  BY <1>1, <1>2, <1>3 DEF NewEvents
<1>6. /\ NewEvents \in Seq(Numbers)
      /\ Len(NewEvents) = IF Len(buffer) <= n THEN Len(buffer) ELSE n
      /\ \A k \in 0 .. Len(NewEvents) - 1 : FromBack(NewEvents, k) = FromBack(buffer, k)
  BY <1>1, <1>4, <1>5, NewestIs
<1>7. ASSUME NEW k \in 0 .. Len(NewEvents) - 1
      PROVE  k \in 0 .. Len(buffer) - 1 /\ FromBack(NewEvents, k) = added - k /\ added - k # 0
  <2>1. k \in 0 .. Len(buffer) - 1 /\ k < sequence.ram
    BY <1>1, <1>4, <1>6
  <2>2. FromBack(buffer, k) = added - k
    BY <1>2, <2>1 DEF EndsWithNews
  <2>3. QED
    BY <1>1, <1>2, <1>6, <2>1, <2>2
<1>8. \A i \in DOMAIN NewEvents : NewEvents[i] # 0
  <2> SUFFICES ASSUME NEW i \in DOMAIN NewEvents PROVE NewEvents[i] # 0
    OBVIOUS
  <2>1. Len(NewEvents) - i \in 0 .. Len(NewEvents) - 1 /\ i = Len(NewEvents) - (Len(NewEvents) - i)
    BY <1>6
  <2>2. QED
    BY <1>7, <2>1 DEF FromBack
<1>9. ASSUME NEW e \in Range(buffer), since < e, e \notin saved
      PROVE  e \in Range(NewEvents) /\ e > added - sequence.ram + sequence.flushed
  <2>1. PICK k \in 0 .. Len(buffer) - 1 : e = FromBack(buffer, k)
    BY <1>1, RangeFromBack
  <2>2. e \in Nat
    BY <1>1, <1>9 DEF Range, Numbers
  <2>3. k < sequence.ram
    BY <1>1, <1>2, <1>9, <2>1, <2>2 DEF EndsWithNews
  <2>4. e = added - k
    BY <1>2, <2>1, <2>3 DEF EndsWithNews
  <2>5. e > added - sequence.ram + sequence.flushed
    BY <1>1, <1>2, <1>9, <2>2 DEF KeptUpTo
  <2>6. k < n
    BY <1>1, <1>3, <2>4, <2>5
  <2>7. k \in 0 .. Len(NewEvents) - 1
    BY <1>1, <1>4, <1>6, <2>6
  <2>8. FromBack(NewEvents, k) = e
    BY <1>6, <2>1, <2>7
  <2>9. QED
    BY <1>6, <2>5, <2>7, <2>8, RangeFromBack
<1>10. QED
  BY <1>8, <1>9

LEMMA FlushBeginsStep ==
  ASSUME LogInv, NEW t \in LogTasks, FlushBegins(t)
  PROVE  LogInv'
<1>1. PICK f : f = [at |-> "slots", todo |-> NewEvents, copies |-> Range(NewEvents),
                    seq |-> sequence.ram, wraps |-> FALSE]
  OBVIOUS
<1>2. /\ flusher[t] = NoFlush /\ dirty /\ sequence.ram # sequence.flushed
      /\ flusher' = [flusher EXCEPT ![t] = f]
      /\ raced' = (raced \/ clearing \/ \E o \in LogTasks \ {t} : flusher[o] # NoFlush)
      /\ UNCHANGED <<buffer, sequence, dirty, file, disk, clearing, added, since, saved, recent>>
  BY <1>1 DEF FlushBegins, ringVars
<1>3. LogTyped
  BY DEF LogInv
<1>4. f \in FlushType
  <2>1. NewEvents \in Seq(Numbers) /\ sequence.ram \in Nat
    BY <1>3, NewEventsTyped DEF LogTyped
  <2>2. Range(NewEvents) \subseteq Numbers
    BY <2>1 DEF Range
  <2>3. QED
    BY <1>1, <2>1, <2>2 DEF FlushType
<1>5. /\ flusher' \in [LogTasks -> FlushType']
      /\ flusher'[t] = f /\ \A o \in LogTasks : o # t => flusher'[o] = flusher[o]
  BY <1>2, <1>3, <1>4, FlushGoesOn
<1>6. LogTyped'
  BY <1>2, <1>3, <1>5 DEF LogTyped, FileType, Numbers
<1>7. CASE raced'
  BY <1>6, <1>7 DEF LogInv
<1>8. CASE ~raced'
  <2>1. ~raced /\ ~clearing /\ \A o \in LogTasks : flusher[o] = NoFlush
    BY <1>2, <1>8
  <2>2. Alone /\ RingIsTrue /\ NewsAreKept
    BY <2>1 DEF LogInv
  <2>3. Alone'
    BY <1>2, <1>5, <2>1 DEF Alone
  <2>4. RingIsTrue'
    <3>1. f.at = "slots"
      BY <1>1
    <3>2. QED
      BY <1>2, <1>5, <2>1, <2>2, <3>1, NoFlushTyped, SameRing
  <2>5. FlushIsTrue(f)
    <3>1. sequence.flushed < sequence.ram /\ sequence.ram <= sequence.ram
      BY <1>2, <1>3, <2>2 DEF NewsAreKept, LogTyped
    <3>2. \A e \in Range(buffer) : since < e => e \in saved \cup Range(NewEvents)
      BY <1>3, <2>2, NewEventsAre
    <3>3. \A i \in DOMAIN NewEvents : NewEvents[i] # 0
      BY <1>3, <2>2, NewEventsAre
    <3>4. /\ f.at = "slots" /\ f.seq = sequence.ram /\ f.copies = Range(NewEvents)
          /\ f.todo = NewEvents
      BY <1>1
    <3>5. QED
      BY <3>1, <3>2, <3>3, <3>4 DEF FlushIsTrue, KeptUpTo
  <2>6. \A o \in LogTasks : FlushIsTrue(flusher[o])'
    <3> SUFFICES ASSUME NEW o \in LogTasks PROVE FlushIsTrue(flusher[o])'
      OBVIOUS
    <3>1. flusher'[o] = f \/ flusher'[o].at = "none"
      BY <1>5, <2>1, NoFlushTyped
    <3>2. QED
      BY <1>2, <2>5, <3>1 DEF FlushIsTrue, KeptUpTo
  <2>7. \A o \in LogTasks : flusher'[o].at = "slots" =>
                              flusher'[o].copies = Range(flusher'[o].todo)
    <3> SUFFICES ASSUME NEW o \in LogTasks, flusher'[o].at = "slots"
                 PROVE  flusher'[o].copies = Range(flusher'[o].todo)
      OBVIOUS
    <3>1. flusher'[o] = f
      BY <1>5, <2>1, NoFlushTyped
    <3>2. QED
      BY <1>1, <3>1
  <2>8. NewsAreKept'
    BY <1>2, <2>2, <2>6, <2>7 DEF NewsAreKept, EndsWithNews, KeptUpTo
  <2>9. QED
    BY <1>6, <2>3, <2>4, <2>8 DEF LogInv
<1>9. QED
  BY <1>7, <1>8

(* A flush that gives up, and what the other flushes keep of theirs.       *)
LEMMA GivesUp ==
  ASSUME LogInv, NEW t \in LogTasks, flusher[t].at = "slots",
         flusher' = [flusher EXCEPT ![t] = NoFlush],
         UNCHANGED <<buffer, sequence, dirty, file, disk, clearing, added, since, saved,
                     recent, raced>>
  PROVE  LogInv'
<1>1. LogTyped
  BY DEF LogInv
<1>2. /\ flusher' \in [LogTasks -> FlushType']
      /\ flusher'[t] = NoFlush /\ \A o \in LogTasks : o # t => flusher'[o] = flusher[o]
  BY <1>1, NoFlushTyped, FlushGoesOn
<1>3. LogTyped'
  BY <1>1, <1>2 DEF LogTyped, FileType, Numbers
<1>4. ASSUME ~raced
      PROVE  Alone' /\ RingIsTrue' /\ NewsAreKept'
  <2>1. Alone /\ RingIsTrue /\ NewsAreKept
    BY <1>4 DEF LogInv
  <2>2. Alone'
    BY <1>2, <2>1 DEF Alone
  <2>3. RingIsTrue'
    BY <1>2, <2>1, NoFlushTyped, SameRing
  <2>4. \A o \in LogTasks : FlushIsTrue(flusher[o])'
    <3> SUFFICES ASSUME NEW o \in LogTasks PROVE FlushIsTrue(flusher[o])'
      OBVIOUS
    <3>1. flusher'[o].at = "none" \/ flusher'[o] = flusher[o]
      BY <1>2, NoFlushTyped
    <3>2. QED
      BY <2>1, <3>1 DEF NewsAreKept, FlushIsTrue, KeptUpTo
  <2>5. ASSUME NEW o \in LogTasks, file = NoFile, flusher'[o].at = "slots"
        PROVE  flusher'[o].copies = Range(flusher'[o].todo)
    <3>1. flusher'[o] = flusher[o]
      BY <1>2, <2>5, NoFlushTyped
    <3>2. QED
      BY <2>1, <2>5, <3>1 DEF NewsAreKept
  <2>6. NewsAreKept'
    BY <2>1, <2>4, <2>5 DEF NewsAreKept, EndsWithNews, KeptUpTo
  <2>7. QED
    BY <2>2, <2>3, <2>6
<1>5. QED
  BY <1>3, <1>4 DEF LogInv

LEMMA GiveUpSteps ==
  ASSUME LogInv, NEW t \in LogTasks, NoFileAtAll(t) \/ SlotFails(t)
  PROVE  LogInv'
<1>1. /\ flusher[t].at = "slots" /\ flusher' = [flusher EXCEPT ![t] = NoFlush]
      /\ UNCHANGED <<buffer, sequence, dirty, file, disk, clearing, added, since, saved,
                     recent, raced>>
  BY DEF NoFileAtAll, SlotFails, AtSlot, ringVars, logHistories
<1>2. QED
  BY <1>1, GivesUp

LEMMA OpenFailsStep ==
  ASSUME LogInv, NEW t \in LogTasks, OpenFails(t)
  PROVE  LogInv'
<1>1. PICK f : f = [flusher[t] EXCEPT !.copies = Range(flusher[t].todo)]
  OBVIOUS
<1>2. /\ flusher[t].at = "slots" /\ flusher' = [flusher EXCEPT ![t] = f]
      /\ file' = NewFile /\ disk' = EmptyRing /\ saved' = {} /\ recent' = <<>>
      /\ since' = (IF file = NoFile THEN since ELSE added)
      /\ UNCHANGED <<buffer, sequence, dirty, clearing, added, raced>>
  BY <1>1 DEF OpenFails, AtSlot, ringVars
<1>3. LogTyped /\ flusher[t] \in FlushType
  BY DEF LogInv, LogTyped
<1>4. /\ f \in FlushType /\ f.at = "slots" /\ f.todo = flusher[t].todo
      /\ f.seq = flusher[t].seq /\ f.copies = Range(flusher[t].todo)
  <2>1. Range(flusher[t].todo) \subseteq Numbers
    BY <1>3 DEF FlushType, Range
  <2>2. QED
    BY <1>1, <1>2, <1>3, <2>1 DEF FlushType
<1>5. /\ flusher' \in [LogTasks -> FlushType']
      /\ flusher'[t] = f /\ \A o \in LogTasks : o # t => flusher'[o] = flusher[o]
  BY <1>2, <1>3, <1>4, FlushGoesOn
<1>6. file' \in FileType' /\ file' # NoFile /\ disk' \in DiskRings /\ disk'.count = 0
  <2>1. EmptyRing \in DiskRings /\ EmptyRing.count = 0
    BY LogAssumption DEF EmptyRing, DiskRings
  <2>2. 0 \in Numbers'
    BY <1>2, <1>3 DEF Numbers, LogTyped
  <2>3. NewFile \in FileType'
    BY <2>1, <2>2 DEF NewFile, FileType
  <2>4. NewFile.slots # NoFile.slots
    <3>1. 0 \in DOMAIN NewFile.slots /\ 0 \notin DOMAIN NoFile.slots
      BY LogAssumption DEF NewFile, NoFile
    <3>2. QED
      BY <3>1
  <2>5. QED
    BY <1>2, <2>1, <2>3, <2>4
<1>7. since' \in Nat /\ since' <= added /\ since <= since'
  BY <1>2, <1>3 DEF LogTyped
<1>8. LogTyped'
  <2>1. buffer' \in Seq(Numbers')
    BY <1>2, <1>3 DEF LogTyped, Numbers
  <2>2. QED
    BY <1>2, <1>3, <1>5, <1>6, <1>7, <2>1 DEF LogTyped
<1>9. ASSUME ~raced
      PROVE  Alone' /\ RingIsTrue' /\ NewsAreKept'
  <2>1. Alone /\ RingIsTrue /\ NewsAreKept
    BY <1>9 DEF LogInv
  <2>2. ~clearing /\ \A o \in LogTasks : o # t => flusher[o] = NoFlush /\ flusher[o].at = "none"
    BY <1>2, <2>1, OthersRest
  <2>3. Alone'
    BY <1>2, <1>5, <2>2 DEF Alone
  <2>4. RingIsTrue'
    <3>1. \A o \in LogTasks : flusher'[o].at # "written"
      BY <1>4, <1>5, <2>2
    <3>2. disk'.count <= DiskCapacity /\ Depth' = 0
      BY <1>6, <3>1, LogAssumption DEF Depth, Written
    <3>3. recent' = <<>> /\ Len(recent') = 0
      BY <1>2
    <3>4. QED
      BY <3>1, <3>2, <3>3 DEF RingIsTrue
  <2>5. EndsWithNews'
    <3>1. \A k \in 0 .. Len(buffer) - 1 : FromBack(buffer, k) <= since => FromBack(buffer, k) <= since'
      <4>1. \A k \in 0 .. Len(buffer) - 1 : FromBack(buffer, k) \in Nat
        BY <1>3 DEF LogTyped, Numbers, FromBack
      <4>2. QED
        BY <1>3, <1>7, <4>1 DEF LogTyped
    <3>2. QED
      BY <1>2, <2>1, <3>1 DEF NewsAreKept, EndsWithNews
  <2>6. /\ sequence'.flushed <= sequence'.ram /\ sequence'.ram <= added'
        /\ added' - sequence'.ram <= since'
    BY <1>2, <1>3, <1>7, <2>1 DEF NewsAreKept, LogTyped
  <2>7. sequence'.ram # sequence'.flushed => dirty'
    BY <1>2, <2>1 DEF NewsAreKept
  <2>8. CASE file = NoFile
    <3>1. saved = {} /\ flusher[t].copies = f.copies /\ since' = since
      BY <1>2, <1>4, <2>1, <2>8 DEF NewsAreKept
    <3>2. KeptUpTo(sequence.flushed, saved)'
      BY <1>2, <2>1, <3>1 DEF NewsAreKept, KeptUpTo
    <3>3. FlushIsTrue(flusher[t])
      BY <2>1 DEF NewsAreKept
    <3>4. /\ sequence.flushed < f.seq /\ f.seq <= sequence.ram
          /\ KeptUpTo(f.seq, saved \cup f.copies)
          /\ \A i \in DOMAIN f.todo : f.todo[i] # 0
      BY <1>2, <1>4, <3>1, <3>3 DEF FlushIsTrue
    <3>5. \A o \in LogTasks : FlushIsTrue(flusher[o])'
      <4> SUFFICES ASSUME NEW o \in LogTasks, flusher'[o].at # "none"
                   PROVE  FlushIsTrue(flusher[o])'
        BY DEF FlushIsTrue
      <4>1. flusher'[o] = f
        BY <1>5, <2>2
      <4>2. QED
        BY <1>2, <1>4, <3>1, <3>4, <4>1 DEF FlushIsTrue, KeptUpTo
    <3>6. QED
      BY <1>6, <2>3, <2>4, <2>5, <2>6, <2>7, <3>2, <3>5 DEF NewsAreKept
  <2>9. CASE file # NoFile
    <3>1. since' = added /\ \A e \in Range(buffer) : ~(since' < e)
      <4>1. \A e \in Range(buffer) : e \in Numbers
        BY <1>3 DEF LogTyped, Range
      <4>2. QED
        BY <1>2, <1>3, <2>9, <4>1 DEF Numbers, LogTyped
    <3>2. \A n, kept : KeptUpTo(n, kept)'
      BY <1>2, <3>1 DEF KeptUpTo
    <3>3. FlushIsTrue(flusher[t])
      BY <2>1 DEF NewsAreKept
    <3>4. /\ sequence.flushed < f.seq /\ f.seq <= sequence.ram
          /\ \A i \in DOMAIN f.todo : f.todo[i] # 0
      BY <1>2, <1>4, <3>3 DEF FlushIsTrue
    <3>5. \A o \in LogTasks : FlushIsTrue(flusher[o])'
      <4> SUFFICES ASSUME NEW o \in LogTasks, flusher'[o].at # "none"
                   PROVE  FlushIsTrue(flusher[o])'
        BY DEF FlushIsTrue
      <4>1. flusher'[o] = f
        BY <1>5, <2>2
      <4>2. QED
        BY <1>2, <1>4, <3>1, <3>4, <4>1 DEF FlushIsTrue, KeptUpTo
    <3>6. KeptUpTo(sequence.flushed, saved)'
      BY <1>2, <3>1 DEF KeptUpTo
    <3>7. QED
      BY <1>6, <2>3, <2>4, <2>5, <2>6, <2>7, <3>5, <3>6 DEF NewsAreKept
  <2>10. QED
    BY <2>8, <2>9
<1>10. QED
  BY <1>2, <1>8, <1>9 DEF LogInv

(* A flush passes its file on: what else a step must keep.                 *)
LEMMA OneFlushMoves ==
  ASSUME LogInv, ~raced, NEW t \in LogTasks, NEW f \in FlushType, flusher[t].at # "none",
         flusher' = [flusher EXCEPT ![t] = f],
         f.seq = flusher[t].seq, f.copies = flusher[t].copies,
         \A i \in DOMAIN f.todo : f.todo[i] # 0,
         f.at \in {"slots", "written"}, flusher[t].at \in {"slots", "written"},
         UNCHANGED <<buffer, sequence, dirty, clearing, added, since, saved>>,
         file' # NoFile
  PROVE  Alone' /\ NewsAreKept'
<1>1. LogTyped /\ Alone /\ RingIsTrue /\ NewsAreKept
  BY DEF LogInv
<1>2. /\ flusher'[t] = f /\ \A o \in LogTasks : o # t => flusher'[o] = flusher[o]
  BY <1>1, FlushGoesOn
<1>3. ~clearing /\ \A o \in LogTasks : o # t => flusher[o] = NoFlush /\ flusher[o].at = "none"
  BY <1>1, OthersRest
<1>4. Alone'
  BY <1>2, <1>3 DEF Alone
<1>5. FlushIsTrue(flusher[t])
  BY <1>1 DEF NewsAreKept
<1>6. /\ sequence.flushed < f.seq /\ f.seq <= sequence.ram
      /\ KeptUpTo(f.seq, saved \cup f.copies)
  BY <1>5 DEF FlushIsTrue
<1>7. \A o \in LogTasks : FlushIsTrue(flusher[o])'
  <2> SUFFICES ASSUME NEW o \in LogTasks, flusher'[o].at # "none"
               PROVE  FlushIsTrue(flusher[o])'
    BY DEF FlushIsTrue
  <2>1. flusher'[o] = f
    BY <1>2, <1>3
  <2>2. QED
    BY <1>6, <2>1 DEF FlushIsTrue, KeptUpTo
<1>8. QED
  BY <1>1, <1>4, <1>7 DEF NewsAreKept, EndsWithNews, KeptUpTo

LEMMA WriteSlotStep ==
  ASSUME LogInv, NEW t \in LogTasks, WriteSlot(t)
  PROVE  LogInv'
<1>1. PICK f : f = [flusher[t] EXCEPT !.at = "written", !.wraps = Wraps]
  OBVIOUS
<1>2. PICK e : e = Head(flusher[t].todo)
  OBVIOUS
<1>3. /\ flusher[t].at = "slots" /\ flusher[t].todo # <<>> /\ file # NoFile
      /\ flusher' = [flusher EXCEPT ![t] = f]
      /\ file' = [file EXCEPT !.slots[Slot] = e]
      /\ recent' = Newest(Append(recent, -e), DiskCapacity)
      /\ UNCHANGED <<buffer, sequence, dirty, disk, clearing, added, since, saved, raced>>
  BY <1>1, <1>2 DEF WriteSlot, AtSlot, ringVars
<1>4. /\ LogTyped /\ flusher[t] \in FlushType /\ disk \in DiskRings /\ recent \in Seq(Int)
      /\ file \in FileType /\ added \in Nat
  BY <1>3 DEF LogInv, LogTyped
<1>5. f \in FlushType /\ f.at = "written" /\ f.todo = flusher[t].todo
      /\ f.seq = flusher[t].seq /\ f.copies = flusher[t].copies /\ f.wraps = Wraps
  <2>1. Wraps \in BOOLEAN
    BY DEF Wraps
  <2>2. QED
    BY <1>1, <1>3, <1>4, <2>1 DEF FlushType
<1>6. /\ flusher' \in [LogTasks -> FlushType']
      /\ flusher'[t] = f /\ \A o \in LogTasks : o # t => flusher'[o] = flusher[o]
  BY <1>3, <1>4, <1>5, FlushGoesOn
<1>7. PICK p : p = NextSlot(disk)
  OBVIOUS
<1>8. Slot = p /\ p \in 0 .. DiskCapacity - 1 /\ DiskCapacity \in Nat \ {0}
  BY <1>4, <1>7, SlotIs, LogAssumption
<1>9. e \in Numbers /\ e \in Nat /\ -e \in Int
  <2>1. flusher[t].todo \in Seq(Numbers)
    BY <1>4 DEF FlushType
  <2>2. e \in Numbers
    BY <1>2, <1>3, <2>1
  <2>3. QED
    BY <1>4, <2>2 DEF Numbers
<1>10. /\ file'.ring = file.ring /\ file' \in FileType /\ file'.slots[p] = e
       /\ \A q \in 0 .. DiskCapacity - 1 : q # p => file'.slots[q] = file.slots[q]
  BY <1>3, <1>4, <1>8, <1>9 DEF FileType
<1>11. file' # NoFile
  <2>1. 0 \in DOMAIN file'.slots /\ 0 \notin DOMAIN NoFile.slots
    BY <1>8, <1>10 DEF FileType, NoFile
  <2>2. QED
    BY <2>1
<1>12. PICK long : long = Append(recent, -e)
  OBVIOUS
<1>13. /\ long \in Seq(Int) /\ Len(long) = Len(recent) + 1
       /\ FromBack(long, 0) = -e
       /\ \A k \in 1 .. Len(recent) : FromBack(long, k) = FromBack(recent, k - 1)
  BY <1>4, <1>9, <1>12, AppendBack
<1>14. /\ recent' \in Seq(Int)
       /\ Len(recent') = IF Len(recent) + 1 <= DiskCapacity THEN Len(recent) + 1
                         ELSE DiskCapacity
       /\ \A k \in 0 .. Len(recent') - 1 : FromBack(recent', k) = FromBack(long, k)
  BY <1>3, <1>8, <1>12, <1>13, NewestIs
<1>15. LogTyped'
  <2>1. /\ buffer' \in Seq(Numbers') /\ file' \in FileType' /\ disk' \in DiskRings
    BY <1>3, <1>4, <1>10 DEF LogTyped, Numbers, FileType
  <2>2. QED
    BY <1>3, <1>4, <1>6, <1>14, <2>1 DEF LogTyped
<1>16. ASSUME ~raced
       PROVE  Alone' /\ RingIsTrue' /\ NewsAreKept'
  <2>1. Alone /\ RingIsTrue /\ NewsAreKept
    BY <1>16 DEF LogInv
  <2>2. \A i \in DOMAIN f.todo : f.todo[i] # 0
    BY <1>3, <1>5, <2>1 DEF NewsAreKept, FlushIsTrue
  <2>3. Alone' /\ NewsAreKept'
    BY <1>3, <1>5, <1>11, <1>16, <2>2, OneFlushMoves
  <2>4. e > 0
    <3>1. 1 \in DOMAIN flusher[t].todo /\ e = flusher[t].todo[1]
      <4>1. flusher[t].todo \in Seq(Numbers)
        BY <1>4 DEF FlushType
      <4>2. QED
        BY <1>2, <1>3, <4>1
    <3>2. e # 0
      BY <1>5, <2>2, <3>1
    <3>3. QED
      BY <1>9, <3>2
  <2>5. \A o \in LogTasks : o # t => flusher[o].at = "none" /\ flusher'[o].at = "none"
    BY <1>3, <1>6, <2>1, OthersRest
  <2>6. ~Written /\ Written'
    BY <1>3, <1>5, <1>6, <2>5 DEF Written
  <2>7. disk.count \in Nat /\ disk.count <= DiskCapacity /\ Len(recent) <= disk.count
    BY <1>4, <2>1, <2>6 DEF RingIsTrue, Depth, DiskRings
  <2>8. RingEnd = p /\ RingEnd' = SlotAfter(p) /\ SlotAfter(p) \in 0 .. DiskCapacity - 1
    BY <1>3, <1>7, <1>8, <2>6, SlotPositions DEF RingEnd
  <2>9. Depth' = IF disk.count < DiskCapacity THEN disk.count + 1 ELSE disk.count
    BY <1>3, <2>6 DEF Depth
  <2>10. Len(recent') <= Depth' /\ Len(recent') <= DiskCapacity /\ Len(recent') \in Nat
         /\ Len(recent') <= Len(recent) + 1
    BY <1>4, <1>8, <1>14, <2>7, <2>9
  <2>11. \A o \in LogTasks : flusher'[o].at = "written" =>
           file' # NoFile /\ (flusher'[o].wraps <=> disk'.count >= DiskCapacity)
    BY <1>3, <1>5, <1>6, <1>11, <2>5 DEF Wraps
  <2>12. ASSUME NEW k \in 0 .. Len(recent') - 1
         PROVE  /\ file'.slots[SlotBefore(RingEnd', k)] = Magnitude(FromBack(recent', k))
                /\ FromBack(recent', k) >= 0 => Within(file'.ring, SlotBefore(RingEnd', k))
    <3>1. CASE k = 0
      <4>1. FromBack(recent', k) = -e /\ SlotBefore(RingEnd', k) = p
        BY <1>8, <1>13, <1>14, <2>8, <3>1, SlotPositions
      <4>2. Magnitude(-e) = e /\ ~(-e >= 0)
        BY <1>9, <2>4 DEF Magnitude
      <4>3. QED
        BY <1>10, <4>1, <4>2
    <3>2. CASE k > 0
      <4>1. k \in 1 .. Len(recent) /\ k \in 1 .. DiskCapacity - 1 /\ k - 1 \in 0 .. Len(recent) - 1
            /\ k - 1 \in 0 .. DiskCapacity - 1
        BY <1>4, <1>8, <2>10, <3>2
      <4>2. FromBack(recent', k) = FromBack(recent, k - 1)
        BY <1>13, <1>14, <4>1
      <4>3. SlotBefore(RingEnd', k) = SlotBefore(p, k - 1) /\ SlotBefore(p, k - 1) # p
            /\ SlotBefore(p, k - 1) \in 0 .. DiskCapacity - 1
        BY <1>8, <2>8, <4>1, SlotPositions
      <4>4. Stored(FromBack(recent, k - 1), SlotBefore(p, k - 1))
        BY <2>1, <2>8, <4>1 DEF RingIsTrue
      <4>5. QED
        BY <1>10, <4>2, <4>3, <4>4 DEF Stored
    <3>3. QED
      BY <2>10, <3>1, <3>2
  <2>13. RingIsTrue'
    BY <1>3, <1>11, <2>7, <2>10, <2>11, <2>12 DEF RingIsTrue, Stored
  <2>14. QED
    BY <2>3, <2>13
<1>17. QED
  BY <1>3, <1>15, <1>16 DEF LogInv

LEMMA AdvanceStep ==
  ASSUME LogInv, NEW t \in LogTasks, Advance(t)
  PROVE  LogInv'
<1>1. PICK f : f = [flusher[t] EXCEPT !.at = "slots", !.todo = Tail(@)]
  OBVIOUS
<1>2. /\ flusher[t].at = "written"
      /\ flusher' = [flusher EXCEPT ![t] = f]
      /\ disk' = (IF flusher[t].wraps THEN [disk EXCEPT !.head = (@ + 1) % DiskCapacity]
                                      ELSE [disk EXCEPT !.count = @ + 1])
      /\ UNCHANGED <<buffer, sequence, dirty, file, clearing, added, since, saved, recent, raced>>
  BY <1>1 DEF Advance, ringVars, logHistories
<1>3. LogTyped /\ flusher[t] \in FlushType /\ disk \in DiskRings /\ recent \in Seq(Int)
  BY DEF LogInv, LogTyped
<1>4. flusher[t].todo \in Seq(Numbers)
  BY <1>3 DEF FlushType
<1>5. flusher[t].todo # <<>>
  BY <1>2, <1>3 DEF FlushType
<1>6. /\ Tail(flusher[t].todo) \in Seq(Numbers)
      /\ \A i \in DOMAIN Tail(flusher[t].todo) :
           i + 1 \in DOMAIN flusher[t].todo
           /\ Tail(flusher[t].todo)[i] = flusher[t].todo[i + 1]
  BY <1>4, <1>5
<1>7. /\ f \in FlushType /\ f.at = "slots" /\ f.todo = Tail(flusher[t].todo)
      /\ f.seq = flusher[t].seq /\ f.copies = flusher[t].copies
  BY <1>1, <1>3, <1>6 DEF FlushType
<1>8. /\ flusher' \in [LogTasks -> FlushType']
      /\ flusher'[t] = f /\ \A o \in LogTasks : o # t => flusher'[o] = flusher[o]
  BY <1>2, <1>3, <1>7, FlushGoesOn
<1>9. disk' \in DiskRings
  <2>1. /\ disk.head \in 0 .. DiskCapacity - 1 /\ disk.count \in Nat
        /\ DiskCapacity \in Nat \ {0}
    BY <1>3, LogAssumption DEF DiskRings
  <2>2. (disk.head + 1) % DiskCapacity \in 0 .. DiskCapacity - 1
    BY <2>1
  <2>3. QED
    BY <1>2, <1>3, <2>1, <2>2 DEF DiskRings
<1>10. LogTyped'
  BY <1>2, <1>3, <1>8, <1>9 DEF LogTyped, Numbers, FileType
<1>11. ASSUME ~raced
       PROVE  Alone' /\ RingIsTrue' /\ NewsAreKept'
  <2>1. Alone /\ RingIsTrue /\ NewsAreKept
    BY <1>11 DEF LogInv
  <2>2. file # NoFile /\ (flusher[t].wraps <=> disk.count >= DiskCapacity)
    BY <1>2, <2>1 DEF RingIsTrue
  <2>3. disk' = Used(disk)
    BY <1>2, <2>2 DEF Used
  <2>4. \A i \in DOMAIN f.todo : f.todo[i] # 0
    <3>1. FlushIsTrue(flusher[t])
      BY <2>1 DEF NewsAreKept
    <3>2. \A i \in DOMAIN flusher[t].todo : flusher[t].todo[i] # 0
      BY <1>2, <3>1 DEF FlushIsTrue
    <3>3. QED
      BY <1>6, <1>7, <3>2
  <2>5. Alone' /\ NewsAreKept'
    BY <1>2, <1>7, <1>11, <2>2, <2>4, OneFlushMoves
  <2>6. \A o \in LogTasks : o # t => flusher[o].at = "none" /\ flusher'[o].at = "none"
    BY <1>2, <1>8, <2>1, OthersRest
  <2>7. Written /\ ~Written'
    BY <1>2, <1>7, <1>8, <2>6 DEF Written
  <2>8. /\ disk'.count = IF disk.count >= DiskCapacity THEN disk.count ELSE disk.count + 1
        /\ NextSlot(disk') = SlotAfter(NextSlot(disk))
    BY <1>3, <2>3, UsedIs
  <2>9. RingEnd' = RingEnd
    BY <2>7, <2>8 DEF RingEnd, NextSlot
  <2>10. Depth' = Depth /\ disk'.count <= DiskCapacity
    BY <1>3, <2>1, <2>7, <2>8, LogAssumption DEF Depth, RingIsTrue, DiskRings
  <2>11. \A o \in LogTasks : flusher'[o].at # "written"
    BY <2>7 DEF Written
  <2>12. RingIsTrue'
    BY <1>2, <2>1, <2>9, <2>10, <2>11 DEF RingIsTrue, Stored
  <2>13. QED
    BY <2>5, <2>12
<1>12. QED
  BY <1>2, <1>10, <1>11 DEF LogInv

(* A header that was written covers the slots before it.                   *)
LEMMA CoveredIs ==
  ASSUME NEW s \in Seq(Int)
  PROVE  /\ Covered(s) \in Seq(Int) /\ Len(Covered(s)) = Len(s)
         /\ \A k \in 0 .. Len(s) - 1 : FromBack(Covered(s), k) = Magnitude(FromBack(s, k))
<1>1. /\ Len(s) \in Nat /\ DOMAIN s = 1 .. Len(s) /\ \A i \in 1 .. Len(s) : s[i] \in Int
  OBVIOUS
<1>2. Covered(s) = [i \in 1 .. Len(s) |-> Magnitude(s[i])]
  BY <1>1 DEF Covered, Magnitude
<1>3. \A i \in 1 .. Len(s) : Magnitude(s[i]) \in Int
  BY <1>1 DEF Magnitude
<1>4. Covered(s) \in Seq(Int) /\ Len(Covered(s)) = Len(s)
  <2>1. Covered(s) \in [1 .. Len(s) -> Int]
    BY <1>2, <1>3
  <2>2. QED
    BY <1>1, <2>1
<1>5. ASSUME NEW k \in 0 .. Len(s) - 1
      PROVE  FromBack(Covered(s), k) = Magnitude(FromBack(s, k))
  <2>1. Len(s) - k \in 1 .. Len(s)
    BY <1>1
  <2>2. QED
    BY <1>2, <1>4, <2>1 DEF FromBack
<1>6. QED
  BY <1>4, <1>5

LEMMA WriteHeaderStep ==
  ASSUME LogInv, NEW t \in LogTasks, WriteHeader(t)
  PROVE  LogInv'
<1>1. PICK f : f = [flusher[t] EXCEPT !.at = "mark"]
  OBVIOUS
<1>2. /\ flusher[t].at = "slots" /\ flusher[t].todo = <<>>
      /\ \/ /\ file # NoFile /\ file' = [file EXCEPT !.ring = disk]
            /\ recent' = Covered(recent)
         \/ UNCHANGED <<file, recent>>
      /\ saved' = saved \cup flusher[t].copies
      /\ flusher' = [flusher EXCEPT ![t] = f]
      /\ UNCHANGED <<buffer, sequence, dirty, disk, clearing, added, since, raced>>
  BY <1>1 DEF WriteHeader, ringVars
<1>3. LogTyped /\ flusher[t] \in FlushType /\ disk \in DiskRings /\ recent \in Seq(Int)
      /\ added \in Nat
  BY DEF LogInv, LogTyped
<1>4. /\ f \in FlushType /\ f.at = "mark" /\ f.todo = flusher[t].todo
      /\ f.seq = flusher[t].seq /\ f.copies = flusher[t].copies
  BY <1>1, <1>3 DEF FlushType
<1>5. /\ flusher' \in [LogTasks -> FlushType']
      /\ flusher'[t] = f /\ \A o \in LogTasks : o # t => flusher'[o] = flusher[o]
  BY <1>2, <1>3, <1>4, FlushGoesOn
<1>6. ASSUME file # NoFile, file' = [file EXCEPT !.ring = disk]
      PROVE  file' \in FileType /\ file' # NoFile /\ file'.ring = disk /\ file'.slots = file.slots
  <2>1. file \in FileType
    BY <1>3, <1>6 DEF LogTyped
  <2>2. file' \in FileType /\ file'.ring = disk /\ file'.slots = file.slots
    BY <1>3, <1>6, <2>1 DEF FileType
  <2>3. 0 \in DOMAIN file'.slots /\ 0 \notin DOMAIN NoFile.slots
    BY <2>2, LogAssumption DEF FileType, NoFile
  <2>4. QED
    BY <2>2, <2>3
<1>7. recent' \in Seq(Int) /\ (file' = NoFile \/ file' \in FileType)
  BY <1>2, <1>3, <1>6, CoveredIs DEF LogTyped
<1>8. LogTyped'
  <2>1. saved' \subseteq Nat
    BY <1>2, <1>3 DEF LogTyped, FlushType, Numbers
  <2>2. buffer' \in Seq(Numbers') /\ (file' = NoFile \/ file' \in FileType')
    BY <1>2, <1>3, <1>7 DEF LogTyped, Numbers, FileType
  <2>3. QED
    BY <1>2, <1>3, <1>5, <1>7, <2>1, <2>2 DEF LogTyped
<1>9. ASSUME ~raced
      PROVE  Alone' /\ RingIsTrue' /\ NewsAreKept'
  <2>1. Alone /\ RingIsTrue /\ NewsAreKept
    BY <1>9 DEF LogInv
  <2>2. ~clearing /\ \A o \in LogTasks : o # t => flusher[o] = NoFlush /\ flusher[o].at = "none"
    BY <1>2, <2>1, OthersRest
  <2>3. Alone'
    BY <1>2, <1>5, <2>2 DEF Alone
  <2>4. \A o \in LogTasks : flusher[o].at # "written" /\ flusher'[o].at # "written"
    BY <1>2, <1>4, <1>5, <2>2
  <2>5. ASSUME UNCHANGED <<file, recent>>
        PROVE  RingIsTrue'
    BY <1>2, <2>1, <2>4, <2>5, SameRing
  <2>6. ASSUME file # NoFile, file' = [file EXCEPT !.ring = disk],
               recent' = Covered(recent)
        PROVE  RingIsTrue'
    <3>1. /\ file' # NoFile /\ file'.ring = disk /\ file'.slots = file.slots
          /\ Len(recent') = Len(recent)
          /\ \A k \in 0 .. Len(recent) - 1 : FromBack(recent', k) = Magnitude(FromBack(recent, k))
      BY <1>3, <1>6, <2>6, CoveredIs
    <3>2. ~Written /\ ~Written'
      BY <2>4 DEF Written
    <3>3. /\ RingEnd' = NextSlot(disk) /\ RingEnd = NextSlot(disk)
          /\ Depth' = disk.count /\ Depth = disk.count
      BY <1>2, <3>2 DEF RingEnd, Depth
    <3>4. Len(recent) <= disk.count /\ disk.count <= DiskCapacity
      BY <2>1, <3>3 DEF RingIsTrue
    <3>5. ASSUME NEW k \in 0 .. Len(recent') - 1
          PROVE  /\ file'.slots[SlotBefore(RingEnd', k)] = Magnitude(FromBack(recent', k))
                 /\ FromBack(recent', k) >= 0 => Within(file'.ring, SlotBefore(RingEnd', k))
      <4>1. k \in 0 .. Len(recent) - 1 /\ k \in 0 .. disk.count - 1
        BY <1>3, <3>1, <3>4 DEF DiskRings
      <4>2. FromBack(recent, k) \in Int
        BY <1>3, <4>1 DEF FromBack
      <4>3. Magnitude(Magnitude(FromBack(recent, k))) = Magnitude(FromBack(recent, k))
        BY <4>2 DEF Magnitude
      <4>4. file.slots[SlotBefore(RingEnd, k)] = Magnitude(FromBack(recent, k))
        BY <2>1, <4>1 DEF RingIsTrue, Stored
      <4>5. Within(disk, SlotBefore(NextSlot(disk), k))
        BY <1>3, <3>4, <4>1, WithinBefore
      <4>6. QED
        BY <3>1, <3>3, <4>1, <4>3, <4>4, <4>5
    <3>6. QED
      BY <1>2, <2>4, <3>1, <3>3, <3>4, <3>5 DEF RingIsTrue, Stored
  <2>7. FlushIsTrue(flusher[t])
    BY <2>1 DEF NewsAreKept
  <2>8. /\ sequence.flushed < f.seq /\ f.seq <= sequence.ram
        /\ KeptUpTo(f.seq, saved') /\ \A i \in DOMAIN f.todo : f.todo[i] # 0
    BY <1>2, <1>4, <2>7 DEF FlushIsTrue
  <2>9. \A o \in LogTasks : FlushIsTrue(flusher[o])'
    <3> SUFFICES ASSUME NEW o \in LogTasks, flusher'[o].at # "none"
                 PROVE  FlushIsTrue(flusher[o])'
      BY DEF FlushIsTrue
    <3>1. flusher'[o] = f
      BY <1>5, <2>2
    <3>2. QED
      BY <1>2, <1>4, <2>8, <3>1 DEF FlushIsTrue, KeptUpTo
  <2>10. ASSUME file' = NoFile
         PROVE  saved' = {} /\ \A o \in LogTasks : flusher'[o].at # "slots"
    <3>1. file = NoFile
      BY <1>2, <1>6, <2>10
    <3>2. saved = {} /\ flusher[t].copies = Range(flusher[t].todo)
      BY <1>2, <2>1, <3>1 DEF NewsAreKept
    <3>3. Range(flusher[t].todo) = {}
      BY <1>2 DEF Range
    <3>4. QED
      BY <1>2, <1>4, <1>5, <2>2, <3>2, <3>3
  <2>11. KeptUpTo(sequence.flushed, saved)'
    BY <1>2, <2>1 DEF NewsAreKept, KeptUpTo
  <2>12. NewsAreKept'
    BY <1>2, <2>1, <2>9, <2>10, <2>11 DEF NewsAreKept, EndsWithNews
  <2>13. QED
    BY <1>2, <2>3, <2>5, <2>6, <2>12
<1>10. QED
  BY <1>2, <1>8, <1>9 DEF LogInv

LEMMA MarkStep ==
  ASSUME LogInv, NEW t \in LogTasks, Mark(t)
  PROVE  LogInv'
<1>1. /\ flusher[t].at = "mark" /\ flusher' = [flusher EXCEPT ![t] = NoFlush]
      /\ \/ /\ sequence' = [sequence EXCEPT !.flushed = flusher[t].seq]
            /\ dirty' = (dirty /\ sequence.ram # flusher[t].seq)
         \/ UNCHANGED <<sequence, dirty>>
      /\ UNCHANGED <<buffer, file, disk, clearing, added, since, saved, recent, raced>>
  BY DEF Mark, Flushed, logHistories
<1>2. LogTyped /\ flusher[t] \in FlushType
  BY DEF LogInv, LogTyped
<1>3. /\ flusher' \in [LogTasks -> FlushType']
      /\ flusher'[t] = NoFlush /\ \A o \in LogTasks : o # t => flusher'[o] = flusher[o]
  BY <1>1, <1>2, NoFlushTyped, FlushGoesOn
<1>4. sequence' \in [ram : Nat, flushed : Nat] /\ sequence'.ram = sequence.ram
      /\ sequence.ram \in Nat /\ sequence.flushed \in Nat /\ flusher[t].seq \in Nat
  BY <1>1, <1>2 DEF LogTyped, FlushType
<1>5. LogTyped'
  BY <1>1, <1>2, <1>3, <1>4 DEF LogTyped, FileType, Numbers
<1>6. ASSUME ~raced
      PROVE  Alone' /\ RingIsTrue' /\ NewsAreKept'
  <2>1. Alone /\ RingIsTrue /\ NewsAreKept
    BY <1>6 DEF LogInv
  <2>2. ~clearing /\ \A o \in LogTasks : o # t => flusher[o] = NoFlush /\ flusher[o].at = "none"
    BY <1>1, <2>1, OthersRest
  <2>3. Alone'
    BY <1>1, <1>3, <2>2 DEF Alone
  <2>4. RingIsTrue'
    BY <1>1, <1>3, <2>1, NoFlushTyped, SameRing
  <2>5. \A o \in LogTasks : flusher'[o].at = "none"
    BY <1>3, <2>2, NoFlushTyped
  <2>6. /\ sequence.flushed < flusher[t].seq /\ flusher[t].seq <= sequence.ram
        /\ KeptUpTo(flusher[t].seq, saved)
    BY <1>1, <2>1 DEF NewsAreKept, FlushIsTrue
  <2>7. /\ sequence'.flushed <= sequence'.ram /\ KeptUpTo(sequence'.flushed, saved)
        /\ (sequence'.ram # sequence'.flushed => dirty')
    <3>1. CASE UNCHANGED <<sequence, dirty>>
      BY <2>1, <3>1 DEF NewsAreKept
    <3>2. CASE /\ sequence' = [sequence EXCEPT !.flushed = flusher[t].seq]
               /\ dirty' = (dirty /\ sequence.ram # flusher[t].seq)
      <4>1. sequence'.flushed = flusher[t].seq
        BY <1>2, <3>2 DEF LogTyped
      <4>2. sequence.ram # sequence.flushed
        BY <1>4, <2>6
      <4>3. dirty
        BY <2>1, <4>2 DEF NewsAreKept
      <4>4. sequence'.ram # sequence'.flushed => dirty'
        BY <1>4, <3>2, <4>1, <4>3
      <4>5. QED
        BY <1>4, <2>6, <4>1, <4>4
    <3>3. QED
      BY <1>1, <3>1, <3>2
  <2>8. KeptUpTo(sequence.flushed, saved)' /\ EndsWithNews'
    BY <1>1, <1>4, <2>1, <2>7 DEF NewsAreKept, KeptUpTo, EndsWithNews
  <2>9. NewsAreKept'
    BY <1>1, <1>4, <2>1, <2>5, <2>7, <2>8 DEF NewsAreKept, FlushIsTrue
  <2>10. QED
    BY <2>3, <2>4, <2>9
<1>7. QED
  BY <1>1, <1>5, <1>6 DEF LogInv

LEMMA ClearBufferStep ==
  ASSUME LogInv, ClearBuffer
  PROVE  LogInv'
<1>1. /\ clearing' /\ buffer' = <<>> /\ sequence' = [ram |-> 0, flushed |-> 0]
      /\ since' = added
      /\ raced' = (raced \/ \E t \in LogTasks : flusher[t] # NoFlush)
      /\ UNCHANGED <<file, disk, flusher, added, saved, recent>>
  BY DEF ClearBuffer
<1>2. LogTyped /\ added \in Nat
  BY DEF LogInv, LogTyped
<1>3. LogTyped'
  BY <1>1, <1>2 DEF LogTyped, FileType, FlushType, Numbers
<1>4. ASSUME ~raced'
      PROVE  Alone' /\ RingIsTrue' /\ NewsAreKept'
  <2>1. ~raced /\ \A t \in LogTasks : flusher[t] = NoFlush /\ flusher[t].at = "none"
    BY <1>1, <1>4, NoFlushTyped
  <2>2. Alone /\ RingIsTrue /\ NewsAreKept
    BY <2>1 DEF LogInv
  <2>3. sequence'.ram = 0 /\ sequence'.flushed = 0
    BY <1>1
  <2>4. Alone'
    BY <1>1, <2>1, <2>3 DEF Alone
  <2>5. RingIsTrue'
    BY <1>1, <2>2, SameRing
  <2>6. Len(buffer') = 0 /\ Range(buffer') = {}
    BY <1>1 DEF Range
  <2>7. EndsWithNews' /\ KeptUpTo(sequence.flushed, saved)'
    BY <2>6 DEF EndsWithNews, KeptUpTo
  <2>8. NewsAreKept'
    BY <1>1, <1>2, <2>1, <2>2, <2>3, <2>7 DEF NewsAreKept, FlushIsTrue
  <2>9. QED
    BY <2>4, <2>5, <2>8
<1>5. QED
  BY <1>3, <1>4 DEF LogInv

LEMMA ClearFileStep ==
  ASSUME LogInv, ClearFile
  PROVE  LogInv'
<1>1. /\ clearing /\ ~clearing' /\ file' = NoFile /\ disk' = EmptyRing
      /\ saved' = {} /\ recent' = <<>>
      /\ UNCHANGED <<buffer, sequence, dirty, flusher, added, since, raced>>
  BY DEF ClearFile, ringVars
<1>2. LogTyped /\ added \in Nat /\ since \in Nat /\ sequence.ram \in Nat /\ sequence.flushed \in Nat
  BY DEF LogInv, LogTyped
<1>3. EmptyRing \in DiskRings /\ EmptyRing.count = 0
  BY LogAssumption DEF EmptyRing, DiskRings
<1>4. LogTyped'
  BY <1>1, <1>2, <1>3 DEF LogTyped, FlushType, Numbers
<1>5. ASSUME ~raced'
      PROVE  Alone' /\ RingIsTrue' /\ NewsAreKept'
  <2>1. Alone /\ NewsAreKept
    BY <1>1, <1>5 DEF LogInv
  <2>2. sequence.flushed = 0 /\ \A t \in LogTasks : flusher[t] = NoFlush /\ flusher[t].at = "none"
    BY <1>1, <2>1, NoFlushTyped DEF Alone
  <2>3. Alone'
    BY <1>1, <2>2 DEF Alone
  <2>4. RingIsTrue'
    <3>1. Len(recent') = 0 /\ disk'.count = 0 /\ ~Written'
      BY <1>1, <1>3, <2>2 DEF Written
    <3>2. Depth' = 0
      BY <3>1 DEF Depth
    <3>3. QED
      BY <1>1, <2>2, <3>1, <3>2, LogAssumption DEF RingIsTrue
  <2>5. \A e \in Range(buffer) : ~(since < e /\ e <= added - sequence.ram + sequence.flushed)
    <3>1. \A e \in Range(buffer) : e \in Nat
      BY <1>2 DEF LogTyped, Numbers, Range
    <3>2. added - sequence.ram <= since
      BY <2>1 DEF NewsAreKept
    <3>3. QED
      BY <1>2, <2>2, <3>1, <3>2
  <2>6. KeptUpTo(sequence.flushed, saved)' /\ EndsWithNews'
    BY <1>1, <2>1, <2>5 DEF NewsAreKept, KeptUpTo, EndsWithNews
  <2>7. NewsAreKept'
    BY <1>1, <2>1, <2>2, <2>6 DEF NewsAreKept, FlushIsTrue
  <2>8. QED
    BY <2>3, <2>4, <2>7
<1>6. QED
  BY <1>4, <1>5 DEF LogInv

(* What a boot makes of the file, whatever was under way.                  *)
LEMMA LoadFromDiskStep ==
  ASSUME LogInv, LoadFromDisk
  PROVE  LogInv'
<1>1. /\ disk' = [file.ring EXCEPT !.count = Len(Listing)]
      /\ buffer' = Newest(Listing, RamCapacity)
      /\ sequence' = [ram |-> 0, flushed |-> 0] /\ ~clearing'
      /\ flusher' = [t \in LogTasks |-> NoFlush]
      /\ since' = added /\ saved' = saved \cap Range(Listing) /\ recent' = Listing
      /\ UNCHANGED <<file, added>>
  BY DEF LoadFromDisk
<1>2. LogTyped /\ added \in Nat /\ RamCapacity \in Nat /\ DiskCapacity \in Nat \ {0}
  BY LogAssumption DEF LogInv, LogTyped
<1>3. PICK c : c = Len(Listing)
  OBVIOUS
<1>4. /\ Listing \in Seq(Numbers) /\ c \in Nat /\ c <= DiskCapacity /\ c <= file.ring.count
      /\ file.ring \in DiskRings
  <2>1. file.ring \in DiskRings
    BY <1>2 DEF LogTyped, FileType, NoFile, EmptyRing, DiskRings
  <2>2. /\ Listing \in Seq(Numbers)
        /\ c = IF file.ring.count > DiskCapacity THEN DiskCapacity ELSE file.ring.count
    BY <1>2, <1>3, ListingIs
  <2>3. file.ring.count \in Nat
    BY <2>1 DEF DiskRings
  <2>4. QED
    BY <1>2, <2>1, <2>2, <2>3
<1>5. disk' \in DiskRings /\ disk'.head = file.ring.head /\ disk'.count = c
  BY <1>1, <1>3, <1>4 DEF DiskRings
<1>6. /\ buffer' \in Seq(Numbers)
      /\ \A t \in LogTasks : flusher'[t] = NoFlush /\ flusher'[t].at = "none"
  BY <1>1, <1>2, <1>4, NewestIs, NoFlushTyped
<1>7. Listing \in Seq(Int)
  <2>1. Numbers \subseteq Int
    BY <1>2 DEF Numbers
  <2>2. QED
    BY <1>4, <2>1, SeqGrows
<1>8. LogTyped'
  <2>1. flusher' \in [LogTasks -> FlushType']
    BY <1>1, NoFlushTyped DEF FlushType, Numbers
  <2>2. buffer' \in Seq(Numbers') /\ (file' = NoFile \/ file' \in FileType')
    BY <1>1, <1>2, <1>6 DEF LogTyped, Numbers, FileType
  <2>3. QED
    BY <1>1, <1>2, <1>5, <1>7, <2>1, <2>2 DEF LogTyped
<1>9. Alone'
  BY <1>1, <1>6 DEF Alone
<1>10. RingIsTrue'
  <2>1. ~Written'
    BY <1>6 DEF Written
  <2>2. RingEnd' = NextSlot(disk') /\ Depth' = c
    BY <1>5, <2>1 DEF RingEnd, Depth, NextSlot
  <2>3. recent' # <<>> => file' # NoFile
    BY <1>1, <1>2, ListingIs
  <2>4. ASSUME NEW k \in 0 .. Len(recent') - 1
        PROVE  /\ file'.slots[SlotBefore(RingEnd', k)] = Magnitude(FromBack(recent', k))
               /\ FromBack(recent', k) >= 0 => Within(file'.ring, SlotBefore(RingEnd', k))
    <3>1. k \in 0 .. c - 1 /\ c - k \in 1 .. Len(Listing) /\ Listing # <<>>
      BY <1>1, <1>3, <1>4, <2>4
    <3>2. PICK h : h = file.ring.head
      OBVIOUS
    <3>3. h \in 0 .. DiskCapacity - 1 /\ file.ring.count \in Nat
      BY <1>4, <3>2 DEF DiskRings
    <3>4. SlotBefore(RingEnd', k) = IF h + (c - k) - 1 < DiskCapacity THEN h + (c - k) - 1
                                    ELSE h + (c - k) - 1 - DiskCapacity
      <4>1. c \in 0 .. DiskCapacity /\ k \in 0 .. c - 1
        BY <1>2, <1>4, <3>1
      <4>2. RingEnd' = IF c >= DiskCapacity THEN h
                       ELSE IF h + c < DiskCapacity THEN h + c ELSE h + c - DiskCapacity
        BY <1>5, <2>2, <3>2 DEF NextSlot
      <4>3. PICK q : q = RingEnd'
        OBVIOUS
      <4>4. SlotBefore(q, k) = IF h + (c - k) - 1 < DiskCapacity THEN h + (c - k) - 1
                               ELSE h + (c - k) - 1 - DiskCapacity
        BY <1>2, <3>3, <4>1, <4>2, <4>3 DEF SlotBefore
      <4>5. QED
        BY <4>3, <4>4
    <3>5. file # NoFile
      BY <1>2, <3>1, ListingIs
    <3>6. Listing[c - k] = file.slots[SlotBefore(RingEnd', k)]
      BY <1>2, <3>1, <3>2, <3>4, <3>5, ListingIs
    <3>7. FromBack(recent', k) = Listing[c - k] /\ Listing[c - k] \in Nat
      BY <1>1, <1>2, <1>3, <1>4, <3>1 DEF FromBack, Numbers
    <3>8. Within(file.ring, SlotBefore(RingEnd', k))
      <4>1. PICK q : q = SlotBefore(RingEnd', k)
        OBVIOUS
      <4>2. c \in 0 .. DiskCapacity /\ k \in 0 .. c - 1 /\ c <= file.ring.count
        BY <1>2, <1>4, <3>1
      <4>3. (IF q >= h THEN q - h ELSE q - h + DiskCapacity) = c - k - 1
        BY <1>2, <3>3, <3>4, <4>1, <4>2
      <4>4. c - k - 1 < file.ring.count
        BY <3>3, <4>2
      <4>5. QED
        BY <3>2, <4>1, <4>3, <4>4 DEF Within
    <3>9. QED
      BY <1>1, <3>6, <3>7, <3>8 DEF Magnitude
  <2>5. QED
    BY <1>1, <1>3, <1>4, <1>5, <1>6, <2>2, <2>3, <2>4 DEF RingIsTrue, Stored
<1>11. NewsAreKept'
  <2>1. sequence'.ram = 0 /\ sequence'.flushed = 0
    BY <1>1
  <2>2. EndsWithNews'
    <3>1. \A k \in 0 .. Len(buffer') - 1 : FromBack(buffer', k) <= added
      BY <1>2, <1>6 DEF FromBack, Numbers
    <3>2. QED
      BY <1>1, <2>1, <3>1 DEF EndsWithNews, FromBack
  <2>3. KeptUpTo(sequence.flushed, saved)'
    <3>1. \A e \in Range(buffer') : e \in Nat /\ e <= added
      BY <1>2, <1>6 DEF Range, Numbers
    <3>2. QED
      BY <1>1, <1>2, <2>1, <3>1 DEF KeptUpTo
  <2>4. file' = NoFile => saved' = {}
    <3>1. Range(<<>>) = {}
      BY DEF Range
    <3>2. QED
      BY <1>1, <1>2, <3>1, ListingIs
  <2>5. QED
    BY <1>1, <1>2, <1>6, <2>1, <2>2, <2>3, <2>4 DEF NewsAreKept, FlushIsTrue
<1>12. QED
  BY <1>8, <1>9, <1>10, <1>11 DEF LogInv

LEMMA LogStays ==
  ASSUME LogInv, UNCHANGED logVars
  PROVE  LogInv'
<1>1. UNCHANGED <<buffer, sequence, dirty, file, disk, flusher, clearing, added, since,
                  saved, recent, raced>>
  BY DEF logVars, ringVars, logHistories
<1>2. LogTyped /\ LogTyped'
  BY <1>1 DEF LogInv, LogTyped, FileType, FlushType, Numbers
<1>3. RingIsTrue => RingIsTrue'
  BY <1>1, SameRing
<1>4. Alone /\ NewsAreKept => Alone' /\ NewsAreKept'
  BY <1>1 DEF Alone, NewsAreKept, FlushIsTrue, KeptUpTo, EndsWithNews
<1>5. QED
  BY <1>1, <1>2, <1>3, <1>4 DEF LogInv

LEMMA LogStep ==
  ASSUME LogInv, [LogNext]_logVars
  PROVE  LogInv'
<1>1. ASSUME NEW t \in LogTasks,
             \/ FlushBegins(t) \/ OpenFails(t) \/ NoFileAtAll(t)
             \/ WriteSlot(t) \/ SlotFails(t) \/ Advance(t)
             \/ WriteHeader(t) \/ Mark(t)
      PROVE  LogInv'
  BY <1>1, FlushBeginsStep, OpenFailsStep, GiveUpSteps, WriteSlotStep, AdvanceStep,
     WriteHeaderStep, MarkStep
<1>2. QED
  BY <1>1, AddStep, ClearBufferStep, ClearFileStep, LoadFromDiskStep, LogStays DEF LogNext

LEMMA LogBegins ==
  ASSUME LogInit
  PROVE  LogInv
<1>1. EmptyRing \in DiskRings /\ EmptyRing.count = 0
  BY LogAssumption DEF EmptyRing, DiskRings
<1>2. /\ \A t \in LogTasks : flusher[t] = NoFlush /\ flusher[t].at = "none"
      /\ flusher \in [LogTasks -> FlushType]
  BY NoFlushTyped DEF LogInit
<1>3. LogTyped
  BY <1>1, <1>2 DEF LogInit, LogTyped
<1>4. Alone
  BY <1>2 DEF LogInit, Alone
<1>5. RingIsTrue
  <2>1. Len(recent) = 0 /\ disk.count = 0 /\ ~Written
    BY <1>1, <1>2 DEF Written, LogInit
  <2>2. Depth = 0 /\ recent = <<>>
    BY <2>1 DEF Depth, LogInit
  <2>3. QED
    BY <1>2, <2>1, <2>2, LogAssumption DEF RingIsTrue
<1>6. NewsAreKept
  <2>1. /\ Len(buffer) = 0 /\ Range(buffer) = {} /\ sequence.ram = 0 /\ sequence.flushed = 0
        /\ added = 0 /\ since = 0 /\ saved = {}
    BY DEF LogInit, Range
  <2>2. EndsWithNews /\ KeptUpTo(sequence.flushed, saved)
    BY <2>1 DEF EndsWithNews, KeptUpTo
  <2>3. QED
    BY <1>2, <2>1, <2>2 DEF NewsAreKept, FlushIsTrue
<1>7. QED
  BY <1>3, <1>4, <1>5, <1>6 DEF LogInv

LEMMA SavedAreListed ==
  ASSUME LogTyped, RingIsTrue, NEW e \in saved \cap Range(recent)
  PROVE  e \in Range(Listing)
<1>1. e \in Nat /\ recent \in Seq(Int) /\ disk \in DiskRings
  BY DEF LogTyped
<1>2. PICK k \in 0 .. Len(recent) - 1 : e = FromBack(recent, k)
  BY <1>1, RangeFromBack
<1>3. Stored(e, SlotBefore(RingEnd, k)) /\ Len(recent) <= Depth /\ disk.count <= DiskCapacity
  BY <1>2 DEF RingIsTrue
<1>4. file # NoFile
  <2>1. recent # <<>>
    BY <1>1, <1>2
  <2>2. QED
    BY <2>1 DEF RingIsTrue
<1>5. RingEnd \in 0 .. DiskCapacity - 1
  BY <1>1, SlotIs, SlotPositions DEF RingEnd
<1>6. k \in 0 .. DiskCapacity - 1
  <2>1. Depth \in Nat /\ Depth <= DiskCapacity
    BY <1>1, <1>3, LogAssumption DEF Depth, DiskRings
  <2>2. QED
    BY <1>1, <1>2, <1>3, <2>1, LogAssumption
<1>7. SlotBefore(RingEnd, k) \in 0 .. DiskCapacity - 1
  BY <1>5, <1>6, SlotPositions
<1>8. file.slots[SlotBefore(RingEnd, k)] = e /\ Within(file.ring, SlotBefore(RingEnd, k))
  BY <1>1, <1>3 DEF Stored, Magnitude
<1>9. QED
  BY <1>4, <1>7, <1>8, WithinIsListed

(* A flash log that one flush at a time keeps loses nothing that it wrote  *)
(* and takes what it has not: src/services/EventLog.cpp, flushToDisk(),    *)
(* loadFromDisk() and clear(), with the power failing between any two      *)
(* steps, for every capacity of the two rings.                             *)
THEOREM SavedStaySaved ==
  LogSpec => []SavedEventsSurvive
<1>1. LogInit => LogInv
  BY LogBegins
<1>2. LogInv /\ [LogNext]_logVars => LogInv'
  BY LogStep
<1>3. LogInv => SavedEventsSurvive
  <2> SUFFICES ASSUME LogInv, ~raced
               PROVE  /\ saved \cap Range(recent) \subseteq Range(Listing)
                      /\ \A e \in Range(buffer) :
                           e > since /\ e \notin saved =>
                             dirty /\ sequence.ram # sequence.flushed /\ e \in Range(NewEvents)
    BY DEF SavedEventsSurvive
  <2>1. LogTyped /\ RingIsTrue /\ NewsAreKept
    BY DEF LogInv
  <2>2. saved \cap Range(recent) \subseteq Range(Listing)
    BY <2>1, SavedAreListed
  <2>3. ASSUME NEW e \in Range(buffer), e > since, e \notin saved
        PROVE  dirty /\ sequence.ram # sequence.flushed /\ e \in Range(NewEvents)
    <3>1. /\ e \in Nat /\ e <= added /\ added \in Nat /\ since \in Nat
          /\ sequence.ram \in Nat /\ sequence.flushed \in Nat
      BY <2>1 DEF LogTyped, Numbers, Range
    <3>2. since < e
      BY <2>3, <3>1
    <3>3. e \in Range(NewEvents) /\ e > added - sequence.ram + sequence.flushed
      BY <2>1, <2>3, <3>2, NewEventsAre
    <3>4. sequence.ram # sequence.flushed
      BY <3>1, <3>3
    <3>5. QED
      BY <2>1, <3>3, <3>4 DEF NewsAreKept
  <2>4. QED
    BY <2>2, <2>3
<1>4. QED
  BY <1>1, <1>2, <1>3, PTL DEF LogSpec
=============================================================================
