------------------------------ MODULE CsiModel ------------------------------
(***************************************************************************)
(* The life of a CSI site model: three slots (active, candidate, previous) *)
(* in RAM and in flash (CsiModelManager, NvsCsiModelStore), the one-entry  *)
(* command slot between the web task and csi_proc (CsiModelCommandSlot),   *)
(* site learning, which makes candidates, and the slow drift of the active *)
(* model, which the main loop computes and csi_proc saves.                 *)
(*                                                                         *)
(* Three tasks interleave: the web task waits for an answer for a while    *)
(* and then gives up, csi_proc executes commands, the loop learns and      *)
(* drifts.  Flash refuses writes, tears them, and the power fails.         *)
(*                                                                         *)
(* A model is its generation and the generation its statistics descend     *)
(* from (`base'); what the statistics are is left out, and so are the MQTT *)
(* topics that only report the slots.                                      *)
(***************************************************************************)
EXTENDS Naturals

CONSTANTS MaxGeneration,     \* generations handed out (bound)
          MaxRequests,       \* requests of the web task (bound)
          MaxFaults          \* failed writes and power cuts (bound)

VARIABLES
  models,      \* CsiModelManager: _active, _cand, _prev
  modelNvs,    \* the three blobs, the generation counter, the legacy keys
  command,     \* CsiModelCommandSlot: state, abandoned, request, result
  requester,   \* the web task: where it is, its request, what it was told
  worker,      \* csi_proc: where it is in a command
  learner,     \* the loop: learning? drifting? and the model it started from
  tuned,       \* base of the _learned* copies and of the stored threshold
  drift,       \* the stash _emaPersist*: pending, base
  csiFaults    \* faults so far

csiModelVars == <<models, modelNvs, command, requester, worker, learner, tuned,
                  drift, csiFaults>>

NoModel == [gen |-> 0, base |-> 0]
Torn    == [gen |-> 0, base |-> MaxGeneration + 1]  \* its checksum is wrong
Blank   == [gen |-> 0, base |-> MaxGeneration + 2]  \* no model, marked valid
Models  == [gen : 0..MaxGeneration, base : 0..MaxGeneration + 2]
Valid(m) == m \notin {NoModel, Torn}
NewModel(g) == [gen |-> g, base |-> g]

Commands == {"APPLY", "ROLLBACK", "CLEAR_CANDIDATE", "CLEAR_ALL", "IMPORT"}
NoRequest == [id |-> 0, cmd |-> "APPLY", sound |-> TRUE]
Requests  == [id : 1..MaxRequests, cmd : Commands, sound : BOOLEAN]

-----------------------------------------------------------------------------
(* Flash.  A write is verified by reading it back: it succeeds, it is      *)
(* refused and leaves the old blob, or it leaves a torn one.               *)
WriteOutcomes == IF csiFaults < MaxFaults THEN {"ok", "refused", "torn"}
                                          ELSE {"ok"}
EraseOutcomes == WriteOutcomes \ {"torn"}

writeSlot(old, new, outcome) == CASE outcome = "ok"      -> new
                                  [] outcome = "refused" -> old
                                  [] outcome = "torn"    -> Torn
CountFault(outcomes) ==
  csiFaults' = IF outcomes \subseteq {"ok"} THEN csiFaults ELSE csiFaults + 1

(* A blob that is torn is not loaded. *)
readSlot(blob) == IF Valid(blob) THEN blob ELSE NoModel

loadFromStore(flash) == [act  |-> readSlot(flash.act),
                         cand |-> readSlot(flash.cand),
                         prev |-> readSlot(flash.prev)]

nextGeneration(flash) == flash.lastGen + 1

-----------------------------------------------------------------------------
(* The boot.  A model of the old one-model layout becomes the active slot, *)
(* unless there is one; its keys go once the slot is verified.  The loop's *)
(* copies come from the active slot, or from the old layout; the threshold *)
(* is the stored one.                                                      *)
Migrates(flash) == /\ ~Valid(readSlot(flash.act)) /\ flash.legacy
                   /\ flash.lastGen < MaxGeneration

Boot(flash, outcome) ==
  LET ram   == loadFromStore(flash)
      model == NewModel(nextGeneration(flash))
  IN IF Migrates(flash)
       THEN [models  |-> IF outcome = "ok" THEN [ram EXCEPT !.act = model] ELSE ram,
             nvs     |-> [flash EXCEPT !.act = writeSlot(@, model, outcome),
                                       !.lastGen = model.gen,
                                       !.legacy = outcome # "ok"],
             learned |-> model.base]
       ELSE [models |-> ram, nvs |-> flash, learned |-> ram.act.base]

IdleCommand == [state |-> "IDLE", abandoned |-> FALSE, req |-> NoRequest,
                answers |-> 0]
IdleWorker  == [at |-> "idle", req |-> NoRequest]
IdleLearner == [learning |-> FALSE, at |-> "idle", base |-> 0]
NoDrift     == [pending |-> FALSE, base |-> 0]

CsiModelInit ==
  /\ \E flash \in [act : {NoModel, NewModel(1)}, cand : {NoModel}, prev : {NoModel},
                   lastGen : {1}, legacy : BOOLEAN] :
       LET b == Boot(flash, "ok")
       IN /\ models = b.models /\ modelNvs = b.nvs
          /\ tuned = [learned |-> b.learned, stored |-> b.learned]
  /\ requester = [at |-> "idle", asked |-> 0, told |-> 0]
  /\ csiFaults = 0
  /\ command = IdleCommand /\ worker = IdleWorker
  /\ learner = IdleLearner /\ drift = NoDrift

PowerCut ==
  /\ csiFaults < MaxFaults
  /\ csiFaults' = csiFaults + 1
  /\ \E outcome \in WriteOutcomes :
       LET b == Boot(modelNvs, outcome)
       IN /\ models' = b.models /\ modelNvs' = b.nvs
          /\ tuned' = [tuned EXCEPT !.learned = b.learned]
  /\ requester' = [requester EXCEPT !.at = "idle", !.told = 0]
  /\ command' = IdleCommand /\ worker' = IdleWorker
  /\ learner' = IdleLearner /\ drift' = NoDrift

-----------------------------------------------------------------------------
(* The web task.  submit() takes the slot if it is free, or the client is  *)
(* told that another operation is in progress; applying and importing are  *)
(* refused while the site is learned.  `sound' says whether an imported    *)
(* model is valid, and whether a candidate fits the access point or its    *)
(* application is forced.                                                  *)
submit(cmd, sound) ==
  /\ requester.at = "idle"
  /\ requester.asked < MaxRequests
  /\ cmd \notin {"APPLY", "IMPORT"} => sound
  /\ cmd \in {"APPLY", "IMPORT"} => ~learner.learning
  /\ LET r == [id |-> requester.asked + 1, cmd |-> cmd, sound |-> sound]
     IN IF command.state = "IDLE"
          THEN /\ command' = [IdleCommand EXCEPT !.state = "PENDING", !.req = r]
               /\ requester' = [at |-> "waiting", asked |-> r.id, told |-> 0]
          ELSE /\ requester' = [requester EXCEPT !.asked = r.id, !.told = 0]
               /\ UNCHANGED command
  /\ UNCHANGED <<models, modelNvs, worker, learner, tuned, drift, csiFaults>>

(* poll(): the result of a finished command, after which the slot is free. *)
Answered ==
  /\ command.state = "DONE"
  /\ command' = IdleCommand
  /\ requester' = [requester EXCEPT !.at = "idle", !.told = command.answers]

poll ==
  /\ requester.at = "waiting"
  /\ Answered
  /\ UNCHANGED <<models, modelNvs, worker, learner, tuned, drift, csiFaults>>

(* abandon() raises the flag and then takes back a command that has not    *)
(* been claimed; a last poll follows.                                      *)
RaiseAbandoned ==
  /\ requester.at = "waiting"
  /\ command' = [command EXCEPT !.abandoned = TRUE]
  /\ requester' = [requester EXCEPT !.at = "abandoning"]
  /\ UNCHANGED <<models, modelNvs, worker, learner, tuned, drift, csiFaults>>

TakenBackRunningWrong(slot) ==
  IF slot.state \in {"PENDING", "EXECUTING"} THEN IdleCommand ELSE slot

TakenBack(slot) == IF slot.state = "PENDING"
                     THEN IdleCommand ELSE slot

TakeBack ==
  /\ requester.at = "abandoning"
  /\ command' = TakenBack(command)
  /\ requester' = [requester EXCEPT !.at = "last_poll"]
  /\ UNCHANGED <<models, modelNvs, worker, learner, tuned, drift, csiFaults>>

LastPoll ==
  /\ requester.at = "last_poll"
  /\ \/ Answered
     \/ /\ command.state # "DONE"                               \* TIMED_OUT
        /\ requester' = [requester EXCEPT !.at = "idle", !.told = 0]
        /\ UNCHANGED command
  /\ UNCHANGED <<models, modelNvs, worker, learner, tuned, drift, csiFaults>>

-----------------------------------------------------------------------------
(* csi_proc. *)
claimCommand ==
  /\ worker.at = "idle"
  /\ command.state = "PENDING"
  /\ command' = [command EXCEPT !.state = "EXECUTING"]
  /\ worker' = [at |-> "execute", req |-> command.req]
  /\ UNCHANGED <<models, modelNvs, requester, learner, tuned, drift, csiFaults>>

(* The command is over; its result is on its way to the slot. *)
Finished == worker' = [worker EXCEPT !.at = "complete"]

(* _switchDetectionToActive(): a drift that waits to be saved is dropped,  *)
(* the loop's copies and the stored threshold are those of the new model.  *)
SwitchDetection(model) ==
  /\ drift' = [drift EXCEPT !.pending = FALSE]
  /\ tuned' = [learned |-> IF model = Blank THEN 0 ELSE model.base,
             stored  |-> model.base]

(* applyCandidate(), rollback(): PREVIOUS is written first, then ACTIVE;   *)
(* RAM changes only when both writes are verified.  An incompatible access *)
(* point stops an apply that is not forced.  A rollback marks whatever was *)
(* active as valid, an empty slot too.                                     *)
NextActive(cmd) == IF cmd = "APPLY" THEN models.cand ELSE models.prev
NextPrevious    == IF Valid(models.act) THEN models.act ELSE Blank

WritesPrevious(cmd) == cmd = "ROLLBACK" \/ Valid(models.act)

(* What the two writes put where. *)
FirstWriteActiveWrong(flash, cmd, outcome) ==
  [flash EXCEPT !.act = writeSlot(@, NextActive(cmd), outcome)]
FirstWrite(flash, cmd, outcome) ==
  [flash EXCEPT !.prev = writeSlot(@, NextPrevious, outcome)]
SecondWrite(flash, cmd, outcome) ==
  [flash EXCEPT !.act = writeSlot(@, NextActive(cmd), outcome)]

SwitchFirstWrite ==
  /\ worker.at = "execute"
  /\ worker.req.cmd \in {"APPLY", "ROLLBACK"}
  /\ LET next == NextActive(worker.req.cmd)
         go   == /\ Valid(next)
                 /\ worker.req.cmd = "APPLY" => worker.req.sound
     IN IF go /\ WritesPrevious(worker.req.cmd)
          THEN \E outcome \in WriteOutcomes :
                 /\ modelNvs' = FirstWrite(modelNvs, worker.req.cmd, outcome)
                 /\ CountFault({outcome})
                 /\ worker' = [worker EXCEPT !.at = IF outcome = "ok"
                                                      THEN "second" ELSE "complete"]
          ELSE /\ worker' = [worker EXCEPT !.at = IF go THEN "second" ELSE "complete"]
               /\ UNCHANGED <<modelNvs, csiFaults>>
  /\ UNCHANGED <<models, command, requester, learner, tuned, drift>>

SwitchSecondWrite ==
  /\ worker.at = "second"
  /\ LET next == NextActive(worker.req.cmd)
     IN \E outcome \in WriteOutcomes :
          /\ modelNvs' = SecondWrite(modelNvs, worker.req.cmd, outcome)
          /\ CountFault({outcome})
          /\ IF outcome = "ok"
               THEN /\ models' = [models EXCEPT
                         !.act  = next,
                         !.prev = IF WritesPrevious(worker.req.cmd)
                                    THEN NextPrevious ELSE @]
                    /\ SwitchDetection(next)
               ELSE UNCHANGED <<models, tuned, drift>>
  /\ Finished
  /\ UNCHANGED <<command, requester, learner>>

(* clearCandidate(): the copy in RAM goes only if the erase succeeded. *)
ClearedCandidate ==
  IF Valid(models.cand)
    THEN \E outcome \in EraseOutcomes :
           /\ CountFault({outcome})
           /\ IF outcome = "ok"
                THEN /\ models' = [models EXCEPT !.cand = NoModel]
                     /\ modelNvs' = [modelNvs EXCEPT !.cand = NoModel]
                ELSE UNCHANGED <<models, modelNvs>>
    ELSE UNCHANGED <<models, modelNvs, csiFaults>>

clearCandidate ==
  /\ worker.at = "execute" /\ worker.req.cmd = "CLEAR_CANDIDATE"
  /\ ClearedCandidate
  /\ Finished
  /\ UNCHANGED <<command, requester, learner, tuned, drift>>

(* clearLearnedSiteModel(): learning stops, the copies and the legacy keys *)
(* go, each slot goes if its erase succeeds.                               *)
clearAll ==
  /\ worker.at = "execute" /\ worker.req.cmd = "CLEAR_ALL"
  /\ \E outcomes \in [{"act", "cand", "prev"} -> EraseOutcomes] :
       LET erased(slots) == [s \in {"act", "cand", "prev"} |->
                               IF outcomes[s] = "ok" THEN NoModel ELSE slots[s]]
       IN /\ models' = [act |-> erased(models)["act"], cand |-> erased(models)["cand"],
                        prev |-> erased(models)["prev"]]
          /\ modelNvs' = [modelNvs EXCEPT !.act = erased(modelNvs)["act"], !.cand = erased(modelNvs)["cand"],
                                !.prev = erased(modelNvs)["prev"], !.legacy = FALSE]
          /\ CountFault({outcomes[s] : s \in DOMAIN outcomes})
  /\ learner' = [learner EXCEPT !.learning = FALSE]
  /\ tuned' = [tuned EXCEPT !.learned = 0]
  /\ Finished
  /\ UNCHANGED <<command, requester, drift>>

(* finalizeCandidate(): a model that is not sound changes nothing; a sound *)
(* one replaces the candidate when its blob is verified.                   *)
finalizeCandidate(sound) ==
  /\ modelNvs.lastGen < MaxGeneration
  /\ LET g == nextGeneration(modelNvs)
     IN IF sound
          THEN \E outcome \in WriteOutcomes :
                 /\ modelNvs' = [modelNvs EXCEPT !.lastGen = g,
                                       !.cand = writeSlot(@, NewModel(g), outcome)]
                 /\ models' = IF outcome = "ok"
                                THEN [models EXCEPT !.cand = NewModel(g)] ELSE models
                 /\ CountFault({outcome})
          ELSE /\ modelNvs' = [modelNvs EXCEPT !.lastGen = g]
               /\ UNCHANGED <<models, csiFaults>>

importCandidate ==
  /\ worker.at = "execute" /\ worker.req.cmd = "IMPORT"
  /\ finalizeCandidate(worker.req.sound)
  /\ Finished
  /\ UNCHANGED <<command, requester, learner, tuned, drift>>

(* complete(): the abandoned flag is read and lowered, and then the slot   *)
(* is freed or offers the result.                                          *)
CompleteRead ==
  /\ worker.at = "complete"
  /\ worker' = [worker EXCEPT !.at = IF command.abandoned THEN "free" ELSE "offer"]
  /\ command' = [command EXCEPT !.abandoned = FALSE, !.answers = worker.req.id]
  /\ UNCHANGED <<models, modelNvs, requester, learner, tuned, drift, csiFaults>>

Released(slot) == IF worker.at = "free" THEN IdleCommand
                                     ELSE [slot EXCEPT !.state = "DONE"]

CompleteWrite ==
  /\ worker.at \in {"free", "offer"}
  /\ command' = Released(command)
  /\ worker' = IdleWorker
  /\ UNCHANGED <<models, modelNvs, requester, learner, tuned, drift, csiFaults>>

(* _processPendingEmaPersist(): the stash becomes the statistics of the    *)
(* active model, in RAM whatever the store says, and the stored threshold. *)
persistDrift ==
  /\ worker.at = "idle" /\ drift.pending
  /\ IF Valid(models.act)
       THEN \E outcome \in WriteOutcomes :
              LET m == [models.act EXCEPT !.base = drift.base]
              IN /\ models' = [models EXCEPT !.act = m]
                 /\ modelNvs' = [modelNvs EXCEPT !.act = writeSlot(@, m, outcome)]
                 /\ CountFault({outcome})
       ELSE UNCHANGED <<models, modelNvs, csiFaults>>
  /\ tuned' = [tuned EXCEPT !.stored = drift.base]
  /\ drift' = [drift EXCEPT !.pending = FALSE]
  /\ UNCHANGED <<command, requester, worker, learner>>

-----------------------------------------------------------------------------
(* Site learning is started and stopped by the web task and finished by    *)
(* the loop; a finished candidate is replaced only on demand.              *)
startSiteLearning ==
  /\ requester.at = "idle" /\ ~learner.learning
  /\ ClearedCandidate
  /\ learner' = [learner EXCEPT !.learning = TRUE]
  /\ UNCHANGED <<command, requester, worker, tuned, drift>>

stopSiteLearning ==
  /\ requester.at = "idle" /\ learner.learning
  /\ learner' = [learner EXCEPT !.learning = FALSE]
  /\ UNCHANGED <<models, modelNvs, command, requester, worker, tuned, drift, csiFaults>>

FinishLearning ==
  /\ learner.learning /\ learner.at = "idle"
  /\ learner' = [learner EXCEPT !.learning = FALSE]
  /\ \/ finalizeCandidate(TRUE)
     \/ UNCHANGED <<models, modelNvs, csiFaults>>          \* too few quiet samples
  /\ UNCHANGED <<command, requester, worker, tuned, drift>>

(* _continuousLearnRefresh(): the copies are read, nudged and written back,*)
(* and every ten minutes stashed, if the last stash has been consumed.     *)
DriftRead ==
  /\ learner.at = "idle" /\ ~learner.learning
  /\ tuned.learned # 0
  /\ learner' = [learner EXCEPT !.at = "nudging", !.base = tuned.learned]
  /\ UNCHANGED <<models, modelNvs, command, requester, worker, tuned, drift, csiFaults>>

DriftWrite(due) ==
  /\ learner.at = "nudging"
  /\ tuned' = [tuned EXCEPT !.learned = IF @ = 0 THEN 0 ELSE learner.base]
  /\ IF due /\ ~drift.pending
       THEN /\ drift' = [drift EXCEPT !.base = learner.base]
            /\ learner' = [learner EXCEPT !.at = "stashed", !.base = 0]
       ELSE /\ learner' = [learner EXCEPT !.at = "idle", !.base = 0]
            /\ UNCHANGED drift
  /\ UNCHANGED <<models, modelNvs, command, requester, worker, csiFaults>>

DriftPublish ==
  /\ learner.at = "stashed"
  /\ drift' = [drift EXCEPT !.pending = TRUE]
  /\ learner' = [learner EXCEPT !.at = "idle"]
  /\ UNCHANGED <<models, modelNvs, command, requester, worker, tuned, csiFaults>>

-----------------------------------------------------------------------------
WebTask == \/ \E cmd \in Commands, sound \in BOOLEAN : submit(cmd, sound)
           \/ poll \/ RaiseAbandoned \/ TakeBack \/ LastPoll
           \/ startSiteLearning \/ stopSiteLearning
CsiProc == \/ claimCommand \/ SwitchFirstWrite \/ SwitchSecondWrite \/ clearCandidate
           \/ clearAll \/ importCandidate \/ CompleteRead \/ CompleteWrite
           \/ persistDrift
LoopTask == FinishLearning \/ DriftRead \/ DriftPublish
            \/ \E due \in BOOLEAN : DriftWrite(due)

CsiModelNext == WebTask \/ CsiProc \/ LoopTask \/ PowerCut
CsiModelSpec == CsiModelInit /\ [][CsiModelNext]_csiModelVars

-----------------------------------------------------------------------------
CsiModelTypeOK ==
  /\ models \in [act : Models, cand : Models, prev : Models]
  /\ modelNvs \in [act : Models, cand : Models, prev : Models,
             lastGen : 1..MaxGeneration, legacy : BOOLEAN]
  /\ command \in [state : {"IDLE", "PENDING", "EXECUTING", "DONE"},
                 abandoned : BOOLEAN, req : Requests \cup {NoRequest},
                 answers : 0..MaxRequests]
  /\ requester.at \in {"idle", "waiting", "abandoning", "last_poll"}
  /\ worker.at \in {"idle", "execute", "second", "complete", "free", "offer"}
  /\ learner.at \in {"idle", "nudging", "stashed"}
  /\ csiFaults \in 0..MaxFaults

(* A client that is given a result is given the result of its own command, *)
(* however many earlier commands were given up while they waited or ran    *)
(* (CsiModelCommandSlot::abandon, complete, poll).                         *)
AnswerIsOfTheRequest == requester.told # 0 => requester.told = requester.asked

(* Whatever write is refused and whenever the power fails, the device      *)
(* comes back with the active model it reported (CsiModelManager::         *)
(* rollback, "a reboot after a failed rollback never surfaces a            *)
(* half-swapped active"); the exception is a write that tore the blob.     *)
ActiveSurvivesRestart == modelNvs.act = Torn \/ readSlot(modelNvs.act).gen = models.act.gen

(* CsiModelCommand.h: a timed-out waiter "marks an executing command       *)
(* abandoned so the worker releases the slot on completion": no result is  *)
(* left in the slot with nobody waiting for it.                            *)
AbandonedSlotIsReleased == command.state = "DONE" => requester.at # "idle"

(* CSIService.cpp, _switchDetectionToActive: the stash "was derived from   *)
(* the PREVIOUS active model; consuming it now would overwrite the fresh   *)
(* slot's threshold and stats": the statistics of the active model descend *)
(* from itself.                                                            *)
DriftIsOfItsModel == Valid(models.act) => models.act.base = models.act.gen

=============================================================================
