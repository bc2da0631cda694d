------------------------- MODULE RuntimeOperations -------------------------
(***************************************************************************)
(* RuntimeOperationCoordinator and those who claim it: HTTP uploads and    *)
(* OTA pull (src/WebRoutes.cpp), ESPOTA and the watchdogs (src/main.cpp),  *)
(* calibration, site learning and Wi-Fi scan (CSIService.cpp).             *)
(*                                                                         *)
(* Three tasks run: the web server's (one handler after another), loop()   *)
(* and the task of a pull.  A claim is one atomic word, so that claiming   *)
(* and releasing are single steps; what a task does before or after them   *)
(* is not.  All share the Update object of the framework.                  *)
(***************************************************************************)
CONSTANT Uploads   \* HTTP requests that upload an image

(* A request is none of the names that stand for something else below.     *)
ASSUME UploadsAssumption ==
  Uploads \cap {"free", "scan", "calibration", "site_learning", "none", "pull", "espota"} = {}

VARIABLES
  claim,        \* _claim: operation and owner
  silent,       \* no progress since _timeoutMs
  flags,        \* of _calibrating and _siteLearningActive, those set
  scan,         \* _wifiScanState; "unrestored" if CSI is still suspended
  web,          \* what the web task is about to finish, or "free"
  loop,         \* where loop() is, and for which claim
  owners,       \* uploads whose request context says OWNER
  pull,         \* how far the task of a pull is
  update,       \* the Update object: whose begin() runs, and hasError()
  radarOff,     \* radarTask is suspended
  maintenance,  \* g_espotaMaintenance
  prepare,      \* g_espotaPrepareRequested
  reboot,       \* shouldReboot and g_otaRebootForce
  lost,         \* history: clients whose last claim others released
  overtaken     \* history: operations whose new claim met the timeout of an old one

coordinator == <<claim, silent>>
ota == <<owners, pull, update, radarOff, maintenance, prepare, reboot, lost>>
csi == <<flags, scan, overtaken>>
vars == <<claim, silent, web, loop, ota, csi>>

Samplings == {"calibration", "site_learning"}
Claim(operation, owner) == [operation |-> operation, owner |-> owner]
Idle == Claim("idle", "none")
Scan == Claim("wifi_scan", "none")
HTTP == Claim("ota", "http")
Pull == Claim("ota", "pull")
Prepare == Claim("ota", "espota_prepare")
Espota == Claim("ota", "espota")
OTA == {HTTP, Pull, Prepare, Espota}
Claims == {Idle, Scan} \cup OTA \cup {Claim(s, "none") : s \in Samplings}

At(step, of) == [step |-> step, of |-> of]
Run == At("run", Idle)
NoSession == [by |-> "none", error |-> FALSE]

Init ==
  /\ claim = Idle
  /\ silent = FALSE
  /\ flags = {}
  /\ scan = "idle"
  /\ web = "free"
  /\ loop = Run
  /\ owners = {}
  /\ pull = "none"
  /\ update = NoSession
  /\ radarOff = FALSE
  /\ maintenance = FALSE
  /\ prepare = FALSE
  /\ reboot = FALSE
  /\ lost = {}
  /\ overtaken = {}

-----------------------------------------------------------------------------
(* The coordinator.                                                        *)

StealWrong(c) == claim' = c /\ silent' = FALSE

TryBegin(c) == claim = Idle /\ claim' = c /\ silent' = FALSE

(* finish() and cancel() of anybody but the owner change nothing. *)
Release(c) ==
  IF claim = c THEN claim' = Idle /\ silent' = FALSE ELSE UNCHANGED coordinator

(* otaRuntimeMarkProgress(): whoever calls, it is the owner's progress. *)
MarkProgress == claim' = claim /\ silent' = (silent /\ claim \notin OTA)

(* A timeout is longer than a handler that has just claimed. *)
Silence ==
  /\ claim # Idle /\ ~silent
  /\ web = "free"
  /\ silent' = TRUE
  /\ UNCHANGED <<claim, web, loop, ota, csi>>

(* The Update object of the framework: it runs while somebody began it.    *)
Running == update.by # "none"
Failed == [by |-> "none", error |-> TRUE]
Aborted == IF Running THEN Failed ELSE update
Began(by) == [by |-> by, error |-> FALSE]

KeepSuspendedWrong == radarOff' = radarOff /\ maintenance' = FALSE

Resume == radarOff' = FALSE /\ maintenance' = FALSE

(* otaRuntimeRestoreServices() *)
RestoreServices == update' = Aborted /\ Resume

-----------------------------------------------------------------------------
(* POST /api/update, the multipart callback.                               *)

UploadClaim(u) ==
  /\ web = "free"
  /\ u \notin owners
  /\ TryBegin(HTTP)
  /\ owners' = owners \cup {u}
  /\ lost' = lost \ {u}
  /\ web' = u
  /\ UNCHANGED <<loop, pull, update, radarOff, maintenance, prepare, reboot, csi>>

(* ... aborts what an earlier upload left, and begins, or fails to. *)
UploadStart ==
  /\ web \in Uploads
  /\ web' = "free"
  /\ radarOff' = TRUE
  /\ update' \in {Began(web), Failed}
  /\ UNCHANGED <<coordinator, loop, owners, pull, maintenance, prepare, reboot, lost, csi>>

(* A chunk; a write that fails aborts. *)
UploadChunk(u) ==
  /\ web = "free"
  /\ u \in owners
  /\ claim = HTTP
  /\ ~update.error
  /\ update' \in {update, Aborted}
  /\ MarkProgress
  /\ UNCHANGED <<web, loop, owners, pull, radarOff, maintenance, prepare, reboot, lost, csi>>

(* After the last one: Update.end() succeeds, or everything is restored.   *)
(* The claim given back is anybody's who has the owner number of HTTP.     *)
UploadFinal(u) ==
  /\ web = "free"
  /\ u \in owners
  /\ claim = HTTP
  /\ owners' = owners \ {u}
  /\ lost' = lost \cup (owners \ {u})
  /\ Release(HTTP)
  /\ \/ /\ Running
        /\ update' = NoSession
        /\ reboot' = TRUE
        /\ UNCHANGED <<radarOff, maintenance>>
     \/ update' = Failed /\ Resume /\ reboot' = reboot
  /\ UNCHANGED <<web, loop, pull, prepare, csi>>

(* The connection breaks: nobody is told. *)
Disconnect(u) ==
  /\ web = "free"
  /\ u \in owners
  /\ owners' = owners \ {u}
  /\ UNCHANGED <<coordinator, web, loop, pull, update, radarOff, maintenance, prepare, reboot, lost, csi>>

-----------------------------------------------------------------------------
(* POST /api/update/pull and its task; pull # "none" is otaPullInFlight.   *)

PostPull ==
  /\ web = "free"
  /\ pull = "none"
  /\ TryBegin(Pull)
  /\ pull' = "connecting"
  /\ lost' = lost \ {"pull"}
  /\ UNCHANGED <<web, loop, owners, update, radarOff, maintenance, prepare, reboot, csi>>

(* The task, or the client, cannot be created, or the radar rests. *)
PullConnect ==
  /\ pull = "connecting"
  /\ \/ /\ pull' = "none"
        /\ Release(Pull)
        /\ RestoreServices \/ UNCHANGED <<update, radarOff, maintenance>>
     \/ /\ pull' = "fetching"
        /\ radarOff' = TRUE
        /\ MarkProgress
        /\ UNCHANGED <<update, maintenance>>
  /\ UNCHANGED <<web, loop, owners, prepare, reboot, lost, csi>>

(* GET and Update.begin(), which refuses a second session. *)
PullFetch ==
  /\ pull = "fetching"
  /\ \/ pull' = "failed" /\ update' = update
     \/ ~Running /\ pull' = "writing" /\ update' = Began("pull")
  /\ UNCHANGED <<coordinator, web, loop, owners, radarOff, maintenance, prepare, reboot, lost, csi>>

(* writeStream() and Update.end(). *)
PullWrite ==
  /\ pull = "writing"
  /\ \/ pull' = "failed" /\ update' \in {Aborted, Failed}
     \/ Running /\ pull' = "flashed" /\ update' = NoSession
  /\ UNCHANGED <<coordinator, web, loop, owners, radarOff, maintenance, prepare, reboot, lost, csi>>

PullEnd ==
  /\ pull \in {"failed", "flashed"}
  /\ pull' = "none"
  /\ reboot' = (reboot \/ pull = "flashed")
  /\ RestoreServices
  /\ Release(Pull)
  /\ UNCHANGED <<web, loop, owners, prepare, lost, csi>>

-----------------------------------------------------------------------------
(* ESPOTA: the prepared window and the transfer, both in loop().           *)

PostPrepare ==
  /\ web = "free"
  /\ TryBegin(Prepare)
  /\ prepare' = TRUE
  /\ UNCHANGED <<web, loop, owners, pull, update, radarOff, maintenance, reboot, lost, csi>>

OpenWindow ==
  /\ loop = Run
  /\ prepare
  /\ prepare' = FALSE
  /\ maintenance' = TRUE
  /\ radarOff' = TRUE
  /\ UNCHANGED <<coordinator, web, loop, owners, pull, update, reboot, lost, csi>>

(* otaRuntimeTransferActive() is asked first ... *)
WindowOver ==
  /\ loop = Run
  /\ maintenance
  /\ claim \notin {HTTP, Pull, Espota}
  /\ loop' = At("close", Idle)
  /\ UNCHANGED <<coordinator, web, ota, csi>>

CloseWindow ==
  /\ loop.step = "close"
  /\ loop' = Run
  /\ RestoreServices
  /\ Release(Prepare)
  /\ UNCHANGED <<web, owners, pull, prepare, reboot, lost, csi>>

(* The library has begun; onStart() gives the prepared claim back ... *)
EspotaStart ==
  /\ loop = Run
  /\ ~Running
  /\ update' = Began("espota")
  /\ Release(Prepare)
  /\ loop' = At("onStart", Idle)
  /\ UNCHANGED <<web, owners, pull, radarOff, maintenance, prepare, reboot, lost, csi>>

(* ... and takes its own, or stops everything. *)
EspotaClaim ==
  /\ loop.step = "onStart"
  /\ \/ /\ TryBegin(Espota)
        /\ loop' = At("espota", Idle)
        /\ maintenance' = TRUE
        /\ radarOff' = TRUE
        /\ update' = update
     \/ /\ claim # Idle
        /\ RestoreServices
        /\ loop' = Run
        /\ UNCHANGED coordinator
  /\ UNCHANGED <<web, owners, pull, prepare, reboot, lost, csi>>

(* The transfer keeps loop() until it ends; success restarts the device. *)
EspotaTransfer ==
  /\ loop.step = "espota"
  /\ \/ /\ loop' = loop
        /\ MarkProgress
        /\ UNCHANGED <<update, radarOff, maintenance, reboot>>
     \/ /\ Running
        /\ loop' = Run /\ reboot' = TRUE /\ maintenance' = FALSE
        /\ update' = NoSession /\ radarOff' = radarOff
        /\ Release(Espota)
     \/ /\ loop' = Run /\ reboot' = reboot
        /\ RestoreServices
        /\ Release(Espota)
  /\ UNCHANGED <<web, owners, pull, prepare, lost, csi>>

-----------------------------------------------------------------------------
(* Calibration and site learning.                                          *)

(* Web: the claim, and then the flag. *)
ClaimSampling(s) ==
  /\ web = "free"
  /\ TryBegin(Claim(s, "none"))
  /\ web' = s
  /\ UNCHANGED <<loop, ota, csi>>

SetFlag ==
  /\ web \in Samplings
  /\ flags' = flags \cup {web}
  /\ web' = "free"
  /\ UNCHANGED <<coordinator, loop, ota, scan, overtaken>>

AutoCalibrate ==
  /\ loop = Run
  /\ "calibration" \notin flags
  /\ TryBegin(Claim("calibration", "none"))
  /\ flags' = flags \cup {"calibration"}
  /\ UNCHANGED <<web, loop, ota, scan, overtaken>>

(* Loop: the samples are complete. *)
SamplingDone(s) ==
  /\ loop = Run
  /\ s \in flags
  /\ flags' = flags \ {s}
  /\ loop' = At("finish", Claim(s, "none"))
  /\ UNCHANGED <<coordinator, web, ota, scan, overtaken>>

FinishSamplingWrong ==
  /\ loop.step = "finish"
  /\ loop' = Run
  /\ UNCHANGED <<coordinator, web, ota, csi>>

FinishSampling ==
  /\ loop.step = "finish"
  /\ loop' = Run
  /\ Release(loop.of)
  /\ UNCHANGED <<web, ota, csi>>

(* stopSiteLearning(), called by the web task or by csi_proc. *)
StopSiteLearning ==
  /\ "site_learning" \in flags
  /\ flags' = flags \ {"site_learning"}
  /\ Release(Claim("site_learning", "none"))
  /\ UNCHANGED <<web, loop, ota, scan, overtaken>>

-----------------------------------------------------------------------------
(* Wi-Fi scan.                                                             *)

ClaimScan ==
  /\ web = "free"
  /\ flags = {}
  /\ TryBegin(Scan)
  /\ web' = "scan"
  /\ UNCHANGED <<loop, ota, csi>>

(* No mutex, a scan that runs, CSI that cannot be paused: gives it back. *)
StartScan ==
  /\ web = "scan"
  /\ web' = "free"
  /\ \/ scan # "running" /\ scan' = "running" /\ UNCHANGED coordinator
     \/ Release(Scan) /\ scan' = scan
  /\ UNCHANGED <<loop, ota, flags, overtaken>>

(* Results, failure or 15 s: released if CSI captures again. *)
ScanDone ==
  /\ loop = Run
  /\ scan = "running"
  /\ \/ scan' = "idle" /\ Release(Scan)
     \/ scan' = "unrestored" /\ UNCHANGED coordinator
  /\ UNCHANGED <<web, loop, ota, flags, overtaken>>

RestoreCsi ==
  /\ loop = Run
  /\ scan = "unrestored"
  /\ scan' = "idle"
  /\ Release(Scan)
  /\ UNCHANGED <<web, loop, ota, flags, overtaken>>

-----------------------------------------------------------------------------
(* The watchdogs in loop().                                                *)

(* handleOtaRuntimeWatchdog() and _pollRuntimeOperationTimeouts() *)
Polled == claim \in OTA \cup {Scan} \/ claim.operation \in flags

(* checkTimeout() reads claim and times ... *)
ReadTimeout ==
  /\ loop = Run
  /\ silent
  /\ Polled
  /\ loop' = At("cas", claim)
  /\ UNCHANGED <<coordinator, web, ota, csi>>

(* ... and releases the claim if it is the same word: the one it read, or  *)
(* a new one of the same owner.                                            *)
Victims(c) == IF c = HTTP THEN owners ELSE IF c = Pull THEN {"pull"} ELSE {}

Evict ==
  /\ loop.step = "cas"
  /\ loop' = IF claim = loop.of THEN At("evicted", claim) ELSE Run
  /\ lost' = IF claim = loop.of THEN lost \cup Victims(claim) ELSE lost
  /\ overtaken' = IF claim = loop.of /\ web \in Uploads
                  THEN overtaken \cup {"ota"} ELSE overtaken
  /\ Release(loop.of)
  /\ UNCHANGED <<web, owners, pull, update, radarOff, maintenance, prepare, reboot, flags, scan>>

AfterOTA ==
  /\ loop.step = "evicted" /\ loop.of \in OTA
  /\ loop' = Run
  /\ RestoreServices
  /\ UNCHANGED <<coordinator, web, owners, pull, prepare, reboot, lost, csi>>

(* A sampling that claimed in between loses its flag with the old one. *)
AfterSampling ==
  /\ loop.step = "evicted" /\ loop.of.operation \in Samplings
  /\ loop' = Run
  /\ flags' = flags \ {loop.of.operation}
  /\ overtaken' = IF claim = loop.of /\ web # claim.operation
                  THEN overtaken \cup {claim.operation} ELSE overtaken
  /\ UNCHANGED <<coordinator, web, ota, scan>>

AfterScan ==
  /\ loop.step = "evicted" /\ loop.of = Scan
  /\ loop' = Run
  /\ scan' \in {"idle"} \cup (IF scan = "idle" THEN {} ELSE {"unrestored"})
  /\ UNCHANGED <<coordinator, web, ota, flags, overtaken>>

(* safeRestart(), or the restart at the end of ESPOTA. *)
Restart ==
  /\ loop = Run
  /\ reboot
  /\ claim' = Idle /\ silent' = FALSE
  /\ web' = "free" /\ loop' = Run
  /\ owners' = {} /\ pull' = "none" /\ update' = NoSession
  /\ radarOff' = FALSE /\ maintenance' = FALSE /\ prepare' = FALSE
  /\ reboot' = FALSE /\ lost' = {}
  /\ flags' = {} /\ scan' = "idle" /\ overtaken' = {}

UploadEnds(u) == UploadFinal(u) \/ Disconnect(u)
PullStep == PullConnect \/ PullFetch \/ PullWrite \/ PullEnd
Watchdog == ReadTimeout \/ Evict \/ AfterOTA \/ AfterSampling \/ AfterScan
WebStep == UploadStart \/ SetFlag \/ StartScan
LoopStep == CloseWindow \/ EspotaClaim \/ FinishSampling

Next ==
  \/ \E u \in Uploads : UploadClaim(u) \/ UploadChunk(u) \/ UploadEnds(u)
  \/ \E s \in Samplings : ClaimSampling(s) \/ SamplingDone(s)
  \/ PostPull \/ PullStep
  \/ PostPrepare \/ OpenWindow \/ WindowOver \/ EspotaStart \/ EspotaTransfer
  \/ AutoCalibrate \/ StopSiteLearning
  \/ ClaimScan \/ ScanDone \/ RestoreCsi
  \/ WebStep \/ LoopStep \/ Watchdog
  \/ Silence \/ Restart

Spec == Init /\ [][Next]_vars

-----------------------------------------------------------------------------
(* Properties.                                                             *)

Clients == Uploads \cup {"pull", "espota"}

(* Every variable holds a value the code can give it; clear() clears the   *)
(* times, too: no timeout without a claim.                                 *)
TypeOK ==
  /\ claim \in Claims /\ silent \in BOOLEAN /\ (silent => claim # Idle)
  /\ flags \subseteq Samplings /\ overtaken \subseteq Samplings \cup {"ota"}
  /\ scan \in {"idle", "running", "unrestored"}
  /\ web \in {"free", "scan"} \cup Uploads \cup Samplings
  /\ loop.step \in {"run", "close", "onStart", "espota", "finish", "cas", "evicted"}
  /\ loop.of \in Claims
  /\ owners \subseteq Uploads
  /\ pull \in {"none", "connecting", "fetching", "writing", "failed", "flashed"}
  /\ update.by \in Clients \cup {"none"}
  /\ {update.error, radarOff, maintenance, prepare, reboot} \subseteq BOOLEAN
  /\ lost \subseteq Uploads \cup {"pull"}

(* Two clients never write into one image, unless one of them lost its     *)
(* claim to a timeout, or to a client that had lost its own, and goes on:  *)
(* an upload whose request context says OWNER, since all uploads have one  *)
(* owner number, or a pull, which never asks for its claim again.  And the *)
(* image that ESPOTA began is open to everybody until it has its claim.    *)
Unclaimed == update.by = "espota" /\ loop.step = "onStart"
Writers ==
  {u \in owners : claim = HTTP /\ web # u}
    \cup {w \in {"pull"} : pull = "writing"}
    \cup {w \in {"espota"} : loop.step = "espota"}
OneWriter ==
  Running /\ ~Unclaimed =>
    \A w \in Writers : w = update.by \/ {w, update.by} \cap lost # {}

(* A sampling that holds the claim has its flag, without which nobody      *)
(* polls its timeout, except while it sets or finishes it, and except when *)
(* it claimed between the eviction of another and the reset of that        *)
(* other's flag.                                                           *)
ClaimIsWatched ==
  \A s \in Samplings :
    claim = Claim(s, "none") =>
      s \in flags \cup overtaken \/ web = s \/ loop.of = claim

(* Whatever a transfer dies of, somebody is left who resumes radarTask, or *)
(* restarts the device: the claim, which the watchdog polls, the task of a *)
(* pull, the open window, or loop() itself.  Not so when the timeout of an *)
(* earlier upload hits the claim of one that has not suspended it yet.     *)
RadarHasRescuer ==
  radarOff /\ "ota" \notin overtaken =>
    \/ claim \in OTA \/ pull # "none" \/ maintenance \/ reboot
    \/ loop.step \in {"close", "onStart", "espota"}
    \/ loop.step = "evicted" /\ loop.of \in OTA
=============================================================================
