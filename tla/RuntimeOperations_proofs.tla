----------------------- MODULE RuntimeOperations_proofs -----------------------
(***************************************************************************)
(* Proofs about the claims on the device (RuntimeOperations), for any      *)
(* number of uploads, and about the connections that the web server lets   *)
(* in (WebAdmission), for any number of connections and slots.             *)
(***************************************************************************)
EXTENDS RuntimeOperations, WebAdmission, FiniteSetTheorems, TLAPS

-----------------------------------------------------------------------------
(* RuntimeOperations: types, and what loop() is in the middle of.          *)

LoopSteps == {"run", "close", "onStart", "espota", "finish", "cas", "evicted"}

Typed ==
  /\ claim \in Claims
  /\ loop \in [step : LoopSteps, of : Claims]
  /\ web \in {"free", "scan"} \cup Uploads \cup Samplings
  /\ owners \subseteq Uploads
  /\ update.by \in Uploads \cup {"none", "pull", "espota"}

LoopIsAbout ==
  /\ loop.step \in {"run", "close", "onStart", "espota"} => loop.of = Idle
  /\ loop.step = "finish" => loop.of \notin OTA

(* A sampling's claim has its watch. *)
WatchInv == Typed /\ LoopIsAbout /\ ClaimIsWatched

(* The upload that has claimed and not begun, and whoever resumes the      *)
(* radar; a pull does so only once it has suspended it.                    *)
StartsWithClaim == web \in Uploads => claim = HTTP \/ "ota" \in overtaken
Rescuer ==
  \/ claim \in OTA \ {Pull} \/ maintenance \/ reboot
  \/ pull \in {"fetching", "writing", "failed", "flashed"}
  \/ loop.step \in {"close", "onStart", "espota"}
  \/ loop.step = "evicted" /\ loop.of \in OTA
RescueInv ==
  /\ Typed /\ LoopIsAbout /\ StartsWithClaim
  /\ radarOff /\ "ota" \notin overtaken => Rescuer

(* A client that goes on either has the claim still, or is in `lost'. *)
OwnersClaim ==
  /\ \A u \in owners \ lost : claim = HTTP
  /\ \A u, v \in owners \ lost : u = v
PullClaims == pull # "none" /\ "pull" \notin lost => claim = Pull
EspotaClaims == loop.step = "espota" => claim = Espota
StartIsOwner == web \in Uploads => web \in owners /\ (claim = HTTP \/ web \in lost)

(* Whose image it is, against each of the others who may write. *)
ImageOfUpload ==
  update.by \in Uploads \ lost =>
    /\ \A v \in owners \ lost : v = update.by \/ web = v
    /\ pull = "writing" => "pull" \in lost
    /\ loop.step \in {"onStart", "espota"} => claim = HTTP
ImageOfPull == update.by = "pull" => pull = "writing"
ImageOfEspota == update.by = "espota" => loop.step \in {"onStart", "espota"}

WriterInv ==
  /\ Typed /\ LoopIsAbout /\ OwnersClaim /\ PullClaims /\ EspotaClaims
  /\ StartIsOwner /\ ImageOfUpload /\ ImageOfPull /\ ImageOfEspota

LEMMA ClaimsDiffer ==
  /\ {Idle, Scan, HTTP, Pull, Prepare, Espota} \subseteq Claims
  /\ OTA = {HTTP, Pull, Prepare, Espota} /\ Idle \notin OTA /\ Scan \notin OTA /\ Idle # Scan
  /\ HTTP # Pull /\ HTTP # Prepare /\ HTTP # Espota
  /\ Pull # Prepare /\ Pull # Espota /\ Prepare # Espota
  /\ \A s \in Samplings : /\ Claim(s, "none") \in Claims /\ Claim(s, "none").operation = s
                          /\ Claim(s, "none") \notin OTA \cup {Idle, Scan}
  /\ \A c \in Claims : c.operation \in Samplings => c = Claim(c.operation, "none")
BY DEF Claims, OTA, Idle, Scan, HTTP, Pull, Prepare, Espota, Claim, Samplings

(* One step of each kind, for proofs that go through all of them. *)
LEMMA Steps ==
  ASSUME [Next]_vars
  PROVE  \/ \E u \in Uploads : UploadClaim(u) \/ UploadChunk(u) \/ UploadFinal(u) \/ Disconnect(u)
         \/ \E s \in Samplings : ClaimSampling(s) \/ SamplingDone(s)
         \/ PostPull \/ PullConnect \/ PullFetch \/ PullWrite \/ PullEnd
         \/ PostPrepare \/ OpenWindow \/ WindowOver \/ EspotaStart \/ EspotaTransfer
         \/ AutoCalibrate \/ StopSiteLearning \/ ClaimScan \/ ScanDone \/ RestoreCsi
         \/ UploadStart \/ SetFlag \/ StartScan \/ CloseWindow \/ EspotaClaim \/ FinishSampling
         \/ ReadTimeout \/ Evict \/ AfterOTA \/ AfterSampling \/ AfterScan
         \/ Silence \/ Restart \/ UNCHANGED vars
BY DEF Next, UploadEnds, PullStep, WebStep, LoopStep, Watchdog

(* What loop() goes on to. *)
LEMMA LoopChanges ==
  ASSUME [Next]_vars
  PROVE  \/ loop' \in {loop, Run}
         \/ loop = Run /\ loop' = At("close", Idle) /\ maintenance' = maintenance
         \/ EspotaStart /\ loop = Run /\ loop' = At("onStart", Idle)
         \/ EspotaClaim /\ claim = Idle /\ claim' = Espota /\ loop' = At("espota", Idle)
         \/ loop = Run /\ \E s \in Samplings : loop' = At("finish", Claim(s, "none"))
         \/ loop = Run /\ loop' = At("cas", claim) /\ claim' = claim
         \/ Evict /\ loop.step = "cas" /\ claim = loop.of /\ loop' = At("evicted", claim)
<1>1. \/ loop' \in {loop, Run} \/ WindowOver \/ EspotaStart \/ EspotaClaim
      \/ \E s \in Samplings : SamplingDone(s)
      \/ ReadTimeout \/ Evict
  <2> USE DEF vars, coordinator, ota, csi, UploadClaim, UploadChunk,
              UploadFinal, Disconnect, ClaimSampling, SamplingDone, PostPull,
              PullConnect, PullFetch, PullWrite, PullEnd, PostPrepare,
              OpenWindow, WindowOver, EspotaStart, EspotaTransfer,
              AutoCalibrate, StopSiteLearning, ClaimScan, ScanDone,
              RestoreCsi, UploadStart, SetFlag, StartScan, CloseWindow,
              EspotaClaim, FinishSampling, ReadTimeout, Evict, AfterOTA,
              AfterSampling, AfterScan, Silence, Restart
  <2>1. QED
    BY Steps
<1>2. CASE WindowOver
  BY <1>2 DEF WindowOver, ota
<1>3. CASE EspotaStart
  BY <1>3 DEF EspotaStart
<1>4. CASE EspotaClaim
  BY <1>4 DEF EspotaClaim, TryBegin
<1>5. CASE \E s \in Samplings : SamplingDone(s)
  BY <1>5 DEF SamplingDone
<1>6. CASE ReadTimeout
  BY <1>6 DEF ReadTimeout, coordinator
<1>7. CASE Evict
  BY <1>7 DEF Evict
<1>8. QED
  BY <1>1, <1>2, <1>3, <1>4, <1>5, <1>6, <1>7

(* Which steps touch a variable, or how. *)
LEMMA Touched ==
  ASSUME [Next]_vars
  PROVE  /\ \/ flags \subseteq flags' \/ StopSiteLearning \/ AfterSampling \/ Restart
            \/ \E s \in Samplings : SamplingDone(s) /\ flags' = flags \ {s}
         /\ overtaken \subseteq overtaken' \/ Restart
         /\ \/ web' = web \/ UploadStart \/ SetFlag \/ StartScan \/ Restart
            \/ web = "free" /\ web' \in Samplings \cup {"scan"}
            \/ \E u \in Uploads : UploadClaim(u)
         /\ \/ loop' = loop \/ loop = Run \/ CloseWindow \/ EspotaClaim \/ EspotaTransfer
            \/ FinishSampling \/ Evict \/ AfterOTA \/ AfterSampling \/ AfterScan
         /\ pull' = pull \/ PostPull \/ PullConnect \/ PullFetch \/ PullWrite \/ PullEnd \/ Restart
         /\ \/ owners' = owners \/ Restart
            \/ \E u \in Uploads : UploadClaim(u) \/ UploadFinal(u) \/ Disconnect(u)
         /\ radarOff' => radarOff \/ UploadStart \/ OpenWindow \/ EspotaClaim \/ PullConnect
         /\ radarOff' /\ maintenance => maintenance' \/ reboot'
         /\ reboot => reboot' \/ Restart
<1> USE DEF vars, coordinator, ota, csi, UploadClaim, UploadChunk,
            UploadFinal, Disconnect, ClaimSampling, SamplingDone, PostPull,
            PullConnect, PullFetch, PullWrite, PullEnd, PostPrepare,
            OpenWindow, WindowOver, EspotaStart, EspotaTransfer,
            AutoCalibrate, StopSiteLearning, ClaimScan, ScanDone, RestoreCsi,
            UploadStart, SetFlag, StartScan, CloseWindow, EspotaClaim,
            FinishSampling, ReadTimeout, Evict, AfterOTA, AfterSampling,
            AfterScan, Silence, Restart, RestoreServices, Resume
<1>1. \/ flags \subseteq flags' \/ StopSiteLearning \/ AfterSampling \/ Restart
      \/ \E s \in Samplings : SamplingDone(s) /\ flags' = flags \ {s}
  BY Steps
<1>2. overtaken \subseteq overtaken' \/ Restart
  BY Steps
<1>3. \/ web' = web \/ UploadStart \/ SetFlag \/ StartScan \/ Restart
      \/ web = "free" /\ web' \in Samplings \cup {"scan"}
      \/ \E u \in Uploads : UploadClaim(u)
  BY Steps
<1>4. \/ loop' = loop \/ loop = Run \/ CloseWindow \/ EspotaClaim \/ EspotaTransfer
      \/ FinishSampling \/ Evict \/ AfterOTA \/ AfterSampling \/ AfterScan
  BY Steps
<1>5. pull' = pull \/ PostPull \/ PullConnect \/ PullFetch \/ PullWrite \/ PullEnd \/ Restart
  BY Steps
<1>6. \/ owners' = owners \/ Restart
      \/ \E u \in Uploads : UploadClaim(u) \/ UploadFinal(u) \/ Disconnect(u)
  BY Steps
<1>7. radarOff' => radarOff \/ UploadStart \/ OpenWindow \/ EspotaClaim \/ PullConnect
  BY Steps
<1>8. radarOff' /\ maintenance => maintenance' \/ reboot'
  BY Steps
<1>9. reboot => reboot' \/ Restart
  BY Steps
<1> HIDE DEF StopSiteLearning, AfterSampling, Restart, SamplingDone, UploadStart, SetFlag, StartScan,
             UploadClaim, CloseWindow, EspotaClaim, EspotaTransfer, FinishSampling, Evict, AfterOTA,
             AfterScan, PostPull, PullConnect, PullFetch, PullWrite, PullEnd, OpenWindow, UploadFinal,
             Disconnect
<1>10. QED
  BY <1>1, <1>2, <1>3, <1>4, <1>5, <1>6, <1>7, <1>8, <1>9

LEMMA TypedStep ==
  ASSUME Typed, [Next]_vars
  PROVE  Typed'
<1> USE DEF vars, coordinator, ota, csi, UploadClaim, UploadChunk,
            UploadFinal, Disconnect, ClaimSampling, SamplingDone, PostPull,
            PullConnect, PullFetch, PullWrite, PullEnd, PostPrepare,
            OpenWindow, WindowOver, EspotaStart, EspotaTransfer,
            AutoCalibrate, StopSiteLearning, ClaimScan, ScanDone, RestoreCsi,
            UploadStart, SetFlag, StartScan, CloseWindow, EspotaClaim,
            FinishSampling, ReadTimeout, Evict, AfterOTA, AfterSampling,
            AfterScan, Silence, Restart, Typed
<1>1. claim' \in Claims
  BY Steps, ClaimsDiffer DEF TryBegin, Release, MarkProgress, Samplings
<1>2. loop' \in [step : LoopSteps, of : Claims]
  <2>1. \A step \in LoopSteps, of \in Claims : At(step, of) \in [step : LoopSteps, of : Claims]
    BY DEF At
  <2>2. Idle \in Claims /\ \A s \in Samplings : Claim(s, "none") \in Claims
    BY ClaimsDiffer
  <2>3. {"run", "close", "onStart", "espota", "finish", "cas", "evicted"} = LoopSteps
    BY DEF LoopSteps
  <2>4. Run \in [step : LoopSteps, of : Claims]
    BY <2>1, <2>2, <2>3 DEF Run
  <2> HIDE DEF EspotaStart, EspotaClaim, Evict
  <2>5. QED
    BY <2>1, <2>2, <2>3, <2>4, LoopChanges
<1>3. web' \in {"free", "scan"} \cup Uploads \cup Samplings
  BY Steps
<1>4. owners' \subseteq Uploads
  BY Steps
<1>5. update'.by \in Uploads \cup {"none", "pull", "espota"}
  <2>1. Failed.by = "none" /\ NoSession.by = "none" /\ \A by : Began(by).by = by
    BY DEF Failed, NoSession, Began
  <2>2. Aborted \in {update, Failed}
    BY DEF Aborted
  <2>3. \/ update' \in {update, Failed, NoSession, Aborted}
        \/ \E by \in Uploads \cup {"pull", "espota"} : update' = Began(by)
    BY Steps DEF RestoreServices
  <2>4. update.by \in Uploads \cup {"none", "pull", "espota"}
    BY DEF Typed
  <2> HIDE DEF Failed, NoSession, Began
  <2>5. QED
    BY <2>1, <2>2, <2>3, <2>4
<1>6. QED
  BY <1>1, <1>2, <1>3, <1>4, <1>5

LEMMA LoopIsAboutStep ==
  ASSUME Typed, LoopIsAbout, [Next]_vars
  PROVE  LoopIsAbout'
<1>1. \A step, of : At(step, of).step = step /\ At(step, of).of = of
  BY DEF At
<1>2. Run.of = Idle
  BY <1>1 DEF Run
<1>3. \A z \in Samplings : Claim(z, "none") \notin OTA
  BY ClaimsDiffer
<1>4. QED
  BY <1>1, <1>2, <1>3, LoopChanges DEF LoopIsAbout, Run

(* How a claim ends, and whose it was. *)
LEMMA ClaimChanges ==
  ASSUME Typed, LoopIsAbout, [Next]_vars
  PROVE  \/ claim' = claim \/ claim = Idle \/ claim \notin OTA \/ Restart
         \/ /\ claim' = Idle
            /\ \/ claim = HTTP /\ \E u \in Uploads : UploadFinal(u)
               \/ claim = Pull /\ (PullEnd \/ (PullConnect /\ pull' = "none"))
               \/ claim = Prepare /\ (CloseWindow \/ EspotaStart)
               \/ claim = Espota /\ EspotaTransfer
               \/ claim = loop.of /\ Evict
<1>1. \/ claim' = claim \/ claim = Idle \/ Restart
      \/ \E u \in Uploads : UploadFinal(u)
      \/ PullEnd \/ PullConnect \/ CloseWindow \/ EspotaStart \/ EspotaTransfer \/ Evict
      \/ FinishSampling \/ StopSiteLearning \/ StartScan \/ ScanDone \/ RestoreCsi
  <2> USE DEF vars, coordinator, ota, csi, UploadClaim, UploadChunk,
              UploadFinal, Disconnect, ClaimSampling, SamplingDone, PostPull,
              PullConnect, PullFetch, PullWrite, PullEnd, PostPrepare,
              OpenWindow, WindowOver, EspotaStart, EspotaTransfer,
              AutoCalibrate, StopSiteLearning, ClaimScan, ScanDone,
              RestoreCsi, UploadStart, SetFlag, StartScan, CloseWindow,
              EspotaClaim, FinishSampling, ReadTimeout, Evict, AfterOTA,
              AfterSampling, AfterScan, Silence, Restart, TryBegin,
              MarkProgress
  <2>1. QED
    BY Steps
<1>2. CASE FinishSampling
  BY <1>2 DEF FinishSampling, Release, LoopIsAbout, coordinator
<1>3. CASE StopSiteLearning
  BY <1>3, ClaimsDiffer DEF StopSiteLearning, Release, Samplings, coordinator
<1>4. CASE StartScan \/ ScanDone \/ RestoreCsi
  BY <1>4, ClaimsDiffer DEF StartScan, ScanDone, RestoreCsi, Release, coordinator
<1>5. CASE \E u \in Uploads : UploadFinal(u)
  BY <1>5 DEF UploadFinal, Release, coordinator
<1>6. CASE PullEnd
  BY <1>6 DEF PullEnd, Release, coordinator
<1>7. CASE PullConnect
  BY <1>7 DEF PullConnect, Release, MarkProgress, coordinator
<1>8. CASE CloseWindow
  BY <1>8 DEF CloseWindow, Release, coordinator
<1>9. CASE EspotaStart
  BY <1>9 DEF EspotaStart, Release, coordinator
<1>10. CASE EspotaTransfer
  BY <1>10 DEF EspotaTransfer, Release, MarkProgress, coordinator
<1>11. CASE Evict
  BY <1>11 DEF Evict, Release, coordinator
<1>12. QED
  BY <1>1, <1>2, <1>3, <1>4, <1>5, <1>6, <1>7, <1>8, <1>9, <1>10, <1>11

LEMMA WatchStep ==
  ASSUME WatchInv, [Next]_vars
  PROVE  ClaimIsWatched'
<1> USE DEF Typed, LoopIsAbout
<1>1. \A step, of : At(step, of).step = step /\ At(step, of).of = of
  BY DEF At
<1>a. SUFFICES ASSUME NEW s \in Samplings, claim' = Claim(s, "none")
               PROVE  s \in flags' \cup overtaken' \/ web' = s \/ loop'.of = claim'
  BY DEF ClaimIsWatched
<1>2. Claim(s, "none") \notin OTA \cup {Idle, Scan} /\ Claim(s, "none").operation = s
  BY ClaimsDiffer
<1>3. s \notin Uploads \cup {"free", "scan"}
  BY UploadsAssumption DEF Samplings
<1>b. Run.of = Idle /\ Run.step = "run"
  BY <1>1 DEF Run
<1>4. CASE claim' # claim
  <2>1. \/ ClaimSampling(s)
        \/ AutoCalibrate /\ s = "calibration"
    <3>1. \A z \in Samplings : Claim(z, "none") = Claim(s, "none") => z = s
      BY ClaimsDiffer
    <3>2. "calibration" \in Samplings
      BY DEF Samplings
    <3> USE DEF vars, coordinator, ota, csi, UploadClaim, UploadChunk,
                UploadFinal, Disconnect, ClaimSampling, SamplingDone,
                PostPull, PullConnect, PullFetch, PullWrite, PullEnd,
                PostPrepare, OpenWindow, WindowOver, EspotaStart,
                EspotaTransfer, AutoCalibrate, StopSiteLearning, ClaimScan,
                ScanDone, RestoreCsi, UploadStart, SetFlag, StartScan,
                CloseWindow, EspotaClaim, FinishSampling, ReadTimeout, Evict,
                AfterOTA, AfterSampling, AfterScan, Silence, Restart, Release,
                TryBegin, MarkProgress
    <3>3. QED
      BY <1>a, <1>2, <1>4, <3>1, <3>2, Steps, ClaimsDiffer
  <2>2. QED
    BY <2>1 DEF ClaimSampling, AutoCalibrate
<1>5. CASE claim' = claim
  <2>1. s \in flags \cup overtaken \/ web = s \/ loop.of = claim
    BY <1>a, <1>5 DEF WatchInv, ClaimIsWatched
  <2>2. CASE s \in flags
    <3>1. s \in flags' \/ SamplingDone(s) \/ StopSiteLearning \/ AfterSampling \/ Restart
      <4>1. CASE \E z \in Samplings : SamplingDone(z) /\ flags' = flags \ {z}
        BY <2>2, <4>1
      <4>2. QED
        BY <2>2, <4>1, Touched
    <3>2. CASE SamplingDone(s)
      BY <1>a, <1>1, <3>2 DEF SamplingDone
    <3>3. CASE AfterSampling
      <4>1. loop.of.operation = s \/ s \in flags'
        BY <2>2, <3>3 DEF AfterSampling
      <4>2. ASSUME loop.of.operation = s PROVE loop.of = claim
        BY <1>a, <1>5, <4>2, ClaimsDiffer DEF WatchInv
      <4>3. QED
        BY <1>2, <1>a, <1>5, <3>3, <4>1, <4>2 DEF AfterSampling, ota
    <3>4. CASE StopSiteLearning
      BY <1>a, <1>5, <1>2, <2>2, <3>4 DEF StopSiteLearning, Release
    <3>5. CASE Restart
      BY <1>a, <1>2, <3>5 DEF Restart
    <3>6. QED
      BY <3>1, <3>2, <3>3, <3>4, <3>5
  <2>3. CASE s \in overtaken
    <3>1. s \in overtaken' \/ Restart
      BY <2>3, Touched
    <3>2. QED
      BY <1>a, <1>2, <3>1 DEF Restart
  <2>4. CASE web = s
    <3>1. web' = s \/ SetFlag \/ Restart
      BY <1>3, <2>4, Touched DEF UploadStart, StartScan, UploadClaim
    <3>2. QED
      BY <1>a, <1>2, <2>4, <3>1 DEF SetFlag, Restart
  <2>5. CASE loop.of = claim
    <3>1. loop.step \in {"finish", "cas", "evicted"}
      BY <1>a, <1>2, <1>5, <2>5 DEF WatchInv, LoopSteps
    <3>2. loop' = loop \/ FinishSampling \/ Evict \/ AfterOTA \/ AfterSampling \/ AfterScan \/ Restart
      BY <1>b, <3>1, Touched DEF CloseWindow, EspotaClaim, EspotaTransfer
    <3>3. CASE AfterSampling
      <4>1. loop.of.operation = s
        BY <1>a, <1>2, <1>5, <2>5
      <4>2. QED
        BY <1>a, <1>5, <2>5, <3>3, <4>1 DEF AfterSampling
    <3>4. QED
      BY <1>a, <1>1, <1>2, <1>5, <2>5, <3>2, <3>3
         DEF FinishSampling, Evict, AfterOTA, AfterScan, Restart, Release
  <2>6. QED
    BY <2>1, <2>2, <2>3, <2>4, <2>5
<1>6. QED
  BY <1>4, <1>5

LEMMA TypedInit == Init => Typed /\ LoopIsAbout
<1> SUFFICES ASSUME Init PROVE Typed /\ LoopIsAbout
  OBVIOUS
<1>1. Idle \in Claims
  BY ClaimsDiffer
<1>2. QED
  BY <1>1 DEF Init, Typed, LoopIsAbout, Run, At, LoopSteps, NoSession

(* Nobody polls a claim without the flag of its operation: a calibration   *)
(* or a site learning that had one and not the other would keep every      *)
(* update, scan and sampling away until a restart.                         *)
THEOREM ClaimsAreWatched == Spec => []ClaimIsWatched
<1>1. Init => WatchInv
  <2>1. Init => ClaimIsWatched
    BY ClaimsDiffer DEF Init, ClaimIsWatched
  <2>2. QED
    BY <2>1, TypedInit DEF WatchInv
<1>2. WatchInv /\ [Next]_vars => WatchInv'
  BY WatchStep, TypedStep, LoopIsAboutStep DEF WatchInv
<1>3. WatchInv => ClaimIsWatched
  BY DEF WatchInv
<1>4. QED
  BY <1>1, <1>2, <1>3, PTL DEF Spec

-----------------------------------------------------------------------------
(* RuntimeOperations: the radar is resumed.                                *)

LEMMA StartsWithClaimStep ==
  ASSUME Typed, LoopIsAbout, StartsWithClaim, [Next]_vars
  PROVE  StartsWithClaim'
<1> SUFFICES ASSUME web' \in Uploads PROVE claim' = HTTP \/ "ota" \in overtaken'
  BY DEF StartsWithClaim
<1>1. "free" \notin Uploads /\ "scan" \notin Uploads /\ \A s \in Samplings : s \notin Uploads
  BY UploadsAssumption DEF Samplings
<1>2. web' = web \/ \E u \in Uploads : UploadClaim(u)
  BY <1>1, Touched DEF UploadStart, SetFlag, StartScan, Restart
<1>3. CASE \E u \in Uploads : UploadClaim(u)
  BY <1>3 DEF UploadClaim, TryBegin
<1>4. CASE web' = web
  <2>1. claim = HTTP \/ "ota" \in overtaken
    BY <1>4 DEF StartsWithClaim
  <2>2. web # "free" /\ web \in Uploads
    BY <1>1, <1>4
  <2>3. overtaken \subseteq overtaken' \/ Restart
    BY Touched
  <2>4. CASE claim = HTTP
    <3>1. claim' = HTTP \/ Evict \/ Restart
      BY <1>1, <2>2, <2>4, ClaimChanges, ClaimsDiffer DEF UploadFinal
    <3>2. QED
      BY <1>1, <1>4, <2>2, <2>4, <3>1 DEF Evict, Restart, Release, coordinator
  <2>5. QED
    BY <1>1, <1>4, <2>1, <2>2, <2>3, <2>4 DEF Restart
<1>5. QED
  BY <1>2, <1>3, <1>4

LEMMA RescuerStep ==
  ASSUME RescueInv, [Next]_vars, radarOff', "ota" \notin overtaken'
  PROVE  Rescuer'
<1> USE DEF RescueInv, Typed
<1>1. \A step, of : At(step, of).step = step /\ At(step, of).of = of
  BY DEF At
<1>2. Run.step = "run"
  BY <1>1 DEF Run
<1>3. ~Restart /\ "ota" \notin overtaken
  <2>1. ~Restart
    BY DEF Restart
  <2>2. QED
    BY <2>1, Touched
<1>4. CASE ~radarOff
  <2>1. UploadStart \/ OpenWindow \/ EspotaClaim \/ (PullConnect /\ pull' = "fetching")
    BY <1>4, Touched DEF PullConnect, RestoreServices, Resume
  <2>2. CASE UploadStart
    BY <1>3, <2>2, ClaimsDiffer DEF UploadStart, StartsWithClaim, Rescuer, coordinator
  <2>3. CASE OpenWindow
    BY <2>3 DEF OpenWindow, Rescuer
  <2>4. CASE EspotaClaim
    <3>1. loop' = At("espota", Idle)
      BY <1>4, <2>4 DEF EspotaClaim, RestoreServices, Resume
    <3>2. QED
      BY <1>1, <3>1 DEF Rescuer
  <2>5. CASE PullConnect /\ pull' = "fetching"
    BY <2>5 DEF Rescuer
  <2>6. QED
    BY <2>1, <2>2, <2>3, <2>4, <2>5
<1>5. CASE radarOff
  <2>1. Rescuer
    BY <1>3, <1>5
  (* Who resumes the radar is not among those who go. *)
  <2>2. /\ ~AfterOTA /\ ~CloseWindow /\ ~PullEnd
        /\ EspotaTransfer => loop' = loop \/ reboot'
        /\ EspotaClaim => loop' = At("espota", Idle)
        /\ \A u \in Uploads : UploadFinal(u) => reboot'
    BY DEF AfterOTA, CloseWindow, PullEnd, EspotaTransfer, EspotaClaim, UploadFinal,
           RestoreServices, Resume
  <2>3. CASE claim \in OTA \ {Pull}
    <3>1. \/ claim' = claim
          \/ (Evict /\ claim = loop.of)
          \/ \E u \in Uploads : UploadFinal(u)
          \/ EspotaStart
          \/ (EspotaTransfer /\ claim' = Idle)
      BY <1>3, <2>2, <2>3, ClaimChanges, ClaimsDiffer
    <3>2. CASE claim' = claim
      BY <2>3, <3>2 DEF Rescuer
    <3>3. CASE Evict /\ claim = loop.of
      BY <1>1, <2>3, <3>3 DEF Evict, Rescuer
    <3>4. CASE \E u \in Uploads : UploadFinal(u)
      BY <2>2, <3>4 DEF Rescuer
    <3>5. CASE EspotaStart
      BY <1>1, <3>5 DEF EspotaStart, Rescuer
    <3>6. CASE EspotaTransfer /\ claim' = Idle
      <4>1. loop.step = "espota"
        BY <3>6 DEF EspotaTransfer
      <4>2. CASE loop' = loop
        BY <4>1, <4>2 DEF Rescuer
      <4>3. QED
        BY <2>2, <3>6, <4>2 DEF Rescuer
    <3>7. QED
      BY <3>1, <3>2, <3>3, <3>4, <3>5, <3>6
  <2>4. CASE maintenance
    <3>1. maintenance' \/ reboot'
      BY <1>5, <2>4, Touched
    <3>2. QED
      BY <3>1 DEF Rescuer
  <2>5. CASE reboot
    <3>1. reboot'
      BY <1>3, <2>5, Touched
    <3>2. QED
      BY <3>1 DEF Rescuer
  <2>6. CASE pull \in {"fetching", "writing", "failed", "flashed"}
    <3>1. pull' \in {"fetching", "writing", "failed", "flashed"}
      BY <1>3, <2>2, <2>6, Touched DEF PostPull, PullConnect, PullFetch, PullWrite
    <3>2. QED
      BY <3>1 DEF Rescuer
  <2>7. CASE loop.step \in {"close", "onStart", "espota"}
    <3>1. loop' = loop \/ EspotaClaim \/ EspotaTransfer
      BY <1>2, <2>2, <2>7, Touched DEF FinishSampling, Evict, AfterSampling, AfterScan
    <3>2. QED
      BY <1>1, <2>2, <2>7, <3>1 DEF Rescuer
  <2>8. CASE loop.step = "evicted" /\ loop.of \in OTA
    <3>1. loop' = loop
      <4>1. loop # Run /\ loop.of # Scan /\ loop.of.operation \notin Samplings
        <5>1. loop.of.operation \in Samplings => loop.of = Claim(loop.of.operation, "none")
          BY ClaimsDiffer
        <5>2. QED
          BY <1>2, <2>8, <5>1, ClaimsDiffer
      <4>2. QED
        BY <2>2, <2>8, <4>1, Touched
           DEF EspotaClaim, EspotaTransfer, FinishSampling, Evict, AfterSampling, AfterScan
    <3>2. QED
      BY <2>8, <3>1 DEF Rescuer
  <2>9. QED
    BY <2>1, <2>3, <2>4, <2>5, <2>6, <2>7, <2>8 DEF Rescuer
<1>6. QED
  BY <1>4, <1>5

(* Whichever way a transfer dies, and whoever else claims, fails or is     *)
(* evicted meanwhile, the radar that it suspended has somebody who resumes *)
(* it (otaRuntimeRestoreServices()) or restarts the device.                *)
THEOREM RadarIsRescued == Spec => []RadarHasRescuer
<1>1. Init => RescueInv
  <2>1. Init => StartsWithClaim /\ ~radarOff
    BY UploadsAssumption DEF Init, StartsWithClaim
  <2>2. QED
    BY <2>1, TypedInit DEF RescueInv
<1>2. RescueInv /\ [Next]_vars => RescueInv'
  BY RescuerStep, StartsWithClaimStep, TypedStep, LoopIsAboutStep DEF RescueInv
<1>3. RescueInv => RadarHasRescuer
  BY DEF RescueInv, Rescuer, RadarHasRescuer
<1>4. QED
  BY <1>1, <1>2, <1>3, PTL DEF Spec

-----------------------------------------------------------------------------
(* RuntimeOperations: one writer of the image.                             *)

LEMMA NamesDiffer ==
  /\ \A x \in {"free", "scan", "none", "pull", "espota"} \cup Samplings : x \notin Uploads
  /\ \A step, of : At(step, of).step = step /\ At(step, of).of = of
  /\ Run.step = "run"
  /\ Failed.by = "none" /\ NoSession.by = "none" /\ \A by : Began(by).by = by
  /\ Aborted = update \/ Aborted = Failed
BY UploadsAssumption DEF Samplings, Run, At, Failed, NoSession, Began, Aborted

(* Who still has its claim, of those that upload. *)
LEMMA OwnersChange ==
  ASSUME Typed, [Next]_vars
  PROVE  \/ \E u \in Uploads : UploadClaim(u)
         \/ PostPull /\ owners' = owners /\ lost' = lost \ {"pull"}
         \/ Restart
         \/ owners' \subseteq owners /\ lost \subseteq lost'
<1> USE DEF vars, coordinator, ota, csi, UploadClaim, UploadChunk,
            UploadFinal, Disconnect, ClaimSampling, SamplingDone, PostPull,
            PullConnect, PullFetch, PullWrite, PullEnd, PostPrepare,
            OpenWindow, WindowOver, EspotaStart, EspotaTransfer,
            AutoCalibrate, StopSiteLearning, ClaimScan, ScanDone, RestoreCsi,
            UploadStart, SetFlag, StartScan, CloseWindow, EspotaClaim,
            FinishSampling, ReadTimeout, Evict, AfterOTA, AfterSampling,
            AfterScan, Silence, Restart
<1>1. QED
  BY Steps

(* What the eviction of a claim does to its owners. *)
LEMMA Victimised ==
  ASSUME Evict, claim = loop.of
  PROVE  /\ claim = HTTP => owners \subseteq lost'
         /\ claim = Pull => "pull" \in lost'
         /\ owners' = owners /\ lost \subseteq lost'
BY ClaimsDiffer DEF Evict, Victims

LEMMA OwnersClaimStep ==
  ASSUME Typed, LoopIsAbout, OwnersClaim, [Next]_vars
  PROVE  OwnersClaim'
<1>1. CASE \E u \in Uploads : UploadClaim(u)
  <2>1. PICK u \in Uploads : UploadClaim(u)
    BY <1>1
  <2>2. /\ claim = Idle /\ claim' = HTTP
        /\ owners' = owners \cup {u} /\ lost' = lost \ {u}
    BY <2>1 DEF UploadClaim, TryBegin
  <2>3. owners \ lost = {}
    BY <2>2, ClaimsDiffer DEF OwnersClaim
  <2>4. owners' \ lost' \subseteq {u}
    BY <2>2, <2>3
  <2>5. QED
    BY <2>2, <2>4 DEF OwnersClaim
<1>2. CASE owners' \ lost' \subseteq owners \ lost /\ ~Restart
  <2>1. \A u, v \in owners' \ lost' : u = v
    BY <1>2 DEF OwnersClaim
  <2>2. ASSUME NEW u \in owners' \ lost' PROVE claim' = HTTP
    <3>1. claim = HTTP
      BY <1>2 DEF OwnersClaim
    <3>2. CASE \E x \in Uploads : UploadFinal(x)
      <4>1. owners' \ lost' = {}
        BY <3>2 DEF UploadFinal
      <4>2. QED
        BY <4>1
    <3>3. CASE Evict /\ claim = loop.of
      BY <3>1, <3>3, Victimised
    <3>4. QED
      BY <1>2, <3>1, <3>2, <3>3, ClaimChanges, ClaimsDiffer
  <2>3. QED
    BY <2>1, <2>2 DEF OwnersClaim
<1>3. CASE Restart
  BY <1>3 DEF Restart, OwnersClaim
<1>4. "pull" \notin owners
  BY NamesDiffer DEF Typed
<1>5. QED
  BY <1>1, <1>2, <1>3, <1>4, OwnersChange

LEMMA PullClaimsStep ==
  ASSUME Typed, LoopIsAbout, PullClaims, [Next]_vars
  PROVE  PullClaims'
<1> SUFFICES ASSUME pull' # "none", "pull" \notin lost' PROVE claim' = Pull
  BY DEF PullClaims
<1>1. CASE PostPull
  BY <1>1 DEF PostPull, TryBegin
<1>2. CASE ~PostPull
  <2>1. pull # "none" /\ ~Restart
    BY <1>2, Touched DEF PullConnect, PullFetch, PullWrite, PullEnd, Restart
  <2>2. "pull" \notin lost
    <3>1. \A u \in Uploads : UploadClaim(u) => lost' = lost \ {u}
      BY DEF UploadClaim
    <3>2. QED
      BY <1>2, <2>1, <3>1, OwnersChange, NamesDiffer
  <2>3. claim = Pull
    BY <2>1, <2>2 DEF PullClaims
  <2>4. ~PullEnd
    BY DEF PullEnd
  <2>5. Evict /\ claim = loop.of => "pull" \in lost'
    BY <2>3, Victimised
  <2>6. QED
    BY <2>1, <2>3, <2>4, <2>5, ClaimChanges, ClaimsDiffer
<1>3. QED
  BY <1>1, <1>2

LEMMA EspotaClaimsStep ==
  ASSUME Typed, LoopIsAbout, EspotaClaims, [Next]_vars
  PROVE  EspotaClaims'
<1> SUFFICES ASSUME loop'.step = "espota" PROVE claim' = Espota
  BY DEF EspotaClaims
<1>1. loop' = loop \/ claim' = Espota
  BY LoopChanges, NamesDiffer
<1>2. CASE loop' = loop
  <2>1. claim = Espota /\ loop.step = "espota" /\ loop # Run
    BY <1>2, NamesDiffer DEF EspotaClaims
  <2>2. ~Evict /\ ~Restart
    BY <1>2, <2>1 DEF Evict, Restart
  <2>3. EspotaTransfer => claim' = claim
    BY <1>2, <2>1 DEF EspotaTransfer, MarkProgress
  <2>4. QED
    BY <2>1, <2>2, <2>3, ClaimChanges, ClaimsDiffer
<1>3. QED
  BY <1>1, <1>2

LEMMA StartIsOwnerStep ==
  ASSUME Typed, LoopIsAbout, StartIsOwner, [Next]_vars
  PROVE  StartIsOwner'
<1> SUFFICES ASSUME web' \in Uploads PROVE web' \in owners' /\ (claim' = HTTP \/ web' \in lost')
  BY DEF StartIsOwner
<1>1. CASE \E u \in Uploads : UploadClaim(u)
  BY <1>1 DEF UploadClaim, TryBegin
<1>2. CASE ~\E u \in Uploads : UploadClaim(u)
  <2>1. web' = web /\ web # "free" /\ ~Restart
    BY <1>2, Touched, NamesDiffer DEF UploadStart, SetFlag, StartScan, Restart
  <2>2. web \in owners /\ (claim = HTTP \/ web \in lost)
    BY <2>1 DEF StartIsOwner
  <2>3. owners' = owners
    BY <1>2, <2>1, Touched, NamesDiffer DEF UploadFinal, Disconnect
  <2>4. ~PostPull /\ \A u \in Uploads : ~UploadFinal(u)
    BY <2>1 DEF PostPull, UploadFinal
  <2>5. lost \subseteq lost'
    BY <1>2, <2>1, <2>4, OwnersChange
  <2>6. CASE claim = HTTP
    <3>1. claim' = HTTP \/ (Evict /\ claim = loop.of)
      BY <2>1, <2>4, <2>6, ClaimChanges, ClaimsDiffer
    <3>2. QED
      BY <2>1, <2>2, <2>3, <2>6, <3>1, Victimised
  <2>7. QED
    BY <2>1, <2>2, <2>3, <2>5, <2>6
<1>3. QED
  BY <1>1, <1>2

(* Who begins an image, or goes on with it. *)
LEMMA ImageChanges ==
  ASSUME [Next]_vars
  PROVE  \/ update'.by = "none"
         \/ update' = update
         \/ UploadStart /\ update'.by = web
         \/ PullFetch /\ pull' = "writing" /\ update'.by = "pull"
         \/ EspotaStart /\ update'.by = "espota"
<1>1. \/ update' = update \/ UploadStart \/ PullFetch \/ EspotaStart
      \/ update' \in {Aborted, Failed, NoSession}
  <2> USE DEF vars, coordinator, ota, csi, UploadClaim, UploadChunk,
              UploadFinal, Disconnect, ClaimSampling, SamplingDone, PostPull,
              PullConnect, PullFetch, PullWrite, PullEnd, PostPrepare,
              OpenWindow, WindowOver, EspotaStart, EspotaTransfer,
              AutoCalibrate, StopSiteLearning, ClaimScan, ScanDone,
              RestoreCsi, UploadStart, SetFlag, StartScan, CloseWindow,
              EspotaClaim, FinishSampling, ReadTimeout, Evict, AfterOTA,
              AfterSampling, AfterScan, Silence, Restart, RestoreServices
  <2>1. QED
    BY Steps
<1>2. QED
  BY <1>1, NamesDiffer DEF UploadStart, PullFetch, EspotaStart

LEMMA ImageOfUploadStep ==
  ASSUME WriterInv, [Next]_vars
  PROVE  ImageOfUpload'
<1> USE DEF WriterInv
<1> DEFINE by == update'.by
<1>1. SUFFICES ASSUME by \in Uploads, by \notin lost'
               PROVE  /\ \A v \in owners' \ lost' : v = by \/ web' = v
                      /\ pull' = "writing" => "pull" \in lost'
                      /\ loop'.step \in {"onStart", "espota"} => claim' = HTTP
  BY DEF ImageOfUpload
<1>2. CASE UploadStart
  <2>1. /\ by = web /\ UNCHANGED <<claim, loop, owners, lost, pull>>
    BY <1>1, <1>2, NamesDiffer DEF UploadStart, coordinator
  <2>2. web \in owners \ lost /\ claim = HTTP
    BY <1>1, <2>1 DEF StartIsOwner
  <2>3. QED
    BY <2>1, <2>2, ClaimsDiffer DEF OwnersClaim, PullClaims
<1>3. CASE ~UploadStart
  <2>1. by = update.by /\ ~EspotaStart /\ (PullFetch => pull' # "writing")
    BY <1>1, <1>3, ImageChanges, NamesDiffer DEF EspotaStart, PullFetch
  <2>2. ~Restart /\ \A u \in Uploads : ~UploadFinal(u)
    BY <1>1, NamesDiffer DEF Restart, UploadFinal
  <2>3. CASE \E u \in Uploads : UploadClaim(u)
    <3>1. PICK u \in Uploads : UploadClaim(u)
      BY <2>3
    <3>2. /\ claim = Idle /\ claim' = HTTP /\ web' = u /\ pull' = pull
          /\ owners' = owners \cup {u} /\ lost' = lost \ {u}
      BY <3>1 DEF UploadClaim, TryBegin
    <3>3. owners \ lost = {}
      BY <3>2, ClaimsDiffer DEF OwnersClaim
    <3>4. pull' = "writing" => "pull" \in lost'
      BY <3>2, ClaimsDiffer, NamesDiffer DEF PullClaims
    <3>5. QED
      BY <3>2, <3>3, <3>4
  <2>4. CASE PostPull
    <3>1. /\ claim = Idle /\ pull' = "connecting" /\ loop' = loop
          /\ owners' = owners /\ lost' = lost \ {"pull"}
      BY <2>4 DEF PostPull, TryBegin
    <3>2. owners' \ lost' = {}
      BY <3>1, ClaimsDiffer, NamesDiffer DEF OwnersClaim, Typed
    <3>3. by \notin lost
      BY <1>1, <3>1, NamesDiffer
    <3>4. loop.step \notin {"onStart", "espota"}
      BY <1>1, <2>1, <3>1, <3>3, ClaimsDiffer DEF ImageOfUpload
    <3>5. QED
      BY <3>1, <3>2, <3>4
  <2>5. CASE owners' \subseteq owners /\ lost \subseteq lost'
             /\ ~(\E u \in Uploads : UploadClaim(u)) /\ ~PostPull
    <3>1. update.by \in Uploads \ lost
      BY <1>1, <2>1, <2>5
    <3>2. \A v \in owners' \ lost' : v = by \/ web = v
      BY <2>1, <2>5, <3>1 DEF ImageOfUpload
    <3>3. web' = web \/ web \notin Uploads
      BY <1>3, <2>2, <2>5, Touched, NamesDiffer DEF SetFlag, StartScan
    <3>4. \A v \in owners' \ lost' : v = by \/ web' = v
      BY <2>5, <3>2, <3>3 DEF Typed
    <3>5. pull' = "writing" => pull = "writing"
      BY <2>1, <2>2, Touched DEF PostPull, PullConnect, PullFetch, PullWrite, PullEnd
    <3>6. pull' = "writing" => "pull" \in lost'
      BY <2>5, <3>1, <3>5 DEF ImageOfUpload
    <3>7. ASSUME loop'.step \in {"onStart", "espota"} PROVE claim' = HTTP
      <4>1. loop.step \in {"onStart", "espota"} \/ EspotaClaim
        BY <2>1, <3>7, LoopChanges, NamesDiffer
      <4>2. loop.step \in {"onStart", "espota"}
        BY <4>1 DEF EspotaClaim
      <4>3. claim = HTTP
        BY <3>1, <4>2 DEF ImageOfUpload
      <4>4. ~Evict
        BY <4>2 DEF Evict
      <4>5. QED
        BY <2>2, <4>3, <4>4, ClaimChanges, ClaimsDiffer
    <3>8. QED
      BY <3>4, <3>6, <3>7
  <2>6. QED
    BY <2>2, <2>3, <2>4, <2>5, OwnersChange
<1>4. QED
  BY <1>2, <1>3

LEMMA ImageOfOthersStep ==
  ASSUME WriterInv, [Next]_vars
  PROVE  ImageOfPull' /\ ImageOfEspota'
<1> USE DEF WriterInv
<1>1. ASSUME update'.by = "pull" PROVE pull' = "writing"
  <2>1. (PullFetch /\ pull' = "writing") \/ update' = update
    BY <1>1, ImageChanges, NamesDiffer DEF UploadStart
  <2>2. CASE update' = update
    <3>1. pull = "writing" /\ Running /\ Aborted = Failed
      BY <1>1, <2>2 DEF ImageOfPull, Running, Aborted
    <3>2. ~PullWrite /\ ~Restart
      BY <1>1, <3>1, NamesDiffer DEF PullWrite, Restart
    <3>3. QED
      BY <2>2, <1>1, <3>1, <3>2, Touched, NamesDiffer DEF PostPull, PullConnect, PullFetch, PullEnd, RestoreServices
  <2>3. QED
    BY <2>1, <2>2
<1>2. ASSUME update'.by = "espota" PROVE loop'.step \in {"onStart", "espota"}
  <2>1. EspotaStart \/ update' = update
    BY <1>2, ImageChanges, NamesDiffer DEF UploadStart
  <2>2. CASE EspotaStart
    BY <2>2, NamesDiffer DEF EspotaStart
  <2>3. CASE update' = update
    <3>1. loop.step \in {"onStart", "espota"} /\ Running /\ Aborted = Failed
      BY <1>2, <2>3 DEF ImageOfEspota, Running, Aborted
    <3>2. EspotaClaim => loop'.step = "espota"
      BY <1>2, <3>1, NamesDiffer DEF EspotaClaim, RestoreServices
    <3>3. EspotaTransfer => loop' = loop
      BY <1>2, <3>1, NamesDiffer DEF EspotaTransfer, RestoreServices
    <3>4. loop' = loop \/ EspotaClaim \/ EspotaTransfer \/ Restart
      BY <3>1, NamesDiffer, Touched
         DEF CloseWindow, FinishSampling, Evict, AfterOTA, AfterSampling, AfterScan
    <3>5. ~Restart
      BY <1>2, NamesDiffer DEF Restart
    <3>6. QED
      BY <3>1, <3>2, <3>3, <3>4, <3>5
  <2>4. QED
    BY <2>1, <2>2, <2>3
<1>3. QED
  BY <1>1, <1>2 DEF ImageOfPull, ImageOfEspota

(* However claims, evictions, disconnects and retries interleave: a second *)
(* client writes into an image only if it or the first one had its claim   *)
(* taken (the one owner number of all uploads, the pull that does not ask  *)
(* again).                                                                 *)
THEOREM ImagesHaveOneWriter == Spec => []OneWriter
<1>1. Init => WriterInv
  <2> SUFFICES ASSUME Init PROVE WriterInv
    OBVIOUS
  <2>1. OwnersClaim /\ PullClaims
    BY DEF Init, OwnersClaim, PullClaims
  <2>2. EspotaClaims /\ ImageOfEspota /\ ImageOfUpload /\ ImageOfPull /\ StartIsOwner
    BY NamesDiffer DEF Init, EspotaClaims, ImageOfEspota, ImageOfUpload, ImageOfPull, StartIsOwner
  <2>3. QED
    BY <2>1, <2>2, TypedInit DEF WriterInv
<1>2. WriterInv /\ [Next]_vars => WriterInv'
  BY TypedStep, LoopIsAboutStep, OwnersClaimStep, PullClaimsStep, EspotaClaimsStep,
     StartIsOwnerStep, ImageOfUploadStep, ImageOfOthersStep DEF WriterInv
<1>3. WriterInv => OneWriter
  <2> SUFFICES ASSUME WriterInv, Running, ~Unclaimed, NEW w \in Writers
               PROVE  w = update.by \/ {w, update.by} \cap lost # {}
    BY DEF OneWriter
  <2>1. \/ w \in owners /\ claim = HTTP /\ web # w
        \/ w = "pull" /\ pull = "writing"
        \/ w = "espota" /\ claim = Espota /\ loop.step = "espota"
    BY DEF Writers, WriterInv, EspotaClaims
  <2>2. CASE update.by \in Uploads
    BY <2>1, <2>2, ClaimsDiffer DEF WriterInv, ImageOfUpload
  <2>3. CASE update.by = "pull"
    BY <2>1, <2>3, ClaimsDiffer DEF WriterInv, ImageOfPull, PullClaims
  <2>4. CASE update.by = "espota"
    <3>1. claim = Espota
      BY <2>4 DEF WriterInv, ImageOfEspota, EspotaClaims, Unclaimed
    <3>2. QED
      BY <2>1, <2>4, <3>1, ClaimsDiffer DEF WriterInv, PullClaims
  <2>5. QED
    BY <2>2, <2>3, <2>4 DEF WriterInv, Typed, Running
<1>4. QED
  BY <1>1, <1>2, <1>3, PTL DEF Spec

-----------------------------------------------------------------------------
(* WebAdmission.                                                           *)

SlotStates == [busy : BOOLEAN, gen : 0..(Generations - 1), age : 0..SlotTtl]
Busy(s) == {i \in Slots : s[i].busy}

AdmissionTyped ==
  /\ slot \in [Slots -> SlotStates]
  /\ inFlight \in Nat
  /\ DOMAIN conn = Connections
  /\ \A c \in Connections :
       /\ conn[c] = [open |-> conn[c].open, token |-> conn[c].token, age |-> conn[c].age]
       /\ conn[c].age \in 0..SlotTtl
       /\ conn[c].open => conn[c].token \in Tokens

(* The count is that of the slots, and every connection that was let in    *)
(* less than the time to live ago holds a slot of its own, as old as it.   *)
Counted == inFlight = Cardinality(Busy(slot))
Holds(c) ==
  LET token == conn[c].token
  IN  token.index \in Slots /\ Matches(token) /\ slot[token.index].age = conn[c].age
EachHoldsItsOwn ==
  /\ \A c \in Young : Holds(c)
  /\ \A c, d \in Young : conn[c].token.index = conn[d].token.index => c = d

AdmissionInv == AdmissionTyped /\ Counted /\ EachHoldsItsOwn /\ AdmittedCanSpend

LEMMA ExpiredIs ==
  ASSUME AdmissionTyped
  PROVE  /\ Expired \in [Slots -> SlotStates]
         /\ \A i \in Slots :
              /\ slot[i].age < SlotTtl => Expired[i] = slot[i]
              /\ Expired[i].busy <=> slot[i].busy /\ slot[i].age < SlotTtl
              /\ Expired[i].age = slot[i].age
<1>1. SlotTtl \in Nat
  BY AdmissionAssumption
<1>2. ASSUME NEW i \in Slots
      PROVE  /\ Expired[i] \in SlotStates
             /\ slot[i].age < SlotTtl => Expired[i] = slot[i]
             /\ Expired[i].busy <=> slot[i].busy /\ slot[i].age < SlotTtl
             /\ Expired[i].age = slot[i].age
  <2>1. slot[i] \in SlotStates
    BY DEF AdmissionTyped
  <2>2. CASE slot[i].age >= SlotTtl
    <3>1. Expired[i] = [slot[i] EXCEPT !.busy = FALSE] /\ ~(slot[i].age < SlotTtl)
      BY <1>1, <2>1, <2>2 DEF Expired, SlotStates
    <3>2. QED
      BY <2>1, <3>1 DEF SlotStates
  <2>3. CASE slot[i].age < SlotTtl
    <3>1. Expired[i] = slot[i]
      BY <1>1, <2>1, <2>3 DEF Expired, SlotStates
    <3>2. QED
      BY <2>1, <2>3, <3>1
  <2>4. slot[i].age >= SlotTtl \/ slot[i].age < SlotTtl
    BY <1>1, <2>1 DEF SlotStates
  <2>5. QED
    BY <2>2, <2>3, <2>4
<1>3. Expired = [i \in Slots |-> Expired[i]]
  BY DEF Expired
<1>4. QED
  BY <1>2, <1>3

(* Any set of busy slots can be counted. *)
LEMMA BusyIsFinite ==
  \A s : IsFiniteSet(Busy(s)) /\ Cardinality(Busy(s)) \in Nat
<1> TAKE s
<1>1. Busy(s) \in SUBSET Slots
  BY DEF Busy
<1>2. QED
  BY <1>1, AdmissionAssumption, FS_Subset, FS_CardinalityType

(* After the reclaim the count is that of the slots, too. *)
LEMMA ReclaimCounts ==
  ASSUME AdmissionTyped, Counted
  PROVE  InFlightNow = Cardinality(Busy(Expired)) /\ InFlightNow \in Nat
<1> DEFINE R == {i \in Slots : slot[i].busy /\ ~Expired[i].busy}
<1>1. Busy(Expired) = Busy(slot) \ R /\ R \subseteq Busy(slot)
  BY ExpiredIs DEF Busy
<1>2. Busy(slot) \cap R = R
  BY <1>1
<1>3. /\ Cardinality(Busy(slot) \ R) = Cardinality(Busy(slot)) - Cardinality(Busy(slot) \cap R)
      /\ IsFiniteSet(R) /\ Cardinality(R) \in Nat
  <2>1. IsFiniteSet(R)
    BY <1>1, BusyIsFinite, FS_Subset
  <2>2. QED
    BY <2>1, BusyIsFinite, FS_Difference, FS_CardinalityType
<1>4. Reclaimed = Cardinality(R) /\ inFlight = Cardinality(Busy(slot))
  BY DEF Reclaimed, Counted
<1>5. Cardinality(Busy(Expired)) = inFlight - Reclaimed
  BY <1>1, <1>2, <1>3, <1>4
<1>6. /\ Cardinality(Busy(Expired)) \in Nat /\ inFlight \in Nat /\ Reclaimed \in Nat
  BY <1>3, <1>4, BusyIsFinite DEF AdmissionTyped
<1>7. QED
  BY <1>5, <1>6 DEF InFlightNow

(* The reclaim takes no slot that somebody young holds. *)
LEMMA YoungKeepsItsSlot ==
  ASSUME AdmissionTyped, EachHoldsItsOwn, NEW c \in Young
  PROVE  /\ conn[c].token.index \in Slots
         /\ Expired[conn[c].token.index] = slot[conn[c].token.index]
         /\ Expired[conn[c].token.index].busy
<1>1. Holds(c) /\ conn[c].age < SlotTtl
  BY DEF EachHoldsItsOwn, Young
<1>2. QED
  BY <1>1, ExpiredIs DEF Holds, Matches

(* How many young connections there can be. *)
LEMMA YoungAreFew ==
  ASSUME EachHoldsItsOwn
  PROVE  /\ IsFiniteSet(Young) /\ Cardinality(Young) \in Nat
         /\ Cardinality(Young) <= Cardinality(Busy(slot))
<1>1. IsFiniteSet(Young) /\ Cardinality(Young) \in Nat
  BY AdmissionAssumption, FS_Subset, FS_CardinalityType DEF Young
<1> DEFINE f == [c \in Young |-> conn[c].token.index]
<1>2. f \in [Young -> Busy(slot)]
  BY DEF EachHoldsItsOwn, Holds, Matches, Busy
<1>3. \A c, d \in Young : f[c] = f[d] => c = d
  BY DEF EachHoldsItsOwn
<1>4. ~(Cardinality(Busy(slot)) < Cardinality(Young))
  <2> SUFFICES ASSUME Cardinality(Busy(slot)) < Cardinality(Young) PROVE FALSE
    OBVIOUS
  <2> HIDE DEF f
  <2>1. IsFiniteSet(Busy(slot))
    BY BusyIsFinite
  <2>2. \E c, d \in Young : c # d /\ f[c] = f[d]
    BY <1>1, <1>2, <2>1, FS_PigeonHole
  <2>3. QED
    BY <1>3, <2>2
<1>5. QED
  BY <1>1, <1>4, BusyIsFinite

(* A connection that is let in. *)
LEMMA AcceptStep ==
  ASSUME AdmissionInv, NEW c \in Connections, NEW free \in Heaps, NEW i \in Slots,
         Comes(c, free), verdict'.is = "accept", ~Expired[i].busy, Take(c, i)
  PROVE  AdmissionInv'
<1> USE DEF AdmissionInv
<1> DEFINE gen == (slot[i].gen + 1) % Generations
<1>1. /\ slot' = [Expired EXCEPT ![i] = [busy |-> TRUE, gen |-> gen, age |-> 0]]
      /\ inFlight' = InFlightNow + 1
      /\ conn' = [conn EXCEPT ![c] =
           [open |-> TRUE, token |-> [index |-> i, gen |-> gen], age |-> 0]]
      /\ ~conn[c].open /\ robbed' = robbed
      /\ verdict' = [is |-> Decision(free), free |-> free]
  BY DEF Take, Comes
<1>2. gen \in 0..(Generations - 1)
  BY AdmissionAssumption DEF AdmissionTyped, SlotStates
<1>3. SlotTtl \in Nat \ {0}
  BY AdmissionAssumption
<1>4. AdmissionTyped'
  <2>1. slot' \in [Slots -> SlotStates]
    BY <1>1, <1>2, <1>3, ExpiredIs DEF SlotStates
  <2>2. inFlight' \in Nat
    BY <1>1, ReclaimCounts
  <2>3. DOMAIN conn' = Connections
    BY <1>1 DEF AdmissionTyped
  <2>4. ASSUME NEW d \in Connections
        PROVE  /\ conn'[d] = [open |-> conn'[d].open, token |-> conn'[d].token, age |-> conn'[d].age]
               /\ conn'[d].age \in 0..SlotTtl
               /\ conn'[d].open => conn'[d].token \in Tokens
    <3>1. CASE d = c
      <4>1. conn'[d] = [open |-> TRUE, token |-> [index |-> i, gen |-> gen], age |-> 0]
        BY <1>1, <3>1 DEF AdmissionTyped
      <4>2. 0 \in 0..SlotTtl /\ [index |-> i, gen |-> gen] \in Tokens
        BY <1>2, <1>3 DEF Tokens
      <4>3. QED
        BY <4>1, <4>2
    <3>2. CASE d # c
      <4>1. conn'[d] = conn[d]
        BY <1>1, <3>2 DEF AdmissionTyped
      <4>2. QED
        BY <4>1 DEF AdmissionTyped
    <3>3. QED
      BY <3>1, <3>2
  <2>5. QED
    BY <2>1, <2>2, <2>3, <2>4 DEF AdmissionTyped
<1>5. Counted'
  <2>1. Busy(slot') = Busy(Expired) \cup {i} /\ i \notin Busy(Expired)
    BY <1>1, ExpiredIs DEF Busy, SlotStates
  <2>2. Cardinality(Busy(slot')) = Cardinality(Busy(Expired)) + 1
    BY <2>1, BusyIsFinite, FS_AddElement
  <2>3. QED
    BY <1>1, <2>2, ReclaimCounts DEF Counted
<1>6. EachHoldsItsOwn'
  <2>1. Young' \subseteq Young \cup {c} /\ \A d \in Young' \ {c} : conn'[d] = conn[d] /\ d \in Young
    BY <1>1 DEF Young, AdmissionTyped
  <2>2. /\ conn'[c].token.index = i /\ conn'[c].token.gen = gen /\ conn'[c].age = 0
        /\ slot'[i].busy /\ slot'[i].gen = gen /\ slot'[i].age = 0
    BY <1>1, ExpiredIs DEF AdmissionTyped, SlotStates
  <2>3. ASSUME NEW d \in Young' \ {c}
        PROVE  /\ conn'[d].token.index # i /\ conn'[d].token.index \in Slots
               /\ slot'[conn'[d].token.index] = slot[conn[d].token.index]
    <3>1. /\ conn[d].token.index \in Slots /\ Expired[conn[d].token.index].busy
          /\ Expired[conn[d].token.index] = slot[conn[d].token.index]
      BY <2>1, YoungKeepsItsSlot
    <3>2. conn'[d].token.index = conn[d].token.index /\ conn[d].token.index # i
      BY <2>1, <3>1
    <3>3. QED
      BY <1>1, <3>1, <3>2, ExpiredIs
  <2>4. \A d \in Young' : Holds(d)'
    <3>1. ASSUME NEW d \in Young' PROVE Holds(d)'
      <4>1. CASE d = c
        BY <2>2, <4>1 DEF Holds, Matches
      <4>2. CASE d # c
        <5>1. Holds(d)
          BY <2>1, <4>2 DEF EachHoldsItsOwn
        <5>2. QED
          BY <2>1, <2>3, <4>2, <5>1 DEF Holds, Matches
      <4>3. QED
        BY <4>1, <4>2
    <3>2. QED
      BY <3>1
  <2>5. ASSUME NEW d \in Young', NEW e \in Young', conn'[d].token.index = conn'[e].token.index
        PROVE  d = e
    BY <2>1, <2>2, <2>3, <2>5 DEF EachHoldsItsOwn
  <2>6. QED
    BY <2>4, <2>5 DEF EachHoldsItsOwn
<1>7. AdmittedCanSpend'
  <2>1. verdict'.is = "accept" /\ verdict'.free = free /\ Decision(free) = "accept"
    BY <1>1
  <2>2. RoomFor(free)
    BY <2>1, AdmissionAssumption, ReclaimCounts DEF Decision
  <2>3. free >= CloseFree + inFlight' * Reserve
    BY <1>1, <2>2 DEF RoomFor
  <2>4. Cardinality(Young') \in Nat /\ Cardinality(Young') <= inFlight'
    <3>1. (EachHoldsItsOwn => /\ IsFiniteSet(Young) /\ Cardinality(Young) \in Nat
                              /\ Cardinality(Young) <= Cardinality(Busy(slot)))'
      BY YoungAreFew, PTL
    <3>2. QED
      BY <1>5, <1>6, <3>1 DEF Counted
  <2>5. Cardinality(Young') * Reserve <= inFlight' * Reserve
    BY <1>4, <2>4, AdmissionAssumption DEF AdmissionTyped
  <2>6. QED
    BY <1>4, <2>1, <2>3, <2>4, <2>5, AdmissionAssumption DEF AdmissionTyped, AdmittedCanSpend
<1>8. QED
  BY <1>4, <1>5, <1>6, <1>7

(* One that is turned away: nothing but the reclaim. *)
LEMMA RejectStep ==
  ASSUME AdmissionInv, NEW c \in Connections, NEW free \in Heaps,
         Comes(c, free), verdict'.is # "accept",
         slot' = Expired, inFlight' = InFlightNow, conn' = conn
  PROVE  AdmissionInv'
<1> USE DEF AdmissionInv
<1>1. robbed' = robbed /\ verdict' = [is |-> Decision(free), free |-> free]
  BY DEF Comes
<1>2. AdmissionTyped'
  BY ExpiredIs, ReclaimCounts DEF AdmissionTyped
<1>3. Counted'
  BY ReclaimCounts DEF Counted
<1>4. Young' = Young
  BY <1>1 DEF Young
<1>5. \A d \in Young : Holds(d)'
  BY YoungKeepsItsSlot DEF EachHoldsItsOwn, Holds, Matches
<1>6. EachHoldsItsOwn'
  BY <1>4, <1>5 DEF EachHoldsItsOwn
<1>7. AdmittedCanSpend'
  <2>1. SUFFICES ASSUME Decision(free) = "concurrency"
                 PROVE  Cardinality({i \in Slots : slot'[i].busy /\ slot'[i].age < SlotTtl}) >= MaxInFlight
    BY <1>1 DEF AdmittedCanSpend
  <2>2. {i \in Slots : slot'[i].busy /\ slot'[i].age < SlotTtl} = Busy(Expired)
    BY ExpiredIs DEF Busy
  <2>3. InFlightNow >= MaxInFlight \/ Busy(Expired) = Slots
    BY <2>1 DEF Decision, Busy
  <2>4. InFlightNow = Cardinality(Busy(Expired)) /\ InFlightNow \in Nat
    BY ReclaimCounts
  <2>5. Cardinality(Slots) \in Nat
    BY AdmissionAssumption, FS_CardinalityType
  <2>6. QED
    BY <2>2, <2>3, <2>4, <2>5, AdmissionAssumption
<1>8. QED
  BY <1>2, <1>3, <1>6, <1>7

(* The end of a connection, heard of in time or too late. *)
LEMMA ReleaseStep ==
  ASSUME AdmissionInv, NEW c \in Connections, release(c)
  PROVE  AdmissionInv'
<1> USE DEF AdmissionInv
<1> DEFINE k == conn[c].token.index
           freed == [busy |-> FALSE, gen |-> slot[k].gen, age |-> SlotTtl]
<1>1. conn' = [conn EXCEPT ![c] = Closed] /\ verdict' = NoVerdict /\ conn[c].open
  BY DEF release
<1>2. /\ DOMAIN conn' = Connections /\ ~conn'[c].open
      /\ \A d \in Connections \ {c} : conn'[d] = conn[d]
  BY <1>1 DEF AdmissionTyped, Closed
<1>3. ASSUME NEW d \in Connections
      PROVE  /\ conn'[d] = [open |-> conn'[d].open, token |-> conn'[d].token, age |-> conn'[d].age]
             /\ conn'[d].age \in 0..SlotTtl
             /\ conn'[d].open => conn'[d].token \in Tokens
  <2>1. CASE d = c
    BY <1>1, <2>1, AdmissionAssumption DEF AdmissionTyped, Closed
  <2>2. CASE d # c
    BY <1>2, <2>2 DEF AdmissionTyped
  <2>3. QED
    BY <2>1, <2>2
<1>4. AdmittedCanSpend'
  BY <1>1 DEF AdmittedCanSpend, NoVerdict
<1>5. CASE ~Matches(conn[c].token)
  <2>1. UNCHANGED <<slot, inFlight>> /\ robbed' = robbed \ {c}
    BY <1>5 DEF release
  <2>2. Young' \subseteq Young \ {c} /\ \A d \in Young' : conn'[d] = conn[d]
    BY <1>2, <2>1 DEF Young
  <2>3. EachHoldsItsOwn'
    BY <2>1, <2>2 DEF EachHoldsItsOwn, Holds, Matches
  <2>4. QED
    BY <1>2, <1>3, <1>4, <2>1, <2>3 DEF AdmissionTyped, Counted
<1>6. CASE Matches(conn[c].token)
  <2>1. /\ slot' = [slot EXCEPT ![k] = freed]
        /\ inFlight' = IF inFlight = 0 THEN 0 ELSE inFlight - 1
        /\ robbed' = (robbed \ {c}) \cup
             {o \in Connections \ {c} : conn[o].open /\ conn[o].token = conn[c].token
                                         /\ conn[o].age < SlotTtl}
    BY <1>6 DEF release
  <2>2. Young' \subseteq Young \ {c} /\ \A d \in Young' : conn'[d] = conn[d] /\ conn[d].token # conn[c].token
    BY <1>2, <2>1 DEF Young
  (* Another that is young has another slot: it would have the same token. *)
  <2>3. ASSUME NEW d \in Young' PROVE conn[d].token.index # k
    <3>1. Holds(d) /\ d \in Young /\ d # c
      BY <2>2 DEF EachHoldsItsOwn
    <3>2. conn[c].token \in Tokens /\ conn[d].token \in Tokens
      BY <1>1, <3>1 DEF AdmissionTyped, Young
    <3>3. conn[c].token.gen = slot[k].gen
      BY <1>6 DEF Matches
    <3>4. conn[d].token.index = k => conn[d].token.gen = slot[k].gen
      BY <3>1 DEF Holds, Matches
    <3>5. QED
      BY <2>2, <3>2, <3>3, <3>4 DEF Tokens
  <2>4. k \in Slots /\ slot[k].busy /\ slot[k] \in SlotStates
    BY <1>1, <1>6 DEF AdmissionTyped, Tokens, Matches
  <2>5. freed \in SlotStates
    BY <2>4, AdmissionAssumption DEF SlotStates
  <2>6. EachHoldsItsOwn'
    <3>1. \A d \in Young' : slot'[conn[d].token.index] = slot[conn[d].token.index] /\ Holds(d)
      BY <2>1, <2>2, <2>3 DEF EachHoldsItsOwn, Holds, AdmissionTyped
    <3>2. \A d \in Young' : Holds(d)'
      BY <2>2, <3>1 DEF Holds, Matches
    <3>3. QED
      BY <2>2, <3>2 DEF EachHoldsItsOwn
  <2>7. Busy(slot') = Busy(slot) \ {k} /\ k \in Busy(slot)
    BY <2>1, <2>4 DEF Busy, AdmissionTyped
  <2>8. Cardinality(Busy(slot')) = Cardinality(Busy(slot)) - 1
    <3> HIDE DEF k
    <3>1. IsFiniteSet(Busy(slot))
      BY BusyIsFinite
    <3>2. Cardinality(Busy(slot) \ {k}) = Cardinality(Busy(slot)) - 1
      BY <2>7, <3>1, FS_RemoveElement
    <3>3. QED
      BY <2>7, <3>2
  <2>9. Counted' /\ inFlight' \in Nat
    <3>1. /\ inFlight = Cardinality(Busy(slot))
          /\ Cardinality(Busy(slot)) \in Nat /\ Cardinality(Busy(slot')) \in Nat
      BY BusyIsFinite DEF Counted
    <3>2. inFlight' = Cardinality(Busy(slot'))
      BY <2>1, <2>8, <3>1
    <3>3. QED
      BY <3>1, <3>2 DEF Counted
  <2>10. slot' \in [Slots -> SlotStates]
    BY <2>1, <2>5 DEF AdmissionTyped
  <2>11. QED
    BY <1>2, <1>3, <1>4, <2>6, <2>9, <2>10 DEF AdmissionTyped
<1>7. QED
  BY <1>5, <1>6

LEMMA EndsUnheardStep ==
  ASSUME AdmissionInv, NEW c \in Connections, EndsUnheard(c)
  PROVE  AdmissionInv'
<1> USE DEF AdmissionInv
<1>1. /\ conn' = [conn EXCEPT ![c] = Closed] /\ verdict' = NoVerdict
      /\ robbed' = robbed \ {c} /\ UNCHANGED <<slot, inFlight>>
  BY DEF EndsUnheard
<1>2. /\ DOMAIN conn' = Connections
      /\ \A d \in Connections \ {c} : conn'[d] = conn[d]
      /\ conn'[c] = Closed
  BY <1>1 DEF AdmissionTyped
<1>3. AdmissionTyped'
  <2>1. ASSUME NEW d \in Connections
        PROVE  /\ conn'[d] = [open |-> conn'[d].open, token |-> conn'[d].token, age |-> conn'[d].age]
               /\ conn'[d].age \in 0..SlotTtl
               /\ conn'[d].open => conn'[d].token \in Tokens
    <3>1. CASE d = c
      BY <1>2, <3>1, AdmissionAssumption DEF Closed
    <3>2. CASE d # c
      BY <1>2, <3>2 DEF AdmissionTyped
    <3>3. QED
      BY <3>1, <3>2
  <2>2. QED
    BY <1>1, <1>2, <2>1 DEF AdmissionTyped
<1>4. Young' \subseteq Young \ {c} /\ \A d \in Young' : conn'[d] = conn[d]
  BY <1>1, <1>2 DEF Young, Closed
<1>5. EachHoldsItsOwn'
  BY <1>1, <1>4 DEF EachHoldsItsOwn, Holds, Matches
<1>6. QED
  BY <1>1, <1>3, <1>5 DEF Counted, AdmittedCanSpend, NoVerdict

LEMMA AdmissionTickStep ==
  ASSUME AdmissionInv, AdmissionTick
  PROVE  AdmissionInv'
<1> USE DEF AdmissionInv
<1>1. /\ slot' = [i \in Slots |-> [slot[i] EXCEPT !.age = Elapse(@)]]
      /\ conn' = [c \in Connections |-> [conn[c] EXCEPT !.age = Elapse(@)]]
      /\ verdict' = NoVerdict /\ UNCHANGED <<inFlight, robbed>>
  BY DEF AdmissionTick
<1>2. \A age \in 0..SlotTtl : Elapse(age) \in 0..SlotTtl /\ (Elapse(age) < SlotTtl => age < SlotTtl)
  BY AdmissionAssumption DEF Elapse
<1>3. \A i \in Slots : /\ slot'[i] \in SlotStates /\ slot'[i].age = Elapse(slot[i].age)
                       /\ slot'[i].busy = slot[i].busy /\ slot'[i].gen = slot[i].gen
  BY <1>1, <1>2 DEF AdmissionTyped, SlotStates
<1>4. ASSUME NEW c \in Connections
      PROVE  /\ conn'[c] = [open |-> conn[c].open, token |-> conn[c].token, age |-> Elapse(conn[c].age)]
             /\ conn'[c].open = conn[c].open /\ conn'[c].token = conn[c].token
             /\ conn'[c].age = Elapse(conn[c].age) /\ Elapse(conn[c].age) \in 0..SlotTtl
             /\ Elapse(conn[c].age) < SlotTtl => conn[c].age < SlotTtl
  <2>1. /\ conn'[c] = [conn[c] EXCEPT !.age = Elapse(conn[c].age)]
        /\ conn[c] = [open |-> conn[c].open, token |-> conn[c].token, age |-> conn[c].age]
    BY <1>1 DEF AdmissionTyped
  <2>2. conn'[c] = [open |-> conn[c].open, token |-> conn[c].token, age |-> Elapse(conn[c].age)]
    BY <2>1
  <2>3. conn[c].age \in 0..SlotTtl
    BY DEF AdmissionTyped
  <2>4. QED
    BY <1>2, <2>2, <2>3
<1>5. AdmissionTyped'
  <2>1. slot' \in [Slots -> SlotStates] /\ DOMAIN conn' = Connections /\ inFlight' \in Nat
    BY <1>1, <1>3 DEF AdmissionTyped
  <2>2. QED
    BY <1>4, <2>1 DEF AdmissionTyped
<1>6. Counted'
  <2>1. Busy(slot') = Busy(slot)
    BY <1>3 DEF Busy
  <2>2. QED
    BY <1>1, <2>1 DEF Counted
<1>7. EachHoldsItsOwn'
  <2>1. Young' \subseteq Young /\ \A c \in Young' : conn'[c].token = conn[c].token
    BY <1>1, <1>4 DEF Young
  <2>2. ASSUME NEW c \in Young' PROVE Holds(c)'
    <3>1. Holds(c) /\ conn'[c].token = conn[c].token /\ c \in Connections
      BY <2>1 DEF EachHoldsItsOwn, Young
    <3>2. PICK i \in Slots :
            /\ conn[c].token.index = i /\ slot[i].busy /\ slot[i].gen = conn[c].token.gen
            /\ slot[i].age = conn[c].age
      BY <3>1 DEF Holds, Matches
    <3>3. /\ conn'[c].token.index = i /\ conn'[c].token.gen = conn[c].token.gen
          /\ conn'[c].age = Elapse(conn[c].age)
      BY <1>4, <3>1, <3>2
    <3>a. slot'[i].busy /\ slot'[i].gen = slot[i].gen /\ slot'[i].age = Elapse(slot[i].age)
      BY <1>3, <3>2
    <3>4. QED
      BY <3>2, <3>3, <3>a DEF Holds, Matches
  <2>3. QED
    BY <2>1, <2>2 DEF EachHoldsItsOwn
<1>8. QED
  BY <1>1, <1>5, <1>6, <1>7 DEF AdmittedCanSpend, NoVerdict

LEMMA AdmissionInitInv == AdmissionInit => AdmissionInv
<1> SUFFICES ASSUME AdmissionInit PROVE AdmissionInv
  OBVIOUS
<1>1. AdmissionTyped
  <2>1. FreeSlot \in SlotStates
    BY AdmissionAssumption DEF FreeSlot, SlotStates
  <2>2. ASSUME NEW c \in Connections
        PROVE  /\ conn[c] = [open |-> conn[c].open, token |-> conn[c].token, age |-> conn[c].age]
               /\ conn[c].age \in 0..SlotTtl /\ ~conn[c].open
    BY AdmissionAssumption DEF AdmissionInit, Closed
  <2>3. QED
    BY <2>1, <2>2 DEF AdmissionInit, AdmissionTyped
<1>2. Busy(slot) = {}
  BY DEF AdmissionInit, Busy, FreeSlot
<1>3. Young = {}
  BY DEF AdmissionInit, Young, Closed
<1>4. QED
  BY <1>1, <1>2, <1>3, FS_EmptySet
     DEF AdmissionInv, AdmissionInit, Counted, EachHoldsItsOwn, AdmittedCanSpend, NoVerdict

(* Late and lost news of an end, reclaimed slots, generations that wrap:   *)
(* whom the web server lets in can spend the reserve, and nobody is turned *)
(* away for connections that the time to live has ended (GatedWebServer.h, *)
(* WebAdmissionPolicy.h), for any number of connections.                   *)
THEOREM AdmissionKeepsTheReserve == AdmissionSpec => []AdmittedCanSpend
<1>1. AdmissionInv /\ [AdmissionNext]_admissionVars => AdmissionInv'
  <2> SUFFICES ASSUME AdmissionInv, [AdmissionNext]_admissionVars PROVE AdmissionInv'
    OBVIOUS
  <2>1. CASE probe
    <3>1. verdict' = NoVerdict /\ UNCHANGED <<slot, inFlight, conn, robbed>>
      BY <2>1 DEF probe
    <3>2. QED
      BY <3>1 DEF AdmissionInv, AdmissionTyped, Counted, EachHoldsItsOwn, Holds, Matches, Young,
                  AdmittedCanSpend, NoVerdict
  <2>2. CASE \E c \in Connections : Accept(c)
    BY <2>2, AcceptStep DEF Accept
  <2>3. CASE \E c \in Connections : Reject(c)
    BY <2>3, RejectStep DEF Reject
  <2>4. CASE \E c \in Connections : release(c)
    BY <2>4, ReleaseStep
  <2>5. CASE \E c \in Connections : EndsUnheard(c)
    BY <2>5, EndsUnheardStep
  <2>6. CASE AdmissionTick
    BY <2>6, AdmissionTickStep
  <2>7. CASE UNCHANGED admissionVars
    BY <2>7 DEF AdmissionInv, AdmissionTyped, Counted, EachHoldsItsOwn, Holds, Matches, Young,
                AdmittedCanSpend, admissionVars
  <2>8. QED
    BY <2>1, <2>2, <2>3, <2>4, <2>5, <2>6, <2>7 DEF AdmissionNext
<1>2. AdmissionInv => AdmittedCanSpend
  BY DEF AdmissionInv
<1>3. QED
  BY <1>1, <1>2, AdmissionInitInv, PTL DEF AdmissionSpec
=============================================================================
