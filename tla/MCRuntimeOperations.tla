------------------------ MODULE MCRuntimeOperations ------------------------
(* What the web server's clients may do at a time: RuntimeOperations with  *)
(* clients that upload an image, and WebAdmission with connections that    *)
(* need memory; uploads are alike.  The two share no variable, and each is *)
(* checked by itself: `limited' says which one this behaviour runs.        *)
EXTENDS RuntimeOperations, WebAdmission, TLC

VARIABLE limited

OnOperations == limited = "operations" /\ UNCHANGED <<limited, admissionVars>>
OnMemory == limited = "memory" /\ UNCHANGED <<limited, vars>>

mcVars == <<limited, vars, admissionVars>>

MCInit == limited \in {"operations", "memory"} /\ Init /\ AdmissionInit

(* The actions one by one, so that TLC tells for each whether it happens.  *)
MCNext ==
  \/ OnOperations /\ \E u \in Uploads : UploadClaim(u)
  \/ OnOperations /\ \E u \in Uploads : UploadChunk(u)
  \/ OnOperations /\ \E u \in Uploads : UploadEnds(u)
  \/ OnOperations /\ \E s \in Samplings : ClaimSampling(s)
  \/ OnOperations /\ \E s \in Samplings : SamplingDone(s)
  \/ OnOperations /\ PostPull
  \/ OnOperations /\ PullStep
  \/ OnOperations /\ PostPrepare
  \/ OnOperations /\ OpenWindow
  \/ OnOperations /\ WindowOver
  \/ OnOperations /\ EspotaStart
  \/ OnOperations /\ EspotaTransfer
  \/ OnOperations /\ AutoCalibrate
  \/ OnOperations /\ StopSiteLearning
  \/ OnOperations /\ ClaimScan
  \/ OnOperations /\ ScanDone
  \/ OnOperations /\ RestoreCsi
  \/ OnOperations /\ WebStep
  \/ OnOperations /\ LoopStep
  \/ OnOperations /\ Watchdog
  \/ OnOperations /\ Silence
  \/ OnOperations /\ Restart
  \/ OnMemory /\ probe
  \/ OnMemory /\ \E c \in Connections : Accept(c)
  \/ OnMemory /\ \E c \in Connections : Reject(c)
  \/ OnMemory /\ \E c \in Connections : release(c)
  \/ OnMemory /\ \E c \in Connections : EndsUnheard(c)
  \/ OnMemory /\ AdmissionTick

MCSpec == MCInit /\ [][MCNext]_mcVars

Symmetry == Permutations(Uploads)
=============================================================================
