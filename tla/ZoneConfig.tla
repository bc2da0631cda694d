----------------------------- MODULE ZoneConfig -----------------------------
(***************************************************************************)
(* The way of a zone list from the web to the alarm: POST /api/zones and   *)
(* /api/radar/apply-learn (src/WebRoutes.cpp, on the web server's task)    *)
(* leave it in pendingZonesJson, loop() (src/main.cpp) takes it from       *)
(* there, saves it and hands it to SecurityMonitor::setZones().            *)
(*                                                                         *)
(* A list is the set of its zones, its length their number.  One task runs *)
(* all web handlers, so only loop() and a restart come between the two     *)
(* critical sections of apply-learn.                                       *)
(***************************************************************************)
EXTENDS Naturals, FiniteSets

CONSTANTS
  Zones,      \* zones an owner may configure
  Reflector,  \* the zone the static learning suggests
  SaveLimit   \* zones that fit in the 1000 bytes saveZonesToNVS() accepts

ASSUME ZoneConfigAssumption == SaveLimit \in Nat \ {0} /\ Reflector \notin Zones

VARIABLES
  zonesJson,  \* what GET /api/zones shows
  pending,    \* pendingZonesJson and pendingZonesUpdate
  nvs,        \* "zones_json", survives a restart
  active,     \* SecurityMonitor::_zones
  loop,       \* how far loop() is with a list it took
  learn,      \* apply-learn between its critical sections: on, and its copy
  acked,      \* history: the list queued last, its sender has a positive answer
  before,     \* history: the configured zones that list was made from
  refused     \* history: NVS refused the list that was to be saved last

vars == <<zonesJson, pending, nvs, active, loop, learn, acked, before, refused>>

Lists == SUBSET (Zones \cup {Reflector})
Idle == [on |-> FALSE, copy |-> {}]
Nothing == [update |-> FALSE, list |-> {}]

Init ==
  /\ zonesJson = {}
  /\ pending = Nothing
  /\ nvs = {}
  /\ active = {}
  /\ loop = "idle"
  /\ learn = Idle
  /\ acked = {}
  /\ before = {}
  /\ refused = FALSE

-----------------------------------------------------------------------------
Fits(list) == Cardinality(list) < SaveLimit

(* JsonDocument::to<JsonArray>() clears the document it is called on. *)
ToArray(document) == {}

(* With the document cleared, no zone is there to overlap the new one. *)
LearnedList(copy) == ToArray(copy) \cup {Reflector}

QueueFirstWrong(list) == IF pending.update THEN pending
                         ELSE [update |-> TRUE, list |-> list]

Queue(list) == [update |-> TRUE, list |-> list]

(* POST /api/zones: the answer is 200, the mutex timing out or not. *)
PostZones ==
  /\ ~learn.on
  /\ \E list \in SUBSET Zones :
       \/ /\ pending' = Queue(list)
          /\ acked' = list
          /\ before' = {}
       \/ UNCHANGED <<pending, acked, before>>
  /\ UNCHANGED <<zonesJson, nvs, active, loop, learn, refused>>

(* apply-learn, first critical section; a timeout answers 503. *)
LearnRead ==
  /\ ~learn.on
  /\ learn' = [on |-> TRUE, copy |-> zonesJson]
  /\ UNCHANGED <<zonesJson, pending, nvs, active, loop, acked, before, refused>>

(* ... and the second one. *)
LearnWrite ==
  /\ learn.on
  /\ learn' = Idle
  /\ \/ /\ pending' = Queue(LearnedList(learn.copy))
        /\ acked' = LearnedList(learn.copy)
        /\ before' = learn.copy
     \/ UNCHANGED <<pending, acked, before>>
  /\ UNCHANGED <<zonesJson, nvs, active, loop, refused>>

(* loop(); a timeout on the mutex leaves the list for the next iteration. *)
TakePending ==
  /\ loop = "idle"
  /\ pending.update
  /\ zonesJson' = pending.list
  /\ pending' = Nothing
  /\ loop' = "taken"
  /\ UNCHANGED <<nvs, active, learn, acked, before, refused>>

Drop == loop' = "idle" /\ UNCHANGED <<nvs, refused>>

(* putString() writes the list or refuses it; nobody asks which. *)
Write ==
  /\ loop' = "saved"
  /\ \/ nvs' = zonesJson /\ refused' = FALSE
     \/ nvs' = nvs /\ refused' = TRUE

SaveLongWrong ==
  \/ Fits(zonesJson) /\ Write
  \/ ~Fits(zonesJson) /\ nvs' = zonesJson /\ loop' = "idle" /\ UNCHANGED refused

(* saveZonesToNVS(): a long list is dropped. *)
Save ==
  \/ Fits(zonesJson) /\ Write
  \/ ~Fits(zonesJson) /\ Drop

SaveZonesToNVS ==
  /\ loop = "taken"
  /\ Save
  /\ UNCHANGED <<zonesJson, pending, active, learn, acked, before>>

(* updateZonesFromJSON() *)
UpdateZonesFromJSON ==
  /\ loop = "saved"
  /\ loop' = "idle"
  /\ active' = zonesJson
  /\ UNCHANGED <<zonesJson, pending, nvs, learn, acked, before, refused>>

(* A restart at any time, and loadZonesFromNVS(). *)
Restart ==
  /\ zonesJson' = nvs
  /\ active' = nvs
  /\ pending' = Nothing
  /\ loop' = "idle"
  /\ learn' = Idle
  /\ acked' = nvs
  /\ before' = {}
  /\ refused' = FALSE
  /\ UNCHANGED nvs

Next ==
  \/ PostZones
  \/ LearnRead
  \/ LearnWrite
  \/ TakePending
  \/ SaveZonesToNVS
  \/ UpdateZonesFromJSON
  \/ Restart

Spec == Init /\ [][Next]_vars

-----------------------------------------------------------------------------
TypeOK ==
  /\ {zonesJson, nvs, active, acked, before} \subseteq Lists
  /\ pending \in [update : BOOLEAN, list : Lists]
  /\ loop \in {"idle", "taken", "saved"}
  /\ learn \in [on : BOOLEAN, copy : Lists]
  /\ refused \in BOOLEAN
  /\ Fits(nvs)

(* A list is never dropped on the way to loop(), whatever arrives while it *)
(* is taken: once nothing is pending, the API shows the latest list it     *)
(* answered for (pendingZonesUpdate).                                      *)
LatestListIsShown == ~pending.update => zonesJson = acked

(* The zones that guard the house are those a restart brings back, but for *)
(* the moment between saving a list and using it, and for a list that NVS  *)
(* refused: saveZonesToNVS() does not look at what putString() returns and *)
(* uses the list all the same, until the next one is saved or a restart.   *)
RestartKeepsZones == loop # "saved" /\ ~refused => active = nvs

(* Once loop() is done, the list last accepted guards the house, unless it *)
(* is one of 1000 bytes and more: saveZonesToNVS() drops those, although   *)
(* POST /api/zones accepts up to 4 KB.                                     *)
AcceptedListGuards ==
  ~pending.update /\ loop = "idle" /\ Fits(acked) => active = acked

(* WebRoutes.cpp, apply-learn: it must not overwrite the whole list with   *)
(* just the one new zone.  It appends: every zone it has read stays.       *)
LearnKeepsZones == before \subseteq acked
=============================================================================
