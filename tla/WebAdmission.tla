---------------------------- MODULE WebAdmission ----------------------------
(***************************************************************************)
(* Whom the web server lets in: the low-heap gate (HeapGatePolicy) and the *)
(* admission of concurrent connections (WebAdmissionPolicy), as the accept *)
(* callback of GatedWebServer.h runs them, all on the async_tcp task;      *)
(* loop() probes the gate once a second.  A connection spends its memory   *)
(* after it was let in, and the news of its end may be lost, or come when  *)
(* its slot has long been reclaimed and given to another.                  *)
(*                                                                         *)
(* The free heap is whatever the device's other parts left of it.  Time is *)
(* counted in ticks, a time stamp is its age up to the time to live; that  *)
(* of a free slot is never read.  Gate and admission are enabled, as they  *)
(* are unless the owner switches the gate off.                             *)
(***************************************************************************)
EXTENDS Naturals, FiniteSets

CONSTANTS
  Connections,   \* connections to the web server
  Slots,         \* kSlots: 0 .. 15
  MaxInFlight,   \* maxInFlight: 4
  Generations,   \* a slot's generation counts modulo this: 256
  SlotTtl,       \* slotTtlMs
  Reserve,       \* reserveBytes
  CloseFree,     \* closeFreeBytes, and the floor of the admission
  OpenFree,      \* openFreeBytes
  Heaps          \* free heap there may be

(* As many slots as the cap at least: _clampCap(). *)
ASSUME AdmissionAssumption ==
  /\ IsFiniteSet(Connections)
  /\ IsFiniteSet(Slots) /\ Slots \subseteq Nat
  /\ MaxInFlight \in Nat /\ MaxInFlight <= Cardinality(Slots)
  /\ Generations \in Nat \ {0} /\ SlotTtl \in Nat \ {0}
  /\ {Reserve, CloseFree, OpenFree} \subseteq Nat /\ Heaps \subseteq Nat

VARIABLES
  gate,      \* HeapGatePolicy: _closed
  slot,      \* WebAdmissionPolicy: _busy, _gen and the age of _since
  inFlight,  \* _inFlight
  conn,      \* of each connection: open or not, its token, ticks since accept
  verdict,   \* history: the decision just made, and the free heap it rests on
  robbed     \* history: those whose slot somebody else's token gave back

admissionVars == <<gate, slot, inFlight, conn, verdict, robbed>>

NoToken == [index |-> 0, gen |-> 0]
Closed == [open |-> FALSE, token |-> NoToken, age |-> SlotTtl]
NoVerdict == [is |-> "none", free |-> 0]
FreeSlot == [busy |-> FALSE, gen |-> 0, age |-> SlotTtl]

AdmissionInit ==
  /\ gate = FALSE
  /\ slot = [i \in Slots |-> FreeSlot]
  /\ inFlight = 0
  /\ conn = [c \in Connections |-> Closed]
  /\ verdict = NoVerdict
  /\ robbed = {}

-----------------------------------------------------------------------------
(* The gate closes below one level and opens above the other.  The largest *)
(* block, its second measure, makes it close and keep closed as the first. *)
Transition(free) ==
  \/ gate' = IF gate THEN free <= OpenFree ELSE free < CloseFree
  \/ gate' = TRUE

probe == \E free \in Heaps :
  /\ Transition(free)
  /\ verdict' = NoVerdict
  /\ UNCHANGED <<slot, inFlight, conn, robbed>>

(* The slots whose news of the end is overdue are reclaimed first. *)
Expired ==
  [i \in Slots |-> IF slot[i].age >= SlotTtl THEN [slot[i] EXCEPT !.busy = FALSE]
                                             ELSE slot[i]]
Reclaimed == Cardinality({i \in Slots : slot[i].busy /\ ~Expired[i].busy})
InFlightNow == IF Reclaimed > inFlight THEN 0 ELSE inFlight - Reclaimed

Take(c, i) ==
  LET gen == (slot[i].gen + 1) % Generations
  IN /\ slot' = [Expired EXCEPT ![i] = [busy |-> TRUE, gen |-> gen, age |-> 0]]
     /\ inFlight' = InFlightNow + 1
     /\ conn' = [conn EXCEPT ![c] =
          [open |-> TRUE, token |-> [index |-> i, gen |-> gen], age |-> 0]]

RoomFor(free) == free >= CloseFree + (InFlightNow + 1) * Reserve

(* shouldAccept() and admit(), in the order of their tests. *)
Decision(free) ==
  CASE gate'                                -> "gate"
    [] ~gate' /\ InFlightNow >= MaxInFlight -> "concurrency"
    [] ~gate' /\ InFlightNow < MaxInFlight /\ ~RoomFor(free) -> "reserve"
    [] OTHER -> IF \A i \in Slots : Expired[i].busy THEN "concurrency" ELSE "accept"

(* A connection comes; a closed one's name stands for it. *)
Comes(c, free) ==
  /\ ~conn[c].open
  /\ Transition(free)
  /\ verdict' = [is |-> Decision(free), free |-> free]
  /\ UNCHANGED robbed

Accept(c) == \E free \in Heaps :
  /\ Comes(c, free) /\ verdict'.is = "accept"
  /\ \E i \in Slots :
       /\ ~Expired[i].busy /\ \A j \in Slots : j < i => Expired[j].busy
       /\ Take(c, i)

Reject(c) == \E free \in Heaps :
  /\ Comes(c, free) /\ verdict'.is # "accept"
  /\ slot' = Expired /\ inFlight' = InFlightNow
  /\ UNCHANGED conn

(* Wrong: a token is taken for its slot's, whatever its generation. *)
MatchesIndexOnlyWrong(token) == slot[token.index].busy

Matches(token) == slot[token.index].busy /\ slot[token.index].gen = token.gen

release(c) ==
  /\ conn[c].open
  /\ conn' = [conn EXCEPT ![c] = Closed]
  /\ LET i == conn[c].token.index
     IN IF Matches(conn[c].token)
          THEN /\ slot' = [slot EXCEPT ![i] = [busy |-> FALSE, gen |-> @.gen, age |-> SlotTtl]]
               /\ inFlight' = IF inFlight = 0 THEN 0 ELSE inFlight - 1
               /\ robbed' = (robbed \ {c}) \cup
                    {o \in Connections \ {c} : conn[o].open /\ conn[o].token = conn[c].token
                                                /\ conn[o].age < SlotTtl}
          ELSE UNCHANGED <<slot, inFlight>> /\ robbed' = robbed \ {c}
  /\ verdict' = NoVerdict
  /\ UNCHANGED gate

(* An event stream, or an aborted request: nobody tells the policy.        *)
EndsUnheard(c) ==
  /\ conn[c].open
  /\ conn' = [conn EXCEPT ![c] = Closed]
  /\ robbed' = robbed \ {c}
  /\ verdict' = NoVerdict
  /\ UNCHANGED <<gate, slot, inFlight>>

Elapse(age) == IF age = SlotTtl THEN age ELSE age + 1

AdmissionTick ==
  /\ slot' = [i \in Slots |-> [slot[i] EXCEPT !.age = Elapse(@)]]
  /\ conn' = [c \in Connections |-> [conn[c] EXCEPT !.age = Elapse(@)]]
  /\ verdict' = NoVerdict
  /\ UNCHANGED <<gate, inFlight, robbed>>

AdmissionNext ==
  \/ probe
  \/ \E c \in Connections : Accept(c) \/ Reject(c) \/ release(c) \/ EndsUnheard(c)
  \/ AdmissionTick

AdmissionSpec == AdmissionInit /\ [][AdmissionNext]_admissionVars

-----------------------------------------------------------------------------
Tokens == [index : Slots, gen : 0 .. Generations - 1]

AdmissionTypeOK ==
  /\ gate \in BOOLEAN
  /\ slot \in [Slots -> [busy : BOOLEAN, gen : 0 .. Generations - 1, age : 0 .. SlotTtl]]
  /\ inFlight \in 0 .. MaxInFlight
  /\ conn \in [Connections -> [open : BOOLEAN, token : Tokens, age : 0 .. SlotTtl]]
  /\ robbed \subseteq Connections

(* Those that still have their slot by the clock, and by their token. *)
Young == {c \in Connections \ robbed : conn[c].open /\ conn[c].age < SlotTtl}

(* However late or lost the news of an end is: nobody is let in unless     *)
(* every younger connection that is still open, and the new one, can spend *)
(* its reserve above the floor; and nobody is turned away for connections  *)
(* that were let in longer ago than the time to live.  The exception is a  *)
(* connection whose slot another one gave back that had the same token a   *)
(* whole round of generations before (WebAdmissionPolicy.h).               *)
AdmittedCanSpend ==
  /\ verdict.is = "accept" =>
       verdict.free >= CloseFree + Cardinality(Young) * Reserve
  /\ verdict.is = "concurrency" =>
       Cardinality({i \in Slots : slot[i].busy /\ slot[i].age < SlotTtl}) >= MaxInFlight
=============================================================================
