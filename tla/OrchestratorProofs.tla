------------------------ MODULE OrchestratorProofs ------------------------
(***************************************************************************)
(* The safety of the ownership scheme under every interleaving, failover,  *)
(* late UPDATE, edit and restart, for any number of goroutines, DCs, zones *)
(* and requests.                                                           *)
(*                                                                         *)
(* The argument does not look at program counters, locks or the cache: an  *)
(* UPDATE that was built is guarded (BuildGuarded) and stays so while it   *)
(* is being sent, retried or delayed, and a DC that processes a guarded    *)
(* UPDATE leaves other owners' records alone.                              *)
(***************************************************************************)
EXTENDS Orchestrator, OwnershipProofs

\* A DC that accepts a guarded UPDATE leaves a record that exists, and is not
\* marked as the sender's, as it is, and its marker too.
LEMMA UnlabelledKept ==
    ASSUME NEW cs, Guarded(cs), NEW R, PrereqsHold(R, cs.prereqs),
           NEW n \in Names, NEW ty \in DataTypes, HasData(R, n, ty),
           cs.owner \notin OwnersAt(R, ownershipNameFor(ty, n))
    PROVE  /\ RRset(ServerApply(R, cs.changes), n, ty) = RRset(R, n, ty)
           /\ RRset(ServerApply(R, cs.changes), ownershipNameFor(ty, n), "TXT") =
                RRset(R, ownershipNameFor(ty, n), "TXT")
<1> DEFINE m == ownershipNameFor(ty, n)
<1>1. ~KeyGuarded(cs, n, ty)
  <2>1. NXRRSET(n, ty) \notin cs.prereqs
    <3> SUFFICES ASSUME NXRRSET(n, ty) \in cs.prereqs PROVE FALSE
      OBVIOUS
    <3>1. PrereqHolds(R, cs.prereqs, NXRRSET(n, ty))
      BY DEF PrereqsHold
    <3>2. RRset(R, n, ty) = {}
      BY <3>1 DEF PrereqHolds, NXRRSET
    <3> QED BY <3>2 DEF HasData
  <2>2. YXRRSET(m, cs.owner) \notin cs.prereqs
    <3> DEFINE p == YXRRSET(m, cs.owner)
    <3> SUFFICES ASSUME p \in cs.prereqs PROVE FALSE
      OBVIOUS
    <3>1. PrereqHolds(R, cs.prereqs, p)
      BY DEF PrereqsHold
    <3>2. /\ p.kind = "YXRRSET" /\ p.name = m /\ p.type = "TXT"
          /\ p.value = encodeOwnership(cs.owner)
      BY DEF YXRRSET
    <3> HIDE DEF p, m
    <3>3. PICK r \in RRset(R, m, "TXT") : r.value = encodeOwnership(cs.owner)
      BY <3>1, <3>2 DEF PrereqHolds
    <3>4. IsOwnership(r.value) /\ decodeOwnership(r.value) = cs.owner
      BY <3>3 DEF encodeOwnership, IsOwnership, decodeOwnership
    <3>5. cs.owner \in OwnersAt(R, m)
      BY <3>4 DEF OwnersAt
    <3> QED BY <3>5 DEF m
  <2> QED BY <2>1, <2>2 DEF KeyGuarded
<1>2. ASSUME NEW i \in DOMAIN cs.changes, NEW r \in cs.changes[i].recs
      PROVE  KeyOf(r) # [name |-> n, type |-> ty]
  BY <1>1 DEF Guarded, RecordGuarded
<1>3. \A i \in DOMAIN cs.changes : RRset(cs.changes[i].recs, n, ty) = {}
  <2>1. ty # "TXT"
    BY DEF DataTypes
  <2> QED BY <1>2, <2>1 DEF RRset, KeyOf
<1>4. \A i \in DOMAIN cs.changes : RRset(cs.changes[i].recs, m, "TXT") = {}
  <2>1. decodeOwnershipName(m) = [name |-> n, type |-> ty]
    BY MarkerReadsBack, ConfigAssumption
  <2> HIDE DEF m
  <2> QED BY <1>2, <2>1 DEF RRset, KeyOf
<1> QED BY <1>3, <1>4, ServerFrame

\* So it leaves alone whatever another owner manages.
LEMMA OthersProtected ==
    ASSUME NEW cs, Guarded(cs), NEW R, PrereqsHold(R, cs.prereqs),
           NEW n \in Names, NEW ty \in DataTypes, NEW o, ManagedBy(R, n, ty, o), o # cs.owner
    PROVE  KeyRecords(ServerApply(R, cs.changes), n, ty) = KeyRecords(R, n, ty)
<1> DEFINE m == ownershipNameFor(ty, n)
<1>1. HasData(R, n, ty) /\ \A r \in RRset(R, m, "TXT") : r.value = encodeOwnership(o)
  BY DEF ManagedBy
<1>2. cs.owner \notin OwnersAt(R, m)
  <2>1. \A r \in RRset(R, m, "TXT") : decodeOwnership(r.value) = o
    BY <1>1 DEF encodeOwnership, decodeOwnership
  <2> HIDE DEF m
  <2> QED BY <2>1 DEF OwnersAt
<1> QED BY <1>1, <1>2, UnlabelledKept DEF KeyRecords

\* A DC that accepts a guarded UPDATE does not give a marker a second label.
LEMMA LabelsStaySingle ==
    ASSUME NEW cs, Guarded(cs), NEW R, PrereqsHold(R, cs.prereqs), OneLabelPerMarker(R)
    PROVE  OneLabelPerMarker(ServerApply(R, cs.changes))
<1> DEFINE S == ServerApply(R, cs.changes)
<1>1. ASSUME NEW r \in S, r.type = "TXT"
      PROVE  \/ r \in R
             \/ RRset(R, r.name, "TXT") = {} /\ r.value = encodeOwnership(cs.owner)
  <2> SUFFICES ASSUME r \notin R
               PROVE  RRset(R, r.name, "TXT") = {} /\ r.value = encodeOwnership(cs.owner)
    OBVIOUS
  <2>1. PICK i \in DOMAIN cs.changes : cs.changes[i].op = "add" /\ r \in cs.changes[i].recs
    BY AddedOrKept
  <2>2. r.value = encodeOwnership(cs.owner) /\ NXRRSET(r.name, "TXT") \in cs.prereqs
    BY <1>1, <2>1 DEF Guarded, MarkerGuarded
  <2>3. PrereqHolds(R, cs.prereqs, NXRRSET(r.name, "TXT"))
    BY <2>2 DEF PrereqsHold
  <2> QED BY <2>2, <2>3 DEF PrereqHolds, NXRRSET
<1>2. ASSUME NEW r \in S, NEW s \in S, r.type = "TXT", s.type = "TXT", r.name = s.name,
             IsOwnership(r.value), IsOwnership(s.value)
      PROVE  r.value = s.value
  <2>1. CASE r \in R /\ s \in R
    BY <1>2, <2>1 DEF OneLabelPerMarker
  <2>2. CASE r \notin R \/ s \notin R
    <3>1. r \notin R /\ s \notin R
      BY <1>1, <1>2, <2>2 DEF RRset
    <3> QED BY <1>1, <1>2, <3>1
  <2> QED BY <2>1, <2>2
<1> HIDE DEF S
<1> QED BY <1>2 DEF OneLabelPerMarker, S

-----------------------------------------------------------------------------
(* The sidecar, whoever calls it *)

\* What an operator may send: the members of Requests, and whatever else keeps
\* to the same rules.
Payload(q) == q.owner \in Owners /\ WellFormed(q)

\* What a goroutine does, and what happens to the system, for any payload.
Begin(t) == BeginList(t) \/ \E q : Payload(q) /\ BeginApply(t, q)
Acts(t) == Step(t) \/ Begin(t) \/ ClientGone(t)
OpenNext ==
    \/ \E t \in Threads : Acts(t)
    \/ LateArrival \/ AdminEdit \/ Restart \/ TimePasses \/ UNCHANGED vars

\* The requests of Requests are such payloads.
LEMMA NextIsOpen == [Next]_vars => OpenNext
<1>1. ASSUME NEW t \in Threads, StartList(t) PROVE Begin(t)
  BY <1>1 DEF StartList, Begin
<1>2. ASSUME NEW t \in Threads, StartApply(t) PROVE Begin(t)
  BY <1>2, RequestAssumption DEF StartApply, Begin, Payload
<1> QED BY <1>1, <1>2 DEF Next, OpenNext, Acts, Quiescent

-----------------------------------------------------------------------------
(* The inductive invariant *)

\* Whatever is being sent or may still arrive is guarded, and it was built
\* from a well-formed request.
InFlightGuarded ==
    /\ req = [t \in Threads |-> req[t]] /\ \A t \in Threads : WellFormed(req[t])
    /\ sending = [t \in Threads |-> sending[t]]
    /\ \A t \in Threads : Guarded(sending[t])
    /\ \A cs \in late : Guarded(cs)

\* The zones hold records with proper names and at most one label per marker.
ZonesWellFormed ==
    /\ rrs = [z \in Zones |-> rrs[z]]
    /\ \A z \in Zones : \A r \in rrs[z] : r.name \in Names
    /\ SingleOwner

OwnershipInv == InFlightGuarded /\ ZonesWellFormed

\* Nothing is guarded trivially.
LEMMA NothingGuarded == Guarded(NoChangeSet)
BY DEF Guarded, NoChangeSet

\* The payload of an idle goroutine is.
LEMMA NoRequestWellFormed == WellFormed(NoRequest)
BY DEF NoRequest, WellFormed, UpdatePairs, PairCount

\* A step of a DC: some guarded change set whose prerequisites hold is
\* processed in its zone.
LEMMA ProcessPreserves ==
    ASSUME ZonesWellFormed, NEW cs, Guarded(cs), PrereqsHold(rrs[cs.zone], cs.prereqs), Process(cs)
    PROVE  /\ ZonesWellFormed'
           /\ \A z \in Zones, n \in Names, ty \in DataTypes, o \in Owners :
                 ManagedBy(rrs[z], n, ty, o) /\ o # cs.owner =>
                 KeyRecords(rrs'[z], n, ty) = KeyRecords(rrs[z], n, ty)
<1>1. /\ rrs' = [z \in Zones |-> rrs'[z]]
      /\ \A z \in Zones : rrs'[z] = IF z = cs.zone THEN ServerApply(rrs[z], cs.changes) ELSE rrs[z]
  BY DEF Process, ZonesWellFormed
<1>2. ASSUME NEW z \in Zones, NEW r \in rrs'[z]
      PROVE  r.name \in Names
  <2>1. CASE r \in rrs[z]
    BY <2>1 DEF ZonesWellFormed
  <2>2. CASE r \notin rrs[z]
    <3>1. r \in ServerApply(rrs[z], cs.changes)
      BY <1>1, <1>2, <2>2
    <3>2. \E i \in DOMAIN cs.changes : r \in cs.changes[i].recs
      BY <2>2, <3>1, AddedOrKept
    <3> QED BY <3>2 DEF Guarded, RecordGuarded
  <2> QED BY <2>1, <2>2
<1>3. ASSUME NEW z \in Zones
      PROVE  OneLabelPerMarker(rrs'[z])
  <2>1. OneLabelPerMarker(rrs[z])
    BY DEF ZonesWellFormed, SingleOwner
  <2>2. CASE z = cs.zone
    BY <1>1, <2>1, <2>2, LabelsStaySingle
  <2>3. CASE z # cs.zone
    BY <1>1, <2>1, <2>3
  <2> QED BY <2>2, <2>3
<1>4. ZonesWellFormed'
  BY <1>1, <1>2, <1>3 DEF ZonesWellFormed, SingleOwner
<1>5. ASSUME NEW z \in Zones, NEW n \in Names, NEW ty \in DataTypes, NEW o \in Owners,
             ManagedBy(rrs[z], n, ty, o), o # cs.owner
      PROVE  KeyRecords(rrs'[z], n, ty) = KeyRecords(rrs[z], n, ty)
  <2>1. CASE z = cs.zone
    BY <1>1, <1>5, <2>1, OthersProtected
  <2>2. CASE z # cs.zone
    BY <1>1, <2>2
  <2> QED BY <2>1, <2>2
<1> QED BY <1>4, <1>5

\* Steps that change neither a payload, an UPDATE nor a zone.
LEMMA QuietStep ==
    ASSUME OwnershipInv, UNCHANGED <<work, server>>
    PROVE  OwnershipInv' /\ OnlyOwnerWrites
<1>1. InFlightGuarded'
  BY DEF OwnershipInv, InFlightGuarded, work, server
<1>2. ZonesWellFormed'
  BY DEF OwnershipInv, ZonesWellFormed, SingleOwner, server
<1>3. OnlyOwnerWrites
  BY DEF OnlyOwnerWrites, server
<1> QED BY <1>1, <1>2, <1>3 DEF OwnershipInv

\* Steps that change only what the sidecar works on.
LEMMA WorkStep ==
    ASSUME OwnershipInv, UNCHANGED server, NEW t \in Threads,
           \/ UNCHANGED sending /\ \E q : WellFormed(q) /\ req' = [req EXCEPT ![t] = q]
           \/ UNCHANGED req /\ \E cs : Guarded(cs) /\ sending' = [sending EXCEPT ![t] = cs]
    PROVE  OwnershipInv' /\ OnlyOwnerWrites
<1>1. req' = [s \in Threads |-> req'[s]] /\ \A s \in Threads : WellFormed(req'[s])
  BY DEF OwnershipInv, InFlightGuarded
<1>2. sending' = [s \in Threads |-> sending'[s]] /\ \A s \in Threads : Guarded(sending'[s])
  BY DEF OwnershipInv, InFlightGuarded
<1>3. InFlightGuarded'
  BY <1>1, <1>2 DEF OwnershipInv, InFlightGuarded, server
<1>4. ZonesWellFormed'
  BY DEF OwnershipInv, ZonesWellFormed, SingleOwner, server
<1>5. OnlyOwnerWrites
  BY DEF OnlyOwnerWrites, server
<1> QED BY <1>3, <1>4, <1>5 DEF OwnershipInv

\* A DC processes a guarded UPDATE, now or late.
LEMMA ServerStep ==
    ASSUME OwnershipInv, UNCHANGED work, NEW cs, Guarded(cs),
           late' \subseteq late \cup {cs},
           \/ UNCHANGED <<rrs, actor>>
           \/ PrereqsHold(rrs[cs.zone], cs.prereqs) /\ Process(cs)
    PROVE  OwnershipInv' /\ OnlyOwnerWrites
<1>1. InFlightGuarded'
  BY DEF OwnershipInv, InFlightGuarded, work
<1>2. CASE UNCHANGED <<rrs, actor>>
  <2>1. ZonesWellFormed'
    BY <1>2 DEF OwnershipInv, ZonesWellFormed, SingleOwner
  <2>2. OnlyOwnerWrites
    BY <1>2 DEF OnlyOwnerWrites
  <2> QED BY <1>1, <2>1, <2>2 DEF OwnershipInv
<1>3. CASE PrereqsHold(rrs[cs.zone], cs.prereqs) /\ Process(cs)
  <2>1. /\ ZonesWellFormed'
        /\ \A z \in Zones, n \in Names, ty \in DataTypes, o \in Owners :
              ManagedBy(rrs[z], n, ty, o) /\ o # cs.owner =>
              KeyRecords(rrs'[z], n, ty) = KeyRecords(rrs[z], n, ty)
    BY <1>3, ProcessPreserves DEF OwnershipInv
  <2>2. actor' = cs.owner
    BY <1>3 DEF Process
  <2>3. \A z \in Zones : \A r \in rrs[z] : r.name \in Names
    BY DEF OwnershipInv, ZonesWellFormed
  <2>4. OnlyOwnerWrites
    BY <2>1, <2>2, <2>3 DEF OnlyOwnerWrites
  <2> QED BY <1>1, <2>1, <2>4 DEF OwnershipInv
<1> QED BY <1>2, <1>3

\* The steps of a goroutine.
LEMMA GoroutineStep ==
    ASSUME OwnershipInv, NEW t \in Threads, Acts(t)
    PROVE  OwnershipInv' /\ OnlyOwnerWrites
<1>1. CASE ProbeHost(t) \/ BeginList(t) \/ ClientGone(t)
  BY <1>1, QuietStep DEF ProbeHost, BeginList, ClientGone
<1>2. CASE ListStep(t)
  <2>1. UNCHANGED <<work, server>>
    BY <1>2 DEF ListStep, ListLock, ListNoDC, ListZone, AxfrCall, AxfrZoneFailed, ListPin,
                ListStore, ListCharge, ListUnlock
  <2> QED BY <2>1, QuietStep
<1>3. ASSUME NEW q, Payload(q), BeginApply(t, q) PROVE OwnershipInv' /\ OnlyOwnerWrites
  BY <1>3, WorkStep DEF BeginApply, Payload
<1>4. CASE Return(t)
  BY <1>4, NoRequestWellFormed, WorkStep DEF Return
<1>5. CASE ApplyStep(t)
  <2>1. CASE ApplyBuild(t)
    <3>1. PICK z \in th[t].todo :
            \/ sending' = [sending EXCEPT ![t] = buildZoneChangeSet(z, cache[z], req[t])]
            \/ UNCHANGED sending
      BY <2>1 DEF ApplyBuild
    <3>2. WellFormed(req[t])
      BY DEF OwnershipInv, InFlightGuarded
    <3>3. Guarded(buildZoneChangeSet(z, cache[z], req[t]))
      BY <3>2, BuildGuarded
    <3>4. UNCHANGED <<req, server>>
      BY <2>1 DEF ApplyBuild
    <3>5. CASE UNCHANGED sending
      BY <3>4, <3>5, QuietStep DEF work
    <3> QED BY <3>1, <3>3, <3>4, <3>5, WorkStep
  <2>2. CASE ApplyDone(t) \/ ZoneLock(t) \/ ApplyOrder(t) \/ UpdateOK(t) \/ UpdateFailover(t)
    <3>1. UNCHANGED <<work, server>>
      BY <2>2 DEF ApplyDone, ZoneLock, ApplyOrder, UpdateOK, UpdateFailover
    <3> QED BY <3>1, QuietStep
  <2>3. CASE ApplyNoDC(t) \/ ApplyGiveUp(t) \/ UpdateCredit(t) \/ UpdateFailed(t)
    <3>1. UNCHANGED <<req, server>> /\ sending' = [sending EXCEPT ![t] = NoChangeSet]
      BY <2>3 DEF ApplyNoDC, ApplyGiveUp, UpdateCredit, UpdateFailed, ZoneReturn
    <3> QED BY <3>1, NothingGuarded, WorkStep
  <2>4. CASE UpdateCall(t)
    <3>1. /\ UNCHANGED work
          /\ late' \subseteq late \cup {sending[t]}
          /\ \/ UNCHANGED <<rrs, actor>>
             \/ PrereqsHold(rrs[sending[t].zone], sending[t].prereqs) /\ Process(sending[t])
      BY <2>4 DEF UpdateCall, Zone
    <3>2. Guarded(sending[t])
      BY DEF OwnershipInv, InFlightGuarded
    <3> QED BY <3>1, <3>2, ServerStep
  <2> QED BY <1>5, <2>1, <2>2, <2>3, <2>4 DEF ApplyStep
<1> QED BY <1>1, <1>2, <1>3, <1>4, <1>5 DEF Acts, Begin, Step

\* The administrator's edit.
LEMMA AdminStep ==
    ASSUME OwnershipInv, AdminEdit
    PROVE  OwnershipInv' /\ OnlyOwnerWrites
<1>1. InFlightGuarded'
  BY DEF OwnershipInv, InFlightGuarded, AdminEdit, work
<1>2. PICK z \in Zones :
        \/ \E r \in AdminRecords \ rrs[z] : rrs' = [rrs EXCEPT ![z] = @ \cup {r}]
        \/ \E r \in rrs[z] : rrs' = [rrs EXCEPT ![z] = @ \ {r}]
  BY DEF AdminEdit
<1>3. /\ rrs' = [y \in Zones |-> rrs'[y]]
      /\ \A y \in Zones : \A r \in rrs'[y] : r \in rrs[y] \/ r \in AdminRecords
  BY <1>2 DEF OwnershipInv, ZonesWellFormed
<1>4. ZonesWellFormed'
  <2>1. \A y \in Zones : \A r \in rrs'[y] : r.name \in Names
    BY <1>3, ZoneContentAssumption DEF OwnershipInv, ZonesWellFormed
  <2>2. ASSUME NEW y \in Zones PROVE OneLabelPerMarker(rrs'[y])
    <3>1. OneLabelPerMarker(rrs[y])
      BY DEF OwnershipInv, ZonesWellFormed, SingleOwner
    <3>2. \A r \in rrs'[y] : r.type = "TXT" => r \in rrs[y]
      BY <1>3, ZoneContentAssumption
    <3> QED BY <3>1, <3>2 DEF OneLabelPerMarker
  <2> QED BY <1>3, <2>1, <2>2 DEF ZonesWellFormed, SingleOwner
<1>5. OnlyOwnerWrites
  BY DEF AdminEdit, OnlyOwnerWrites
<1> QED BY <1>1, <1>4, <1>5 DEF OwnershipInv

\* Every step keeps the invariant, and no step changes another owner's record.
LEMMA NextStep ==
    ASSUME OwnershipInv, OpenNext
    PROVE  OwnershipInv' /\ OnlyOwnerWrites
<1>1. CASE \E t \in Threads : Acts(t)
  BY <1>1, GoroutineStep
<1>2. CASE LateArrival
  <2>1. PICK cs \in late :
          /\ late' = late \ {cs} /\ UNCHANGED work
          /\ \/ UNCHANGED <<rrs, actor>>
             \/ PrereqsHold(rrs[cs.zone], cs.prereqs) /\ Process(cs)
    BY <1>2 DEF LateArrival
  <2>2. Guarded(cs) /\ late' \subseteq late \cup {cs}
    BY <2>1 DEF OwnershipInv, InFlightGuarded
  <2> QED BY <2>1, <2>2, ServerStep
<1>3. CASE AdminEdit
  BY <1>3, AdminStep
<1>4. CASE Restart
  <2>1. InFlightGuarded'
    BY <1>4, NothingGuarded, NoRequestWellFormed DEF Restart, OwnershipInv, InFlightGuarded, server
  <2>2. ZonesWellFormed'
    BY <1>4 DEF Restart, OwnershipInv, ZonesWellFormed, SingleOwner, server
  <2>3. OnlyOwnerWrites
    BY <1>4 DEF Restart, OnlyOwnerWrites, server
  <2> QED BY <2>1, <2>2, <2>3 DEF OwnershipInv
<1>5. CASE TimePasses
  BY <1>5, QuietStep DEF TimePasses
<1>6. CASE UNCHANGED vars
  BY <1>6, QuietStep DEF vars
<1> QED BY <1>1, <1>2, <1>3, <1>4, <1>5, <1>6 DEF OpenNext

LEMMA InitInv == Init => OwnershipInv
<1> SUFFICES ASSUME Init PROVE OwnershipInv
  OBVIOUS
<1>1. InFlightGuarded
  BY NothingGuarded, NoRequestWellFormed DEF Init, InFlightGuarded
<1>2. ZonesWellFormed
  BY ZoneContentAssumption DEF Init, ZonesWellFormed, SingleOwner
<1> QED BY <1>1, <1>2 DEF OwnershipInv

-----------------------------------------------------------------------------

\* No marker ever carries two ownership labels, for any number of goroutines,
\* DCs, zones, operators and requests, and whatever is lost, late or stale:
\* the NXRRSET prerequisite on the marker of every create that writes one
\* (orchestrator.go, buildZoneChangeSet) is enough.
THEOREM SingleOwnerHolds == Spec => []SingleOwner
<1>1. Init => OwnershipInv
  BY InitInv
<1>2. OwnershipInv /\ [Next]_vars => OwnershipInv'
  BY NextIsOpen, NextStep
<1>3. OwnershipInv => SingleOwner
  BY DEF OwnershipInv, ZonesWellFormed
<1> QED BY <1>1, <1>2, <1>3, PTL DEF Spec

\* A record marked as one operator's is never changed by another operator's
\* request: the prerequisites buildZoneChangeSet puts into every UPDATE make
\* the DC refuse it, however stale the cache was and however late it comes.
THEOREM ForeignWritesRejectedHolds == Spec => ForeignWritesRejected
<1>1. Init => OwnershipInv
  BY InitInv
<1>2. OwnershipInv /\ [Next]_vars => OwnershipInv'
  BY NextIsOpen, NextStep
<1>3. OwnershipInv /\ [Next]_vars => [OnlyOwnerWrites]_vars
  BY NextIsOpen, NextStep
<1> QED BY <1>1, <1>2, <1>3, PTL DEF Spec, ForeignWritesRejected

=============================================================================
