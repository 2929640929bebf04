---------------------------- MODULE BridgeProofs ----------------------------
(***************************************************************************)
(* The ownership bridge as a function of the zone, for every zone content, *)
(* endpoint and configuration: what one request does to what /records      *)
(* reports, and where it finds its marker.                                 *)
(***************************************************************************)
EXTENDS Bridge, OwnershipProofs

\* The request at hand: it is about the endpoint, or about the one it replaces.
IsCreate(q) == q = [RequestOf(ep) EXCEPT !.create = <<ep>>]
IsDelete(q) == q = [RequestOf(ep) EXCEPT !.delete = <<ep>>]
IsUpdate(q, old) == q = [RequestOf(ep) EXCEPT !.updateOld = <<old>>, !.updateNew = <<ep>>]
Replaces(old) ==
    /\ old \in OldEndpoints
    /\ normalizeName(old.dnsName) = Name /\ old.type = ep.type /\ old.owner = ep.owner

LEMMA EndpointTyped ==
    ASSUME ep \in Endpoints
    PROVE  Name \in Names /\ ep.type \in Words
BY BridgeAssumption DEF Name

\* The requests of a run are such as operators send.
LEMMA CreateWellFormed ==
    ASSUME ep \in Endpoints, NEW q, IsCreate(q)
    PROVE  /\ WellFormed(q) /\ q.owner = ep.owner
           /\ q.create = <<ep>> /\ UpdatePairs(q) = {} /\ q.delete = <<>>
<1>1. /\ q.owner = ep.owner /\ q.create = <<ep>> /\ q.delete = <<>>
      /\ q.updateOld = <<>> /\ q.updateNew = <<>>
  BY DEF IsCreate, RequestOf
<1>2. UpdatePairs(q) = {}
  BY <1>1 DEF UpdatePairs, PairCount
<1>3. WellFormed(q)
  BY <1>1, <1>2, EndpointTyped DEF WellFormed, Name
<1> QED BY <1>1, <1>2, <1>3

LEMMA DeleteWellFormed ==
    ASSUME ep \in Endpoints, NEW q, IsDelete(q)
    PROVE  /\ WellFormed(q) /\ q.owner = ep.owner
           /\ q.create = <<>> /\ UpdatePairs(q) = {} /\ q.delete = <<ep>>
<1>1. /\ q.owner = ep.owner /\ q.create = <<>> /\ q.delete = <<ep>>
      /\ q.updateOld = <<>> /\ q.updateNew = <<>>
  BY DEF IsDelete, RequestOf
<1>2. UpdatePairs(q) = {}
  BY <1>1 DEF UpdatePairs, PairCount
<1>3. WellFormed(q)
  BY <1>1, <1>2, EndpointTyped DEF WellFormed, Name
<1> QED BY <1>1, <1>2, <1>3

LEMMA UpdateWellFormed ==
    ASSUME ep \in Endpoints, NEW q, NEW old, IsUpdate(q, old), Replaces(old)
    PROVE  /\ WellFormed(q) /\ q.owner = ep.owner
           /\ q.create = <<>> /\ UpdatePairs(q) = {1} /\ q.delete = <<>>
           /\ q.updateOld[1] = old /\ q.updateNew[1] = ep
<1>1. /\ q.owner = ep.owner /\ q.create = <<>> /\ q.delete = <<>>
      /\ q.updateOld = <<old>> /\ q.updateNew = <<ep>>
  BY DEF IsUpdate, RequestOf
<1>2. UpdatePairs(q) = {1}
  BY <1>1 DEF UpdatePairs, PairCount
<1>3. normalizeName(old.dnsName) \in Names /\ endpointToRecords(old) # {}
  BY EndpointTyped, BridgeAssumption DEF Replaces
<1>4. WellFormed(q)
  BY <1>1, <1>2, <1>3, EndpointTyped DEF WellFormed, Name, Replaces
<1> QED BY <1>1, <1>2, <1>4

-----------------------------------------------------------------------------
(* Other names and types *)

\* An UPDATE that touches records of one name and type, and their marker, only.
Confined(changes, name, type) ==
    \A i \in DOMAIN changes : \A r \in changes[i].recs :
        KeyOf(r) = [name |-> name, type |-> type]

\* The markers of a data record in a zone, and the line reported for it.
MarkersFor(content, d) ==
    {m \in AxfrRecords(content) :
        /\ m.type = "TXT" /\ IsOwnership(m.value) /\ IsMarkerName(m.name)
        /\ decodeOwnershipName(m.name) = [name |-> d.name, type |-> d.type]}
Line(content, d, m) ==
    [name |-> d.name, type |-> d.type, owner |-> decodeOwnership(m.value),
     targets |-> {r.value : r \in RRset(AxfrRecords(content), d.name, d.type)}]

LEMMA ReportMember ==
    ASSUME NEW content, NEW l
    PROVE  l \in Report(content) <=>
           \E d \in AxfrRecords(content) :
               /\ d.type # "TXT" /\ matchesDomainFilter(d.name)
               /\ \E m \in MarkersFor(content, d) : l = Line(content, d, m)
<1> DEFINE recs == AxfrRecords(content)
           markers == {m \in recs : m.type = "TXT" /\ IsOwnership(m.value) /\ IsMarkerName(m.name)}
           For(d) == {m \in markers : decodeOwnershipName(m.name) = [name |-> d.name, type |-> d.type]}
           Lines(d) == {Line(content, d, m) : m \in For(d)}
           data == {r \in recs : r.type # "TXT" /\ matchesDomainFilter(r.name)}
<1>1. Report(content) = UNION {Lines(d) : d \in data}
  BY DEF Report, endpointsFromRecords, Line
<1>2. \A d : For(d) = MarkersFor(content, d)
  BY DEF MarkersFor
<1> HIDE DEF For
<1>3. l \in UNION {Lines(d) : d \in data} <=> \E d \in data : l \in Lines(d)
  OBVIOUS
<1>4. \A d : l \in Lines(d) <=> \E m \in MarkersFor(content, d) : l = Line(content, d, m)
  BY <1>2
<1> HIDE DEF Lines
<1> QED BY <1>1, <1>3, <1>4

\* What /records reports for another name or type is made of records that such
\* an UPDATE does not name.
LEMMA ReportFrame ==
    ASSUME NEW before0, NEW changes, NEW name, NEW type, Confined(changes, name, type)
    PROVE  {l \in Report(ServerApply(before0, changes)) : l.name # name \/ l.type # type}
           = {l \in Report(before0) : l.name # name \/ l.type # type}
<1> DEFINE S == ServerApply(before0, changes)
           Other(n, t) == [name |-> n, type |-> t] # [name |-> name, type |-> type]
<1>1. ASSUME NEW n, NEW t, t # "TXT", Other(n, t)
      PROVE  RRset(S, n, t) = RRset(before0, n, t)
  <2>1. ASSUME NEW i \in DOMAIN changes, NEW r \in changes[i].recs, r.name = n, r.type = t
        PROVE  FALSE
    BY <1>1, <2>1 DEF Confined, KeyOf
  <2>2. \A i \in DOMAIN changes : RRset(changes[i].recs, n, t) = {}
    BY <2>1 DEF RRset
  <2> QED BY <2>2, ServerFrame
<1>2. ASSUME NEW m, decodeOwnershipName(m) # [name |-> name, type |-> type]
      PROVE  RRset(S, m, "TXT") = RRset(before0, m, "TXT")
  <2>1. ASSUME NEW i \in DOMAIN changes, NEW r \in changes[i].recs, r.name = m, r.type = "TXT"
        PROVE  FALSE
    BY <1>2, <2>1 DEF Confined, KeyOf
  <2>2. \A i \in DOMAIN changes : RRset(changes[i].recs, m, "TXT") = {}
    BY <2>1 DEF RRset
  <2> QED BY <2>2, ServerFrame
<1> HIDE DEF S
<1>3. ASSUME NEW A, NEW B, NEW l \in Report(A), l.name # name \/ l.type # type,
             \A n, t : t # "TXT" /\ Other(n, t) => RRset(A, n, t) = RRset(B, n, t),
             \A m : decodeOwnershipName(m) # [name |-> name, type |-> type]
                        => RRset(A, m, "TXT") = RRset(B, m, "TXT")
      PROVE  l \in Report(B)
  <2>1. PICK d \in AxfrRecords(A), m \in AxfrRecords(A) :
            /\ d.type # "TXT" /\ matchesDomainFilter(d.name)
            /\ m \in MarkersFor(A, d) /\ l = Line(A, d, m)
    BY <1>3, ReportMember DEF MarkersFor
  <2>2. l.name = d.name /\ l.type = d.type
    BY <2>1 DEF Line
  <2>3. Other(d.name, d.type)
    BY <1>3, <2>2
  <2>4. RRset(A, d.name, d.type) = RRset(B, d.name, d.type)
    BY <1>3, <2>1, <2>3
  <2>5. d \in AxfrRecords(B)
    BY <2>4 DEF AxfrRecords, RRset
  <2>6. decodeOwnershipName(m.name) # [name |-> name, type |-> type]
    BY <2>1, <2>3 DEF MarkersFor
  <2>7. RRset(A, m.name, "TXT") = RRset(B, m.name, "TXT")
    BY <1>3, <2>6
  <2>8. m \in MarkersFor(B, d)
    BY <2>1, <2>7 DEF AxfrRecords, RRset, MarkersFor
  <2>9. RRset(AxfrRecords(A), d.name, d.type) = RRset(AxfrRecords(B), d.name, d.type)
    BY <2>4 DEF AxfrRecords, RRset
  <2>10. l = Line(B, d, m)
    BY <2>1, <2>9 DEF Line
  <2> QED BY <2>1, <2>5, <2>8, <2>10, ReportMember
<1>4. \A l \in Report(S) : l.name # name \/ l.type # type => l \in Report(before0)
  BY <1>1, <1>2, <1>3
<1>5. \A l \in Report(before0) : l.name # name \/ l.type # type => l \in Report(S)
  BY <1>1, <1>2, <1>3
<1> QED BY <1>4, <1>5 DEF S

\* The change set of any request of the run is confined to the endpoint.
LEMMA RequestConfined ==
    ASSUME ep \in Endpoints, NEW zone, NEW cached, NEW q,
           IsCreate(q) \/ IsDelete(q) \/ \E old : IsUpdate(q, old) /\ Replaces(old)
    PROVE  Confined(buildZoneChangeSet(zone, cached, q).changes, Name, ep.type)
<1> DEFINE K == [name |-> Name, type |-> ep.type]
           cs == buildZoneChangeSet(zone, cached, q)
<1>1. ASSUME NEW e, normalizeName(e.dnsName) = Name, e.type = ep.type, NEW r \in endpointToRecords(e)
      PROVE  KeyOf(r) = K /\ ep.type \in DataTypes
  BY <1>1, EndpointRecords
<1>2. ep.type \in DataTypes => KeyOf(MarkerRecord(ep)) = K
  BY EndpointMarker, EndpointTyped DEF Name
<1>3. ASSUME NEW r \in CreateChange(zone, cached, ep).recs
      PROVE  KeyOf(r) = K
  <2>1. /\ CreateRecords(zone, cached, ep) \subseteq endpointToRecords(ep)
        /\ CreateRecords(zone, cached, ep) # {}
        /\ r \in CreateRecords(zone, cached, ep) \cup {MarkerRecord(ep)}
    BY <1>3 DEF CreateChange, CreateRecords, Add
  <2> QED BY <1>1, <1>2, <2>1 DEF Name
<1>4. ASSUME NEW r \in DeleteChange(zone, ep).recs
      PROVE  KeyOf(r) = K
  <2>1. /\ OwnedRecords(zone, ep, ep) \subseteq endpointToRecords(ep)
        /\ OwnedRecords(zone, ep, ep) # {}
        /\ r \in OwnedRecords(zone, ep, ep) \cup {MarkerRecord(ep)}
    BY <1>4 DEF DeleteChange, OwnedRecords, Delete
  <2> QED BY <1>1, <1>2, <2>1 DEF Name
<1>5. ASSUME NEW old, Replaces(old),
             NEW r \in UpdateDelete(zone, old, ep).recs \cup UpdateAdd(zone, old, ep).recs
      PROVE  KeyOf(r) = K
  <2>1. r \in endpointToRecords(old) \cup endpointToRecords(ep)
    BY <1>5 DEF UpdateDelete, UpdateAdd, OwnedRecords, Delete, Add
  <2> QED BY <1>1, <1>5, <2>1 DEF Replaces, Name
<1> SUFFICES ASSUME NEW i \in DOMAIN cs.changes, NEW r \in cs.changes[i].recs
             PROVE  KeyOf(r) = K
  BY DEF Confined
<1> DEFINE b == cs.changes[i]
<1>6. WellFormed(q)
  BY CreateWellFormed, DeleteWellFormed, UpdateWellFormed
<1>7. \/ \E j \in DOMAIN q.create : b = CreateChange(zone, cached, q.create[j])
      \/ \E j \in UpdatePairs(q) : b \in {UpdateDelete(zone, q.updateOld[j], q.updateNew[j]),
                                          UpdateAdd(zone, q.updateOld[j], q.updateNew[j])}
      \/ \E j \in DOMAIN q.delete : b = DeleteChange(zone, q.delete[j])
  BY <1>6, ChangeElement
<1>8. r \in b.recs
  OBVIOUS
<1> HIDE DEF cs, b, K
<1>9. CASE IsCreate(q)
  <2>1. q.create = <<ep>> /\ UpdatePairs(q) = {} /\ q.delete = <<>>
    BY <1>9, CreateWellFormed
  <2>2. b = CreateChange(zone, cached, ep)
    BY <1>7, <2>1
  <2> QED BY <1>3, <1>8, <2>2
<1>10. CASE IsDelete(q)
  <2>1. q.create = <<>> /\ UpdatePairs(q) = {} /\ q.delete = <<ep>>
    BY <1>10, DeleteWellFormed
  <2>2. b = DeleteChange(zone, ep)
    BY <1>7, <2>1
  <2> QED BY <1>4, <1>8, <2>2
<1>11. ASSUME NEW old, IsUpdate(q, old), Replaces(old)
       PROVE  KeyOf(r) = K
  <2>1. /\ q.create = <<>> /\ UpdatePairs(q) = {1} /\ q.delete = <<>>
        /\ q.updateOld[1] = old /\ q.updateNew[1] = ep
    BY <1>11, UpdateWellFormed
  <2>2. b \in {UpdateDelete(zone, old, ep), UpdateAdd(zone, old, ep)}
    BY <1>7, <2>1
  <2> QED BY <1>5, <1>8, <1>11, <2>2
<1> QED BY <1>9, <1>10, <1>11

\* One request, sent and answered: the zone stays, or an UPDATE confined to the
\* endpoint was applied.
LEMMA StepConfined ==
    ASSUME ep \in Endpoints, CreateIt \/ DeleteIt \/ UpdateIt
    PROVE  /\ UNCHANGED <<ep, before, listed>>
           /\ R' = R \/ \E changes : R' = ServerApply(R, changes) /\ Confined(changes, Name, ep.type)
<1>1. ASSUME NEW q, NEW next, Send(q, next),
             IsCreate(q) \/ IsDelete(q) \/ \E old : IsUpdate(q, old) /\ Replaces(old)
      PROVE  /\ UNCHANGED <<ep, before, listed>>
             /\ R' = R \/ \E changes : R' = ServerApply(R, changes) /\ Confined(changes, Name, ep.type)
  <2> DEFINE cs == buildZoneChangeSet(HomeZone, AxfrRecords(R), q)
  <2>1. Confined(cs.changes, Name, ep.type)
    BY <1>1, RequestConfined
  <2>2. UNCHANGED <<ep, before, listed>> /\ R' \in {R, ServerApply(R, cs.changes)}
    BY <1>1 DEF Send
  <2> QED BY <2>1, <2>2
<1>2. CASE CreateIt
  BY <1>1, <1>2 DEF CreateIt, IsCreate
<1>3. CASE DeleteIt
  BY <1>1, <1>3 DEF DeleteIt, IsDelete
<1>4. CASE UpdateIt
  <2>1. PICK old \in OldEndpoints :
            /\ normalizeName(old.dnsName) = normalizeName(ep.dnsName)
            /\ old.type = ep.type /\ old.owner = ep.owner
            /\ Send([RequestOf(ep) EXCEPT !.updateOld = <<old>>, !.updateNew = <<ep>>], "updated")
    BY <1>4 DEF UpdateIt
  <2>2. Replaces(old)
    BY <2>1 DEF Replaces, Name
  <2> QED BY <1>1, <2>1, <2>2 DEF IsUpdate
<1> QED BY <1>2, <1>3, <1>4

\* Whatever the zone holds and whatever is sent, what /records reports for
\* other names and types does not change.
THEOREM OthersUntouchedHolds == BridgeSpec => []OthersUntouched
<1> DEFINE IInv == ep \in Endpoints /\ OthersUntouched
<1>1. BridgeInit => IInv
  BY DEF BridgeInit, OthersUntouched
<1>2. IInv /\ [BridgeNext]_bridgeVars => IInv'
  <2> SUFFICES ASSUME ep \in Endpoints, OthersUntouched, [BridgeNext]_bridgeVars
               PROVE  IInv'
    OBVIOUS
  <2>1. CASE UNCHANGED bridgeVars
    BY <2>1 DEF bridgeVars, OthersUntouched, Name, Report
  <2>2. CASE CreateIt \/ DeleteIt \/ UpdateIt
    <3>1. /\ UNCHANGED <<ep, before, listed>>
          /\ R' = R \/ \E changes : R' = ServerApply(R, changes) /\ Confined(changes, Name, ep.type)
      BY <2>2, StepConfined
    <3>2. Name' = Name
      BY <3>1 DEF Name
    <3>3. {l \in Report(R') : l.name # Name \/ l.type # ep.type}
          = {l \in Report(R) : l.name # Name \/ l.type # ep.type}
      BY <3>1, ReportFrame
    <3> QED BY <3>1, <3>2, <3>3 DEF OthersUntouched, Report
  <2> QED BY <2>1, <2>2 DEF BridgeNext, Over
<1>3. IInv => OthersUntouched
  OBVIOUS
<1> QED BY <1>1, <1>2, <1>3, PTL DEF BridgeSpec

-----------------------------------------------------------------------------
(* Markers *)

\* The endpoint of a run stays.
LEMMA EndpointStays ==
    ASSUME ep \in Endpoints, [BridgeNext]_bridgeVars
    PROVE  (ep \in Endpoints)'
<1>1. CASE UNCHANGED bridgeVars
  BY <1>1 DEF bridgeVars
<1>2. CASE CreateIt \/ DeleteIt \/ UpdateIt
  BY <1>2, StepConfined
<1> QED BY <1>1, <1>2 DEF BridgeNext, Over

\* The marker of every endpoint decodes to the endpoint's name and type, so no
\* two records share a marker.
THEOREM MarkerRoundTripHolds == BridgeSpec => []MarkerRoundTrip
<1> DEFINE IInv == ep \in Endpoints
<1>1. BridgeInit => IInv
  BY DEF BridgeInit
<1>2. IInv /\ [BridgeNext]_bridgeVars => IInv'
  BY EndpointStays
<1>3. IInv => MarkerRoundTrip
  BY MarkerReadsBack, EndpointTyped DEF MarkerRoundTrip, MarkerOf, Name
<1> QED BY <1>1, <1>2, <1>3, PTL DEF BridgeSpec

\* An update that carries records demands the owner's marker, and nothing else,
\* of the zone.
LEMMA UpdateDemandsMarker ==
    ASSUME ep \in Endpoints, NEW q, NEW old, IsUpdate(q, old), Replaces(old), NEW zone, NEW cached,
           HasChanges(buildZoneChangeSet(zone, cached, q)),
           NEW content, PrereqsHold(content, buildZoneChangeSet(zone, cached, q).prereqs)
    PROVE  OwnersAt(content, MarkerOf(ep)) = {ep.owner}
<1> DEFINE cs == buildZoneChangeSet(zone, cached, q)
           yx == YXRRSET(MarkerOf(ep), ep.owner)
<1>1. /\ WellFormed(q) /\ q.create = <<>> /\ UpdatePairs(q) = {1} /\ q.delete = <<>>
      /\ q.updateOld[1] = old /\ q.updateNew[1] = ep
  BY UpdateWellFormed
<1>2. PICK i \in DOMAIN cs.changes : cs.changes[i].recs # {}
  BY DEF HasChanges
<1> DEFINE b == cs.changes[i]
<1>3. \/ \E j \in DOMAIN q.create : b = CreateChange(zone, cached, q.create[j])
      \/ \E j \in UpdatePairs(q) : b \in {UpdateDelete(zone, q.updateOld[j], q.updateNew[j]),
                                          UpdateAdd(zone, q.updateOld[j], q.updateNew[j])}
      \/ \E j \in DOMAIN q.delete : b = DeleteChange(zone, q.delete[j])
  BY <1>1, ChangeElement
<1>4. cs.prereqs = OwnerPrereqs(zone, ep, old)
  BY <1>1 DEF buildZoneChangeSet
<1>5. b.recs # {}
  BY <1>2
<1> HIDE DEF cs, b
<1>6. b \in {UpdateDelete(zone, old, ep), UpdateAdd(zone, old, ep)}
  BY <1>1, <1>3
<1>7. RouteOf(ep) = zone /\ HasOwner(old)
  BY <1>5, <1>6 DEF UpdateDelete, UpdateAdd, OwnedRecords, Delete, Add
<1>8. endpointToRecords(old) # {}
  BY BridgeAssumption DEF Replaces
<1>9. OwnedRecords(zone, ep, old) # {}
  BY <1>7, <1>8 DEF OwnedRecords
<1>10. MarkerOf(old) = MarkerOf(ep) /\ old.owner = ep.owner
  BY DEF Replaces, MarkerOf, Name
<1>11. cs.prereqs = {yx}
  BY <1>4, <1>9, <1>10 DEF OwnerPrereqs
<1>12. PrereqHolds(content, {yx}, yx)
  <2>1. PrereqsHold(content, cs.prereqs)
    BY DEF cs
  <2> QED BY <1>11, <2>1 DEF PrereqsHold
<1>13. {r.value : r \in RRset(content, MarkerOf(ep), "TXT")} = {encodeOwnership(ep.owner)}
  <2>1. yx.kind = "YXRRSET" /\ yx.name = MarkerOf(ep) /\ yx.type = "TXT"
        /\ yx.value = encodeOwnership(ep.owner)
    BY DEF YXRRSET
  <2> HIDE DEF yx
  <2>2. {x.value : x \in {x \in {yx} : x.kind = "YXRRSET" /\ x.name = yx.name /\ x.type = yx.type}}
        = {yx.value}
    BY <2>1
  <2> QED BY <1>12, <2>1, <2>2 DEF PrereqHolds
<1>14. IsOwnership(encodeOwnership(ep.owner)) /\ decodeOwnership(encodeOwnership(ep.owner)) = ep.owner
  BY DEF IsOwnership, decodeOwnership, encodeOwnership
<1> DEFINE at == RRset(content, MarkerOf(ep), "TXT")
<1>15. \A r \in at : r.value = encodeOwnership(ep.owner)
  BY <1>13
<1>16. at # {}
  BY <1>13
<1>17. OwnersAt(content, MarkerOf(ep)) = {decodeOwnership(r.value) : r \in {r \in at : IsOwnership(r.value)}}
  BY DEF OwnersAt
<1> HIDE DEF at
<1> QED BY <1>14, <1>15, <1>16, <1>17

\* An update that the DC accepted found the operator's own marker, in every
\* zone: the prerequisite of the old endpoint protects the new records.
THEOREM OnlyOwnedUpdatedHolds == BridgeSpec => []OnlyOwnedUpdated
<1> DEFINE IInv == /\ ep \in Endpoints
                   /\ phase = "before" => R = before /\ sent = FALSE
                   /\ OnlyOwnedUpdated
<1>1. BridgeInit => IInv
  BY DEF BridgeInit, OnlyOwnedUpdated
<1>2. IInv /\ [BridgeNext]_bridgeVars => IInv'
  <2> SUFFICES ASSUME IInv, [BridgeNext]_bridgeVars
               PROVE  IInv'
    OBVIOUS
  <2>0. (ep \in Endpoints)'
    BY EndpointStays
  <2>1. CASE UNCHANGED bridgeVars
    BY <2>0, <2>1 DEF bridgeVars, OnlyOwnedUpdated, MarkerOf
  <2>2. CASE CreateIt \/ DeleteIt
    <3>1. phase' \in {"created", "deleted"}
      BY <2>2 DEF CreateIt, DeleteIt, Send
    <3> QED BY <2>0, <3>1 DEF OnlyOwnedUpdated
  <2>3. CASE UpdateIt
    <3>1. PICK old \in OldEndpoints :
              /\ normalizeName(old.dnsName) = normalizeName(ep.dnsName)
              /\ old.type = ep.type /\ old.owner = ep.owner
              /\ Send([RequestOf(ep) EXCEPT !.updateOld = <<old>>, !.updateNew = <<ep>>], "updated")
      BY <2>3 DEF UpdateIt
    <3> DEFINE q == [RequestOf(ep) EXCEPT !.updateOld = <<old>>, !.updateNew = <<ep>>]
               cs == buildZoneChangeSet(HomeZone, AxfrRecords(R), q)
    <3>2. Replaces(old) /\ IsUpdate(q, old)
      BY <3>1 DEF Replaces, Name, IsUpdate
    <3>3. R = before /\ sent = FALSE
      BY <2>3 DEF UpdateIt
    <3>4. /\ phase' = "updated" /\ UNCHANGED <<ep, before>>
          /\ sent' => HasChanges(cs) /\ PrereqsHold(R, cs.prereqs)
      BY <3>1, <3>3 DEF Send
    <3> HIDE DEF q
    <3>5. sent' => OwnersAt(before, MarkerOf(ep)) = {ep.owner}
      BY <3>2, <3>3, <3>4, UpdateDemandsMarker
    <3> QED BY <2>0, <3>4, <3>5 DEF OnlyOwnedUpdated, MarkerOf
  <2> QED BY <2>1, <2>2, <2>3 DEF BridgeNext, Over
<1>3. IInv => OnlyOwnedUpdated
  OBVIOUS
<1> QED BY <1>1, <1>2, <1>3, PTL DEF BridgeSpec

\* No zone is called like a marker or like a wildcard.
PlainZones ==
    \A z \in Zones : z # <<>> =>
        Head(z) # Star /\ ~(Len(Head(z)) >= 2 /\ Head(z)[1] = "ddo")

\* A zone with another first label than the name is a suffix of the name
\* exactly when it is one of the name without its first label.
LEMMA SuffixOfTail ==
    ASSUME NEW l \in Labels, NEW s \in Seq(Labels), NEW z \in Seq(Labels), z # <<>> => Head(z) # l
    PROVE  HasSuffix(<<l>> \o s, z) <=> HasSuffix(s, z)
<1> DEFINE n == <<l>> \o s
<1>1. Len(s) \in Nat /\ Len(z) \in Nat
  BY LenProperties
<1>2. n \in Seq(Labels) /\ Len(n) = Len(s) + 1 /\ n[1] = l
      /\ \A i \in 1..Len(s) : n[i + 1] = s[i]
  <2>1. <<l>> \in Seq(Labels) /\ Len(<<l>>) = 1 /\ <<l>>[1] = l
    OBVIOUS
  <2>2. /\ n \in Seq(Labels)
        /\ Len(n) = 1 + Len(s)
        /\ \A i \in 1..(1 + Len(s)) : n[i] = IF i <= 1 THEN <<l>>[i] ELSE s[i - 1]
    BY <2>1, ConcatProperties
  <2> HIDE DEF n
  <2> QED BY <1>1, <2>1, <2>2
<1> HIDE DEF n
<1>3. CASE Len(z) <= Len(s)
  <2>1. \A i \in 1..Len(z) : n[Len(n) - Len(z) + i] = s[Len(s) - Len(z) + i]
    <3> TAKE i \in 1..Len(z)
    <3>1. Len(s) - Len(z) + i \in 1..Len(s) /\ Len(n) - Len(z) + i = (Len(s) - Len(z) + i) + 1
      BY <1>1, <1>2, <1>3
    <3> QED BY <1>2, <3>1
  <2>2. HasSuffix(n, z) <=> HasSuffix(s, z)
    <3>1. Len(z) <= Len(n)
      BY <1>1, <1>2, <1>3
    <3> QED BY <1>3, <2>1, <3>1 DEF HasSuffix
  <2> QED BY <2>2 DEF n
<1>4. CASE Len(z) > Len(s)
  <2>1. z # <<>> /\ Head(z) = z[1]
    BY <1>1, <1>4, EmptySeq
  <2>2. ASSUME HasSuffix(n, z) PROVE FALSE
    <3>1. Len(z) = Len(n)
      BY <1>1, <1>2, <1>4, <2>2 DEF HasSuffix
    <3>2. n[Len(n) - Len(z) + 1] = z[1]
      BY <1>1, <1>4, <2>2 DEF HasSuffix
    <3>3. Len(n) - Len(z) + 1 = 1
      BY <1>1, <1>2, <3>1
    <3> QED BY <1>2, <2>1, <3>2, <3>3
  <2>3. ~HasSuffix(s, z)
    BY <1>1, <1>4 DEF HasSuffix
  <2> QED BY <2>2, <2>3 DEF n
<1> QED BY <1>1, <1>3, <1>4

\* A record and its marker are in the same configured zones.
LEMMA MarkerSuffix ==
    ASSUME PlainZones, NEW type \in Words, NEW name \in Names, NEW z \in Zones
    PROVE  HasSuffix(ownershipNameFor(type, name), z) <=> HasSuffix(name, z)
<1> DEFINE plain == <<"ddo", type>>
           wild == <<"ddo", type, "wildcard">>
<1>1. z \in Seq(Labels)
  BY ConfigAssumption, ElementOfSeq DEF Zones, Labels
<1>2. /\ plain \in Labels /\ Len(plain) >= 2 /\ plain[1] = "ddo"
      /\ wild \in Labels /\ Len(wild) >= 2 /\ wild[1] = "ddo"
      /\ Star \in Labels
  <2>1. {"ddo", "wildcard", "*"} \subseteq Words
    BY ConfigAssumption
  <2> QED BY <2>1 DEF Labels, Star
<1> HIDE DEF plain, wild
<1>3. z # <<>> => Head(z) # plain /\ Head(z) # wild /\ Head(z) # Star
  BY <1>2 DEF PlainZones
<1>4. /\ name \in Seq(Labels)
      /\ Tail(name) \in Seq(Labels) /\ <<Head(name)>> \o Tail(name) = name
  BY HeadConsTail DEF Names, Labels
<1>5. CASE Len(name) > 1 /\ Head(name) = Star
  <2>1. HasSuffix(<<Star>> \o Tail(name), z) <=> HasSuffix(Tail(name), z)
    BY <1>1, <1>2, <1>3, <1>4, SuffixOfTail
  <2>2. HasSuffix(<<wild>> \o Tail(name), z) <=> HasSuffix(Tail(name), z)
    BY <1>1, <1>2, <1>3, <1>4, SuffixOfTail
  <2>3. ownershipNameFor(type, name) = <<wild>> \o Tail(name)
    BY <1>5 DEF ownershipNameFor, wild
  <2> QED BY <1>4, <1>5, <2>1, <2>2, <2>3
<1>6. CASE ~(Len(name) > 1 /\ Head(name) = Star)
  <2>1. HasSuffix(<<plain>> \o name, z) <=> HasSuffix(name, z)
    BY <1>1, <1>2, <1>3, <1>4, SuffixOfTail
  <2>2. ownershipNameFor(type, name) = <<plain>> \o name
    BY <1>6 DEF ownershipNameFor, plain
  <2> QED BY <2>1, <2>2
<1> QED BY <1>5, <1>6

\* The marker of a record is filed in the same zone as the record, wildcards
\* at a zone's top included, as long as no zone is called like a marker or like
\* a wildcard: for any nesting of zones one UPDATE carries both.
THEOREM MarkerInZoneHolds ==
    ASSUME PlainZones
    PROVE  BridgeSpec => []MarkerInZone
<1> DEFINE IInv == ep \in Endpoints
<1>1. BridgeInit => IInv
  BY DEF BridgeInit
<1>2. IInv /\ [BridgeNext]_bridgeVars => IInv'
  BY EndpointStays
<1>3. IInv => MarkerInZone
  <2> SUFFICES ASSUME ep \in Endpoints PROVE MarkerInZone
    OBVIOUS
  <2>1. \A z \in Zones : HasSuffix(MarkerOf(ep), z) <=> HasSuffix(Name, z)
    BY EndpointTyped, MarkerSuffix DEF MarkerOf, Name
  <2>2. {z \in Zones : HasSuffix(MarkerOf(ep), z)} = {z \in Zones : HasSuffix(Name, z)}
    BY <2>1
  <2> DEFINE Longest(M) == IF M = {} THEN NoZone
                                     ELSE CHOOSE z \in M : \A y \in M : Len(y) <= Len(z)
  <2>3. \A n : zoneFor(n) = Longest({z \in Zones : HasSuffix(n, z)})
    BY DEF zoneFor
  <2> HIDE DEF Longest
  <2> QED BY <2>2, <2>3 DEF MarkerInZone
<1> QED BY <1>1, <1>2, <1>3, PTL DEF BridgeSpec

-----------------------------------------------------------------------------
(* Create, list, delete *)

\* What a create sends: the records, and a marker unless an orphaned one is
\* taken up.
Taken(content) == IsOrphan(AxfrRecords(content), ep)
Added(content) ==
    IF Taken(content) THEN endpointToRecords(ep) ELSE endpointToRecords(ep) \cup {MarkerRecord(ep)}

\* What is known of the zone when the DC accepted the create.
Creatable(content) ==
    /\ endpointToRecords(ep) # {} /\ HomeZone # NoZone /\ HasOwner(ep)
    /\ \A r \in endpointToRecords(ep) : r.value # MalformedRdata
    /\ RRset(content, Name, ep.type) = {}
    /\ ~Taken(content) => RRset(content, MarkerOf(ep), "TXT") = {}

\* A create is one block of additions, and a delete one of deletions.
LEMMA CreateBlock ==
    ASSUME ep \in Endpoints, NEW q, IsCreate(q), NEW zone, NEW cached
    PROVE  /\ buildZoneChangeSet(zone, cached, q).changes = <<CreateChange(zone, cached, ep)>>
           /\ buildZoneChangeSet(zone, cached, q).prereqs = CreatePrereqs(zone, cached, ep)
<1>1. /\ q.create = <<ep>> /\ UpdatePairs(q) = {} /\ q.delete = <<>>
  BY CreateWellFormed
<1>2. PairCount(q) = 0 /\ Len(q.create) = 1 /\ Len(q.delete) = 0
  BY <1>1 DEF IsCreate, RequestOf, PairCount
<1> DEFINE b == CreateChange(zone, cached, ep)
           creates == [k \in 1..Len(q.create) |-> CreateChange(zone, cached, q.create[k])]
           updates == [k \in 1..(2 * PairCount(q)) |->
                          LET old == q.updateOld[(k + 1) \div 2]
                              new == q.updateNew[(k + 1) \div 2]
                          IN  IF k % 2 = 1 THEN UpdateDelete(zone, old, new)
                                           ELSE UpdateAdd(zone, old, new)]
           deletes == [k \in 1..Len(q.delete) |-> DeleteChange(zone, q.delete[k])]
<1>3. buildZoneChangeSet(zone, cached, q).changes = creates \o updates \o deletes
  BY DEF buildZoneChangeSet
<1>4. creates = <<b>>
  <2>1. creates = [k \in 1..1 |-> CreateChange(zone, cached, q.create[k])]
    BY <1>2
  <2>2. \A k \in 1..1 : CreateChange(zone, cached, q.create[k]) = b
    BY <1>1
  <2> HIDE DEF b
  <2> QED BY <2>1, <2>2
<1>5. updates = <<>>
  BY <1>2
<1>6. deletes = <<>>
  BY <1>2
<1> HIDE DEF creates, updates, deletes, b
<1>7. <<b>> \in Seq({b})
  OBVIOUS
<1>8. creates \o updates \o deletes = <<b>>
  BY <1>4, <1>5, <1>6, <1>7, ConcatEmptySeq
<1>9. buildZoneChangeSet(zone, cached, q).prereqs = CreatePrereqs(zone, cached, ep)
  BY <1>1 DEF buildZoneChangeSet
<1> QED BY <1>3, <1>8, <1>9 DEF b

LEMMA DeleteBlock ==
    ASSUME ep \in Endpoints, NEW q, IsDelete(q), NEW zone, NEW cached
    PROVE  /\ buildZoneChangeSet(zone, cached, q).changes = <<DeleteChange(zone, ep)>>
           /\ buildZoneChangeSet(zone, cached, q).prereqs = OwnerPrereqs(zone, ep, ep)
<1>1. /\ q.create = <<>> /\ UpdatePairs(q) = {} /\ q.delete = <<ep>>
  BY DeleteWellFormed
<1>2. PairCount(q) = 0 /\ Len(q.create) = 0 /\ Len(q.delete) = 1
  BY <1>1 DEF IsDelete, RequestOf, PairCount
<1> DEFINE b == DeleteChange(zone, ep)
           creates == [k \in 1..Len(q.create) |-> CreateChange(zone, cached, q.create[k])]
           updates == [k \in 1..(2 * PairCount(q)) |->
                          LET old == q.updateOld[(k + 1) \div 2]
                              new == q.updateNew[(k + 1) \div 2]
                          IN  IF k % 2 = 1 THEN UpdateDelete(zone, old, new)
                                           ELSE UpdateAdd(zone, old, new)]
           deletes == [k \in 1..Len(q.delete) |-> DeleteChange(zone, q.delete[k])]
<1>3. buildZoneChangeSet(zone, cached, q).changes = creates \o updates \o deletes
  BY DEF buildZoneChangeSet
<1>4. deletes = <<b>>
  <2>1. deletes = [k \in 1..1 |-> DeleteChange(zone, q.delete[k])]
    BY <1>2
  <2>2. \A k \in 1..1 : DeleteChange(zone, q.delete[k]) = b
    BY <1>1
  <2> HIDE DEF b
  <2> QED BY <2>1, <2>2
<1>5. updates = <<>>
  BY <1>2
<1>6. creates = <<>>
  BY <1>2
<1> HIDE DEF creates, updates, deletes, b
<1>7. <<b>> \in Seq({b}) /\ <<>> \in Seq({b})
  OBVIOUS
<1>8. creates \o updates \o deletes = <<b>>
  BY <1>4, <1>5, <1>6, <1>7, ConcatEmptySeq
<1>9. buildZoneChangeSet(zone, cached, q).prereqs = OwnerPrereqs(zone, ep, ep)
  BY <1>1 DEF buildZoneChangeSet
<1> QED BY <1>3, <1>8, <1>9 DEF b

\* Additions that clash with nothing in the zone are all made, and nothing goes.
LEMMA AddBlockApplied ==
    ASSUME NEW content, NEW X,
           \A r \in X : \A s \in content : ~CnameClash(r, s),
           \A r \in X : r.type = "CNAME" => RRset(content, r.name, "CNAME") \subseteq X
    PROVE  ServerApply(content, <<Add(X)>>) = content \cup X
<1> DEFINE changes == <<Add(X)>>
<1>1. DOMAIN changes = {1} /\ changes[1].op = "add" /\ changes[1].recs = X
  BY DEF Add
<1> HIDE DEF changes
<1>2. StillThere(content, changes, 1) = content /\ AddedBefore(content, changes, 1) = {}
  BY DEF StillThere, AddedBefore
<1>3. \A r \in X : ~AddIgnored(content, changes, 1, r)
  BY <1>2 DEF AddIgnored
<1>4. \A r \in X : Affects(content, changes, 1, r)
  BY <1>1, <1>3 DEF Affects
<1>5. ASSUME NEW r \in content, r \notin X
      PROVE  ~Affects(content, changes, 1, r)
  BY <1>1, <1>5 DEF Affects, RRset
<1>6. ASSUME NEW r \in X
      PROVE  r \in ServerApply(content, changes)
  <2>1. {i \in DOMAIN changes : Affects(content, changes, i, r)} = {1}
    BY <1>1, <1>4
  <2> QED BY <1>1, <1>6, <2>1 DEF ServerApply
<1>7. ASSUME NEW r \in content, r \notin X
      PROVE  r \in ServerApply(content, changes)
  <2>1. {i \in DOMAIN changes : Affects(content, changes, i, r)} = {}
    BY <1>1, <1>5, <1>7
  <2> QED BY <1>7, <2>1 DEF ServerApply
<1>8. ServerApply(content, changes) \subseteq content \cup X
  BY <1>1 DEF ServerApply
<1>9. ServerApply(content, changes) = content \cup X
  BY <1>6, <1>7, <1>8
<1> QED BY <1>9 DEF changes

\* Deletions take away just what they name.
LEMMA DeleteBlockApplied ==
    ASSUME NEW content, NEW X
    PROVE  ServerApply(content, <<Delete(X)>>) = content \ X
<1> DEFINE changes == <<Delete(X)>>
<1>1. DOMAIN changes = {1} /\ changes[1].op = "delete" /\ changes[1].recs = X
  BY DEF Delete
<1> HIDE DEF changes
<1>2. \A r : Affects(content, changes, 1, r) <=> r \in X
  BY <1>1 DEF Affects
<1>3. ASSUME NEW r \in X
      PROVE  r \notin ServerApply(content, changes)
  <2>1. {i \in DOMAIN changes : Affects(content, changes, i, r)} = {1}
    BY <1>1, <1>2
  <2> QED BY <1>1, <2>1 DEF ServerApply
<1>4. ASSUME NEW r \in content, r \notin X
      PROVE  r \in ServerApply(content, changes)
  <2>1. {i \in DOMAIN changes : Affects(content, changes, i, r)} = {}
    BY <1>1, <1>2, <1>4
  <2> QED BY <1>4, <2>1 DEF ServerApply
<1>5. ServerApply(content, changes) \subseteq content \cup X
  BY <1>1 DEF ServerApply
<1>6. ServerApply(content, changes) = content \ X
  BY <1>3, <1>4, <1>5
<1> QED BY <1>6 DEF changes

\* What it means that the DC accepted the create.
LEMMA CreateAccepted ==
    ASSUME ep \in Endpoints, NEW q, IsCreate(q), NEW content, HomeZone # NoZone,
           HasChanges(buildZoneChangeSet(HomeZone, AxfrRecords(content), q)),
           ~BuildUpdateMsgFails(buildZoneChangeSet(HomeZone, AxfrRecords(content), q).changes),
           PrereqsHold(content, buildZoneChangeSet(HomeZone, AxfrRecords(content), q).prereqs)
    PROVE  /\ Creatable(content)
           /\ buildZoneChangeSet(HomeZone, AxfrRecords(content), q).changes = <<Add(Added(content))>>
<1> DEFINE cached == AxfrRecords(content)
           cs == buildZoneChangeSet(HomeZone, cached, q)
           b == CreateChange(HomeZone, cached, ep)
<1>1. cs.changes = <<b>> /\ cs.prereqs = CreatePrereqs(HomeZone, cached, ep)
  BY CreateBlock
<1>2. b.recs # {}
  <2>1. \E i \in DOMAIN <<b>> : <<b>>[i].recs # {}
    BY <1>1 DEF HasChanges
  <2> HIDE DEF b
  <2> QED BY <2>1
<1>3. CreateRecords(HomeZone, cached, ep) # {}
  BY <1>2 DEF CreateChange, Add
<1>4. CreateRecords(HomeZone, cached, ep) = endpointToRecords(ep) /\ HasOwner(ep)
  BY <1>3 DEF CreateRecords
<1>5. b = Add(Added(content))
  BY <1>3, <1>4 DEF CreateChange, Added, Taken
<1>6. \A p \in CreatePrereqs(HomeZone, cached, ep) : PrereqHolds(content, cs.prereqs, p)
  BY <1>1 DEF PrereqsHold
<1>7. RRset(content, Name, ep.type) = {}
  <2>1. NXRRSET(Name, ep.type) \in CreatePrereqs(HomeZone, cached, ep)
    BY <1>3 DEF CreatePrereqs, Name
  <2>2. /\ NXRRSET(Name, ep.type).kind = "NXRRSET"
        /\ NXRRSET(Name, ep.type).name = Name /\ NXRRSET(Name, ep.type).type = ep.type
    BY DEF NXRRSET
  <2> QED BY <1>6, <2>1, <2>2 DEF PrereqHolds
<1>8. ~Taken(content) => RRset(content, MarkerOf(ep), "TXT") = {}
  <2> SUFFICES ASSUME ~Taken(content) PROVE RRset(content, MarkerOf(ep), "TXT") = {}
    OBVIOUS
  <2>1. NXRRSET(MarkerOf(ep), "TXT") \in CreatePrereqs(HomeZone, cached, ep)
    BY <1>3 DEF CreatePrereqs, Taken
  <2>2. /\ NXRRSET(MarkerOf(ep), "TXT").kind = "NXRRSET"
        /\ NXRRSET(MarkerOf(ep), "TXT").name = MarkerOf(ep) /\ NXRRSET(MarkerOf(ep), "TXT").type = "TXT"
    BY DEF NXRRSET
  <2> QED BY <1>6, <2>1, <2>2 DEF PrereqHolds
<1>9. \A r \in endpointToRecords(ep) : r.value # MalformedRdata
  <2>1. b.recs = Added(content) /\ endpointToRecords(ep) \subseteq Added(content)
    BY <1>5 DEF Add, Added
  <2>2. \A i \in DOMAIN <<b>> : \A r \in <<b>>[i].recs : r.value # MalformedRdata
    BY <1>1 DEF BuildUpdateMsgFails
  <2> HIDE DEF b
  <2> QED BY <2>1, <2>2
<1> QED BY <1>1, <1>3, <1>4, <1>5, <1>7, <1>8, <1>9 DEF Creatable

\* The zone after an accepted create.
LEMMA CreatedZone ==
    ASSUME ep \in Endpoints, NEW content, Creatable(content), ~Clash(content)
    PROVE  ServerApply(content, <<Add(Added(content))>>) = content \cup Added(content)
<1>1. \A r \in endpointToRecords(ep) : r.name = Name /\ r.type = ep.type
  BY EndpointRecords DEF Name
<1>2. MarkerRecord(ep).name = MarkerOf(ep) /\ MarkerRecord(ep).type = "TXT"
  BY DEF MarkerRecord
<1>3. Added(content) \subseteq endpointToRecords(ep) \cup {MarkerRecord(ep)}
  BY DEF Added
<1>4. ASSUME NEW r \in Added(content), NEW s \in content
      PROVE  ~CnameClash(r, s)
  BY <1>1, <1>2, <1>3, <1>4 DEF CnameClash, Clash
<1>5. ASSUME NEW r \in Added(content), r.type = "CNAME"
      PROVE  RRset(content, r.name, "CNAME") = {}
  BY <1>1, <1>2, <1>3, <1>5 DEF Creatable
<1> DEFINE X == Added(content)
<1> HIDE DEF X
<1>6. \A r \in X : \A s \in content : ~CnameClash(r, s)
  BY <1>4 DEF X
<1>7. \A r \in X : r.type = "CNAME" => RRset(content, r.name, "CNAME") \subseteq X
  BY <1>5 DEF X
<1>8. ServerApply(content, <<Add(X)>>) = content \cup X
  BY <1>6, <1>7, AddBlockApplied
<1> QED BY <1>8 DEF X

\* In a zone, the only marker name that decodes to a name and type is theirs.
LEMMA MarkerUnique ==
    ASSUME ep \in Endpoints, NEW content \in Contents, NEW r \in content, IsMarkerName(r.name),
           decodeOwnershipName(r.name) = [name |-> Name, type |-> ep.type]
    PROVE  r.name = MarkerOf(ep)
<1> DEFINE m == r.name
           h == Head(m)
           plain == <<"ddo", ep.type>>
           wild == <<"ddo", ep.type, "wildcard">>
<1>1. m \in Names /\ \A i \in 2..Len(m) : m[i] # Star
  BY BridgeAssumption
<1>2. /\ h \in Seq(Words) /\ Tail(m) \in Seq(Labels) /\ <<h>> \o Tail(m) = m
      /\ Len(Tail(m)) = Len(m) - 1 /\ Len(m) \in Nat /\ Len(m) > 1
  BY <1>1, HeadConsTail DEF IsMarkerName, Labels
<1>3. h[1] = "ddo" /\ h[2] = ep.type
  BY DEF IsMarkerName, decodeOwnershipName
<1>4. plain \in Seq(Words) /\ wild \in Seq(Words)
  <2>1. ep.type \in Words /\ "ddo" \in Words /\ "wildcard" \in Words
    BY EndpointTyped, ConfigAssumption
  <2> QED BY <2>1
<1>5. CASE Len(h) = 2
  <2>1. h = plain
    BY <1>2, <1>3, <1>4, <1>5, SeqEqual
  <2>2. Name = Tail(m)
    <3>1. Len(Head(r.name)) # 3
      BY <1>5
    <3>2. decodeOwnershipName(r.name).name = Tail(r.name)
      BY <3>1 DEF decodeOwnershipName
    <3> QED BY <3>2
  <2>3. m \in Seq(Labels) /\ m # <<>>
    BY <1>1 DEF Names, Labels
  <2>4. Tail(m)[1] = m[2] /\ m[2] # Star
    <3>1. \A i \in 1..Len(Tail(m)) : Tail(m)[i] = m[i + 1]
      BY <2>3, HeadTailProperties
    <3> QED BY <1>1, <1>2, <3>1
  <2>5. Tail(m) # <<>> => Head(Tail(m)) = Tail(m)[1]
    BY <1>2
  <2>6. ~(Len(Name) > 1 /\ Head(Name) = Star)
    BY <1>2, <2>2, <2>4, <2>5
  <2>7. MarkerOf(ep) = <<h>> \o Name
    BY <2>1, <2>6 DEF MarkerOf, ownershipNameFor, Name
  <2> QED BY <1>2, <2>2, <2>7
<1>6. CASE Len(h) = 3 /\ h[3] = "wildcard"
  <2>1. h = wild
    BY <1>2, <1>3, <1>4, <1>6, SeqEqual
  <2>2. Name = <<Star>> \o Tail(m)
    BY <1>6 DEF decodeOwnershipName
  <2>3. Star \in Labels
    BY ConfigAssumption DEF Star, Labels
  <2>4. Len(Name) = Len(m) /\ Head(Name) = Star /\ Tail(Name) = Tail(m)
    BY <1>2, <2>2, <2>3, ConsProperties
  <2>5. MarkerOf(ep) = <<h>> \o Tail(Name)
    BY <1>2, <2>1, <2>4 DEF MarkerOf, ownershipNameFor, Name
  <2> QED BY <1>2, <2>4, <2>5
<1> QED BY <1>5, <1>6 DEF IsMarkerName

\* The report after an accepted create: of the endpoint's name and type there
\* was nothing, and now there is the endpoint.
LEMMA CreatedReport ==
    ASSUME ep \in Endpoints, NEW content \in Contents, Creatable(content),
           OwnersAt(content, MarkerOf(ep)) \subseteq {ep.owner}, NEW l,
           l.name = Name /\ l.type = ep.type
    PROVE  /\ l \notin Report(content)
           /\ l \in Report(content \cup Added(content)) <=> l = EndpointListed
<1> DEFINE S == content \cup Added(content)
           recs == endpointToRecords(ep)
<1>1. recs # {} /\ \A r \in recs : r.name = Name /\ r.type = ep.type
  BY EndpointRecords DEF Name, Creatable
<1>2. ep.type \in DataTypes /\ ep.type # "TXT" /\ ep.type \in TransferTypes
  BY <1>1, EndpointRecords DEF DataTypes, TransferTypes
<1>3. /\ MarkerRecord(ep).name = MarkerOf(ep) /\ MarkerRecord(ep).type = "TXT"
      /\ MarkerRecord(ep).value = encodeOwnership(ep.owner)
  BY DEF MarkerRecord
<1>4. /\ IsMarkerName(MarkerOf(ep))
      /\ decodeOwnershipName(MarkerOf(ep)) = [name |-> Name, type |-> ep.type]
  BY EndpointTyped, MarkerReadsBack DEF MarkerOf, Name
<1>5. IsOwnership(encodeOwnership(ep.owner)) /\ decodeOwnership(encodeOwnership(ep.owner)) = ep.owner
  BY DEF IsOwnership, decodeOwnership, encodeOwnership
<1>6. recs \subseteq S /\ S \subseteq content \cup recs \cup {MarkerRecord(ep)}
  BY DEF Added
<1>7. ASSUME NEW r \in S PROVE r.name = Name /\ r.type = ep.type <=> r \in recs
  BY <1>1, <1>2, <1>3, <1>6, <1>7 DEF Creatable, RRset
<1>8. RRset(AxfrRecords(S), Name, ep.type) = recs
  BY <1>1, <1>2, <1>6, <1>7 DEF RRset, AxfrRecords
<1>9. l \notin Report(content)
  <2> SUFFICES ASSUME l \in Report(content) PROVE FALSE
    OBVIOUS
  <2>1. PICK d \in AxfrRecords(content) : \E m \in MarkersFor(content, d) : l = Line(content, d, m)
    BY ReportMember
  <2>2. d.name = Name /\ d.type = ep.type
    BY <2>1 DEF Line
  <2> QED BY <2>2 DEF Creatable, RRset, AxfrRecords
<1>10. ASSUME NEW d \in recs, NEW m \in MarkersFor(S, d)
       PROVE  decodeOwnership(m.value) = ep.owner
  <2>1. /\ m \in S /\ m.type = "TXT" /\ IsOwnership(m.value) /\ IsMarkerName(m.name)
        /\ decodeOwnershipName(m.name) = [name |-> Name, type |-> ep.type]
    BY <1>1, <1>10 DEF MarkersFor, AxfrRecords
  <2>2. CASE m \in content
    <3>1. m.name = MarkerOf(ep)
      BY <2>1, <2>2, MarkerUnique
    <3>2. decodeOwnership(m.value) \in OwnersAt(content, MarkerOf(ep))
      BY <2>1, <2>2, <3>1 DEF OwnersAt, RRset
    <3> QED BY <3>2
  <2>3. CASE m \notin content
    <3>1. m = MarkerRecord(ep)
      BY <1>1, <1>2, <1>6, <2>1, <2>3
    <3> QED BY <1>3, <1>5, <3>1
  <2> QED BY <2>2, <2>3
<1>11. \A d \in recs : MarkersFor(S, d) # {}
  <2> TAKE d \in recs
  <2> SUFFICES \E m \in S : /\ m.type = "TXT" /\ m.name = MarkerOf(ep) /\ IsOwnership(m.value)
    BY <1>1, <1>4 DEF MarkersFor, AxfrRecords, TransferTypes
  <2>1. CASE Taken(content)
    <3>1. OwnersAt(AxfrRecords(content), MarkerOf(ep)) # {}
      BY <2>1 DEF Taken, IsOrphan, orphanOwnership
    <3> QED BY <3>1 DEF OwnersAt, RRset, AxfrRecords
  <2>2. CASE ~Taken(content)
    <3>1. MarkerRecord(ep) \in S
      BY <2>2 DEF Added
    <3> QED BY <1>3, <1>5, <3>1
  <2> QED BY <2>1, <2>2
<1>12. \A d \in recs : \A m \in MarkersFor(S, d) : Line(S, d, m) = EndpointListed
  BY <1>1, <1>8, <1>10 DEF Line, EndpointListed
<1>13. matchesDomainFilter(Name)
  BY DEF Creatable, HomeZone, RouteOf, Name
<1>14. ASSUME l \in Report(S) PROVE l = EndpointListed
  <2>1. PICK d \in AxfrRecords(S) : \E m \in MarkersFor(S, d) : l = Line(S, d, m)
    BY <1>14, ReportMember
  <2>2. d.name = Name /\ d.type = ep.type /\ d \in S
    BY <2>1 DEF Line, AxfrRecords
  <2>3. d \in recs
    BY <1>7, <2>2
  <2> QED BY <1>12, <2>1, <2>3
<1>15. EndpointListed \in Report(S)
  <2>1. PICK d \in recs : TRUE
    BY <1>1
  <2>2. PICK m \in MarkersFor(S, d) : TRUE
    BY <1>11
  <2>3. d \in AxfrRecords(S) /\ d.type # "TXT" /\ matchesDomainFilter(d.name)
    BY <1>1, <1>2, <1>6, <1>13 DEF AxfrRecords
  <2> HIDE DEF S, recs
  <2> QED BY <1>12, <2>2, <2>3, ReportMember
<1> HIDE DEF S
<1>16. l \in Report(S) <=> l = EndpointListed
  BY <1>14, <1>15
<1> QED BY <1>9, <1>16 DEF S

\* An accepted create adds one block of the endpoint's records.
LEMMA AddedConfined ==
    ASSUME ep \in Endpoints, NEW content, Creatable(content)
    PROVE  Confined(<<Add(Added(content))>>, Name, ep.type)
<1>1. Added(content) \subseteq endpointToRecords(ep) \cup {MarkerRecord(ep)} /\ ep.type \in DataTypes
  BY EndpointRecords DEF Added, Creatable
<1>2. \A r \in Added(content) : KeyOf(r) = [name |-> Name, type |-> ep.type]
  BY <1>1, EndpointRecords, EndpointMarker, EndpointTyped DEF Name
<1> DEFINE X == Added(content)
<1> HIDE DEF X
<1>3. DOMAIN <<Add(X)>> = {1} /\ <<Add(X)>>[1].recs = X
  BY DEF Add
<1> QED BY <1>2, <1>3 DEF Confined, X

\* What the run knows of the zone in each phase.
BridgeInv ==
    /\ ep \in Endpoints /\ before \in Contents /\ listed = Report(before)
    /\ phase = "before" => R = before /\ sent = FALSE
    /\ phase = "created" /\ sent
        => Creatable(before) /\ R = ServerApply(before, <<Add(Added(before))>>)
    /\ DeleteUndoesCreate

\* The delete that follows the create is accepted, and undoes it.
LEMMA DeleteUndoes ==
    ASSUME BridgeInv, DeleteIt, ~Clash(before),
           RRset(before, MarkerOf(ep), "TXT") \subseteq {MarkerRecord(ep)}
    PROVE  R' = before \ {MarkerRecord(ep)}
<1> DEFINE q == [RequestOf(ep) EXCEPT !.delete = <<ep>>]
           cs == buildZoneChangeSet(HomeZone, AxfrRecords(R), q)
           recs == endpointToRecords(ep)
           Y == recs \cup {MarkerRecord(ep)}
           yx == YXRRSET(MarkerOf(ep), ep.owner)
<1>1. /\ ep \in Endpoints /\ Creatable(before) /\ R = before \cup Added(before)
  BY CreatedZone DEF BridgeInv, DeleteIt
<1>2. IsDelete(q)
  BY DEF IsDelete
<1>3. cs.changes = <<DeleteChange(HomeZone, ep)>> /\ cs.prereqs = OwnerPrereqs(HomeZone, ep, ep)
  <2> HIDE DEF q
  <2> QED BY <1>1, <1>2, DeleteBlock
<1>4. OwnedRecords(HomeZone, ep, ep) = recs /\ recs # {}
  BY <1>1 DEF OwnedRecords, Creatable, HomeZone
<1>5. DeleteChange(HomeZone, ep) = Delete(Y) /\ cs.prereqs = {yx}
  BY <1>3, <1>4 DEF DeleteChange, OwnerPrereqs
<1>6. /\ MarkerRecord(ep).name = MarkerOf(ep) /\ MarkerRecord(ep).type = "TXT"
      /\ MarkerRecord(ep).value = encodeOwnership(ep.owner)
  BY DEF MarkerRecord
<1>7. \A r \in recs : r.name = Name /\ r.type = ep.type /\ r.type # "TXT"
  BY EndpointRecords DEF Name
<1>8. RRset(R, MarkerOf(ep), "TXT") = {MarkerRecord(ep)}
  <2>1. CASE Taken(before)
    <3>1. OwnersAt(AxfrRecords(before), MarkerOf(ep)) # {}
      BY <2>1 DEF Taken, IsOrphan, orphanOwnership
    <3>2. RRset(before, MarkerOf(ep), "TXT") # {}
      BY <3>1 DEF OwnersAt, RRset, AxfrRecords
    <3>3. R = before \cup recs
      BY <1>1, <2>1 DEF Added
    <3> QED BY <1>7, <3>2, <3>3 DEF RRset
  <2>2. CASE ~Taken(before)
    <3>1. R = before \cup recs \cup {MarkerRecord(ep)}
      BY <1>1, <2>2 DEF Added
    <3> QED BY <1>6, <1>7, <3>1 DEF RRset
  <2> QED BY <2>1, <2>2
<1>9. PrereqsHold(R, cs.prereqs)
  <2>1. yx.kind = "YXRRSET" /\ yx.name = MarkerOf(ep) /\ yx.type = "TXT"
        /\ yx.value = encodeOwnership(ep.owner)
    BY DEF YXRRSET
  <2> HIDE DEF yx, cs
  <2>2. {x.value : x \in {x \in {yx} : x.kind = "YXRRSET" /\ x.name = yx.name /\ x.type = yx.type}}
        = {yx.value}
    BY <2>1
  <2>3. {r.value : r \in RRset(R, MarkerOf(ep), "TXT")} = {encodeOwnership(ep.owner)}
    BY <1>6, <1>8
  <2>4. yx.kind # "NXRRSET"
    BY <2>1
  <2>5. PrereqHolds(R, {yx}, yx)
    BY <2>1, <2>2, <2>3, <2>4 DEF PrereqHolds
  <2> QED BY <1>5, <2>5 DEF PrereqsHold
<1>10. DOMAIN cs.changes = {1} /\ cs.changes[1].recs = Y /\ cs.changes = <<Delete(Y)>>
  <2>1. cs.changes = <<Delete(Y)>>
    BY <1>3, <1>5
  <2> HIDE DEF cs, Y
  <2> QED BY <2>1 DEF Delete
<1>11. HasChanges(cs)
  BY <1>10 DEF HasChanges
<1>12. ~BuildUpdateMsgFails(cs.changes)
  <2>1. encodeOwnership(ep.owner) # MalformedRdata
    BY DEF encodeOwnership, MalformedRdata
  <2>2. \A r \in Y : r.value # MalformedRdata
    BY <1>1, <1>6, <2>1 DEF Creatable
  <2> HIDE DEF cs, Y
  <2> QED BY <1>10, <2>2 DEF BuildUpdateMsgFails
<1>13. R' = ServerApply(R, cs.changes)
  <2>1. Send(q, "deleted")
    BY DEF DeleteIt
  <2>2. HomeZone # NoZone
    BY <1>1 DEF Creatable
  <2> QED BY <1>9, <1>11, <1>12, <2>1, <2>2 DEF Send
<1>14. R' = R \ Y
  <2> HIDE DEF cs, Y
  <2> QED BY <1>10, <1>13, DeleteBlockApplied
<1>15. recs \cap before = {}
  BY <1>1, <1>7 DEF Creatable, RRset
<1>16. Added(before) \subseteq Y
  BY DEF Added
<1> QED BY <1>1, <1>14, <1>15, <1>16

LEMMA BridgeInvInductive ==
    /\ BridgeInit => BridgeInv
    /\ BridgeInv /\ [BridgeNext]_bridgeVars => BridgeInv'
<1>1. BridgeInit => BridgeInv
  BY DEF BridgeInit, BridgeInv, DeleteUndoesCreate
<1>2. ASSUME BridgeInv, [BridgeNext]_bridgeVars PROVE BridgeInv'
  <2>1. ep \in Endpoints /\ before \in Contents /\ listed = Report(before)
    BY <1>2 DEF BridgeInv
  <2>2. CASE UNCHANGED bridgeVars
    <3>1. UNCHANGED <<phase, ep, before, R, sent, listed>>
      BY <2>2 DEF bridgeVars
    <3>2. /\ Creatable(before)' = Creatable(before) /\ Added(before)' = Added(before)
          /\ DeleteUndoesCreate' = DeleteUndoesCreate /\ Report(before)' = Report(before)
      BY <3>1 DEF Creatable, Added, Taken, DeleteUndoesCreate, Clash, Name, HomeZone, Report
    <3> QED BY <1>2, <3>1, <3>2 DEF BridgeInv
  <2>3. CASE CreateIt
    <3> DEFINE q == [RequestOf(ep) EXCEPT !.create = <<ep>>]
               cs == buildZoneChangeSet(HomeZone, AxfrRecords(R), q)
    <3>1. Send(q, "created") /\ R = before /\ sent = FALSE
      BY <1>2, <2>3 DEF CreateIt, BridgeInv
    <3>2. phase' = "created" /\ UNCHANGED <<ep, before, listed>>
      BY <3>1 DEF Send
    <3>3. sent' => /\ HomeZone # NoZone /\ HasChanges(cs) /\ ~BuildUpdateMsgFails(cs.changes)
                   /\ PrereqsHold(R, cs.prereqs) /\ R' = ServerApply(R, cs.changes)
      BY <3>1 DEF Send
    <3>4. IsCreate(q)
      BY DEF IsCreate
    <3> HIDE DEF q
    <3>5. sent' => Creatable(before) /\ R' = ServerApply(before, <<Add(Added(before))>>)
      BY <2>1, <3>1, <3>3, <3>4, CreateAccepted
    <3>6. /\ Creatable(before)' = Creatable(before) /\ Added(before)' = Added(before)
          /\ Report(before)' = Report(before)
      BY <3>2 DEF Creatable, Added, Taken, Name, HomeZone, Report
    <3>7. DeleteUndoesCreate'
      BY <3>2 DEF DeleteUndoesCreate
    <3> QED BY <2>1, <3>2, <3>5, <3>6, <3>7 DEF BridgeInv
  <2>4. CASE DeleteIt
    <3>1. phase' = "deleted" /\ UNCHANGED <<ep, before, listed>>
      BY <2>4 DEF DeleteIt, Send
    <3>2. Clash(before)' = Clash(before) /\ Report(before)' = Report(before)
      BY <3>1 DEF Clash, Name, Report
    <3>3. DeleteUndoesCreate'
      BY <1>2, <2>4, <3>1, <3>2, DeleteUndoes DEF DeleteUndoesCreate
    <3> QED BY <2>1, <3>1, <3>2, <3>3 DEF BridgeInv
  <2>5. CASE UpdateIt
    <3>1. phase' = "updated" /\ UNCHANGED <<ep, before, listed>>
      BY <2>5 DEF UpdateIt, Send
    <3>2. Report(before)' = Report(before)
      BY <3>1 DEF Report
    <3>3. DeleteUndoesCreate'
      BY <3>1 DEF DeleteUndoesCreate
    <3> QED BY <2>1, <3>1, <3>2, <3>3 DEF BridgeInv
  <2> QED BY <1>2, <2>2, <2>3, <2>4, <2>5 DEF BridgeNext, Over
<1> QED BY <1>1, <1>2

\* A create the DC accepted is reported with exactly its targets and its
\* owner's label and nothing else of the report changes, in every zone where
\* its data and its marker do not meet a CNAME and the marker is not someone
\* else's: marker encoding, marker lookup and record translation agree.
THEOREM CreateIsListedHolds == BridgeSpec => []CreateIsListed
<1>1. BridgeInv => CreateIsListed
  <2> SUFFICES ASSUME BridgeInv, phase = "created", sent, ~Clash(before),
                      OwnersAt(before, MarkerOf(ep)) \subseteq {ep.owner}
               PROVE  Report(R) = listed \cup {EndpointListed}
    BY DEF CreateIsListed
  <2>1. /\ ep \in Endpoints /\ before \in Contents /\ listed = Report(before)
        /\ Creatable(before) /\ R = ServerApply(before, <<Add(Added(before))>>)
    BY DEF BridgeInv
  <2>2. R = before \cup Added(before)
    BY <2>1, CreatedZone
  <2>3. ASSUME NEW l, l.name = Name /\ l.type = ep.type
        PROVE  l \notin listed /\ (l \in Report(R) <=> l = EndpointListed)
    BY <2>1, <2>2, <2>3, CreatedReport
  <2>4. {l \in Report(R) : l.name # Name \/ l.type # ep.type}
        = {l \in listed : l.name # Name \/ l.type # ep.type}
    BY <2>1, AddedConfined, ReportFrame
  <2>5. EndpointListed.name = Name /\ EndpointListed.type = ep.type
    BY DEF EndpointListed
  <2> QED BY <2>3, <2>4, <2>5
<1> QED BY <1>1, BridgeInvInductive, PTL DEF BridgeSpec

\* Deleting what was created gives back the zone the create found, less an
\* orphaned marker it took up, in every zone where no other TXT and no CNAME
\* was at the marker's name, and its data met no CNAME.
THEOREM DeleteUndoesCreateHolds == BridgeSpec => []DeleteUndoesCreate
<1>1. BridgeInv => DeleteUndoesCreate
  BY DEF BridgeInv
<1> QED BY <1>1, BridgeInvInductive, PTL DEF BridgeSpec

=============================================================================
