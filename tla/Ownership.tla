----------------------------- MODULE Ownership -----------------------------
(***************************************************************************)
(* The ownership-TXT bridge of internal/orchestrator/orchestrator.go: how  *)
(* endpoints become records, how a data record is tied to its marker TXT,  *)
(* how a cached zone is searched for collisions and orphans, and the       *)
(* prerequisites and changes of one zone's UPDATE.                         *)
(*                                                                         *)
(* A name is a sequence of labels, a label a tuple of words: <<"app">>,    *)
(* <<"*">>, <<"ddo", "A">> for "ddo-a" and <<"ddo", "A", "wildcard">> for  *)
(* "ddo-a-wildcard".  A name in a request also has the form it is spelled  *)
(* in, which normalizeName removes.  A rdata value is a tuple too:         *)
(* <<"10.0.0.1">>, or <<"owned-by", owner>> for the quoted TXT string.     *)
(***************************************************************************)
EXTENDS Dnsop

CONSTANTS
    Words,         \* what labels are made of
    ZoneList,      \* RFC2136_ZONES, in the configured order
    DomainFilter,  \* RFC2136_DOMAIN_FILTER: a set of suffixes, {} for none
    AxfrEnabled    \* RFC2136_AXFR_ENABLED

Zones == {ZoneList[i] : i \in DOMAIN ZoneList}
NoZone == <<>>
Star == <<"*">>
NoOwner == ""
NoRdata == <<>>

\* The types endpointToRecords accepts.
DataTypes == {"A", "AAAA", "CNAME", "NS", "MX"}

ASSUME ConfigAssumption ==
    /\ {"*", "ddo", "wildcard"} \cup DataTypes \subseteq Words
    /\ ZoneList \in Seq(Seq(Seq(Words)))
    /\ DomainFilter \in SUBSET Seq(Seq(Words))
    /\ AxfrEnabled \in BOOLEAN

-----------------------------------------------------------------------------
(* Names *)

\* A spelled name is [form, labels]: "plain", "dotted" and "upper" are forms of
\* one and the same name.
normalizeName(fqdn) == fqdn.labels

Names == Seq(Seq(Words)) \ {<<>>}

HasSuffix(name, suffix) ==
    /\ Len(suffix) <= Len(name)
    /\ \A i \in 1..Len(suffix) : name[Len(name) - Len(suffix) + i] = suffix[i]

matchesDomainFilter(name) ==
    DomainFilter = {} \/ \E suffix \in DomainFilter : HasSuffix(name, suffix)

\* Mutant of zoneFor: a zone does not contain its own apex.
zoneForBelow(name) ==
    LET matches == {z \in Zones : HasSuffix(name, z) /\ name # z}
    IN  IF matches = {}
        THEN NoZone
        ELSE CHOOSE z \in matches : \A y \in matches : Len(y) <= Len(z)

\* The longest configured zone that contains the name.
zoneFor(name) ==
    LET matches == {z \in Zones : HasSuffix(name, z)}
    IN  IF matches = {}
        THEN NoZone
        ELSE CHOOSE z \in matches : \A y \in matches : Len(y) <= Len(z)

\* Mutant of ownershipNameFor: the wildcard is not kept in the type label.
ownershipNameForPlain(type, name) ==
    IF Len(name) > 1 /\ Head(name) = Star
    THEN <<(<<"ddo", type>>)>> \o Tail(name)
    ELSE <<(<<"ddo", type>>)>> \o name

\* The marker of a data record: a leading "*." moves into the type label.
ownershipNameFor(type, name) ==
    IF Len(name) > 1 /\ Head(name) = Star
    THEN <<(<<"ddo", type, "wildcard">>)>> \o Tail(name)
    ELSE <<(<<"ddo", type>>)>> \o name

\* A type label of any other shape is no marker of a record: what it decodes to
\* is not a record type ("ddo-a-x" stands for the type A-X).
IsMarkerName(name) ==
    /\ Len(name) > 1 /\ Head(name)[1] = "ddo"
    /\ Len(Head(name)) = 2 \/ (Len(Head(name)) = 3 /\ Head(name)[3] = "wildcard")

\* Mutant of decodeOwnershipName: the wildcard is not put back.
decodeOwnershipNamePlain(marker) == [name |-> Tail(marker), type |-> Head(marker)[2]]

\* The data record a marker name stands for (IsMarkerName is its ok result).
decodeOwnershipName(marker) ==
    [name |-> IF Len(Head(marker)) = 3 THEN <<Star>> \o Tail(marker) ELSE Tail(marker),
     type |-> Head(marker)[2]]

-----------------------------------------------------------------------------
(* Owners *)

encodeOwnership(label) == <<"owned-by", label>>

IsOwnership(value) == Len(value) = 2 /\ value[1] = "owned-by"
decodeOwnership(value) == value[2]

\* Labels["owner"] missing and empty are the same to the caller.
HasOwner(e) == e.owner # NoOwner

\* The ownership labels found at a marker name.
OwnersAt(R, marker) ==
    {decodeOwnership(r.value) : r \in {r \in RRset(R, marker, "TXT") : IsOwnership(r.value)}}

OneLabelPerMarker(R) ==
    \A r, s \in R :
        /\ r.type = "TXT" /\ s.type = "TXT" /\ r.name = s.name
        /\ IsOwnership(r.value) /\ IsOwnership(s.value)
        => r.value = s.value

-----------------------------------------------------------------------------
(* Endpoints.  An endpoint is [dnsName, type, targets, owner].  A target is  *)
(* [kind, value]: value is the rdata it means and kind how it is written:   *)
(* "plain", "padded", "upper" or "dotted"; or it means nothing: "blank",    *)
(* "unparsable" or "misshapen" (unparsable and, as an MX, not two words).   *)

TargetForms == {"plain", "padded", "upper", "dotted"}

\* Space, case and a missing dot are canonicalised; of what means nothing,
\* only some is noticed here.
canonicalRdata(type, t) ==
    IF t.kind = "blank" \/ (t.kind = "misshapen" /\ type = "MX")
    THEN NoRdata
    ELSE IF t.kind \in TargetForms THEN t.value ELSE MalformedRdata

endpointToRecords(e) ==
    IF e.type \notin DataTypes
    THEN {}
    ELSE {[name |-> normalizeName(e.dnsName), type |-> e.type, value |-> v] :
            v \in {canonicalRdata(e.type, e.targets[i]) : i \in DOMAIN e.targets} \ {NoRdata}}

\* The marker name of an endpoint, and its marker TXT.  (Mutant of the latter:
\* the label is lost.)
MarkerOf(e) == ownershipNameFor(e.type, normalizeName(e.dnsName))
MarkerRecordUnlabelled(e) ==
    [name |-> MarkerOf(e), type |-> "TXT", value |-> encodeOwnership(NoOwner)]
MarkerRecord(e) ==
    [name |-> MarkerOf(e), type |-> "TXT", value |-> encodeOwnership(e.owner)]

-----------------------------------------------------------------------------
(* What the cached transfer of a zone says *)

HasData(R, name, type) == RRset(R, name, type) # {}

\* Marker names that carry an ownership TXT of anyone's while the data record
\* they stand for is missing.
orphanOwnership(cached) ==
    {m \in {r.name : r \in cached} :
        /\ IsMarkerName(m) /\ OwnersAt(cached, m) # {}
        /\ ~HasData(cached, decodeOwnershipName(m).name, decodeOwnershipName(m).type)}

\* Whether collisionReason returns a reason.  It depends on a record's name and type only, so it
\* is the same for every record of an endpoint.  An empty ownership label
\* reads as no owner.  (A marker has at most one ownership value, see
\* SingleOwner, so which TXT the code finds first does not matter.)
collisionReason(cached, e) ==
    LET name == normalizeName(e.dnsName)
        others == {s \in cached : s.name = name}
        owners == OwnersAt(cached, MarkerOf(e))
    IN  \/ e.type = "CNAME" /\ \E s \in others : s.type \notin {"CNAME", "TXT"}
        \/ e.type # "CNAME" /\ \E s \in others : s.type = "CNAME"
        \/ HasData(cached, name, e.type) /\ owners # {e.owner}

\* The endpoints /records reports for a zone: data records that pass the
\* domain filter and have a marker, with the marker's owner.
endpointsFromRecords(recs) ==
    LET markers == {m \in recs : m.type = "TXT" /\ IsOwnership(m.value) /\ IsMarkerName(m.name)}
        For(d) == {m \in markers : decodeOwnershipName(m.name) = [name |-> d.name, type |-> d.type]}
    IN  UNION {{[name |-> d.name, type |-> d.type, owner |-> decodeOwnership(m.value),
                 targets |-> {r.value : r \in RRset(recs, d.name, d.type)}] : m \in For(d)} :
            d \in {r \in recs : r.type # "TXT" /\ matchesDomainFilter(r.name)}}

-----------------------------------------------------------------------------
(* One zone's change set.  A request is [owner, create, updateOld,          *)
(* updateNew, delete]: owner is who sends it, the others are sequences of   *)
(* endpoints (a null entry is as good as none).                             *)

\* The zone ApplyChanges files an endpoint under, or NoZone if it is skipped.
RouteOf(e) ==
    LET name == normalizeName(e.dnsName)
    IN  IF matchesDomainFilter(name) THEN zoneFor(name) ELSE NoZone

\* Updates are paired by index, up to the shorter list.
PairCount(q) == IF Len(q.updateOld) <= Len(q.updateNew)
                THEN Len(q.updateOld) ELSE Len(q.updateNew)
UpdatePairs(q) == 1..PairCount(q)

\* What operators send.  One operator stamps its own label on everything it
\* sends (or leaves it out).  external-dns pairs updates and keeps name and
\* type, and the old endpoint of a pair that writes something is one that
\* exists: it has records.
WellFormed(q) ==
    /\ \A e \in {q.create[i] : i \in DOMAIN q.create}
               \cup {q.updateOld[i] : i \in DOMAIN q.updateOld}
               \cup {q.updateNew[i] : i \in DOMAIN q.updateNew}
               \cup {q.delete[i] : i \in DOMAIN q.delete} :
        e.owner \in {q.owner, NoOwner} /\ normalizeName(e.dnsName) \in Names
    /\ {Len(q.create), Len(q.updateOld), Len(q.updateNew), Len(q.delete)} \subseteq Nat
    /\ DOMAIN q.create = 1..Len(q.create) /\ DOMAIN q.delete = 1..Len(q.delete)
    /\ DOMAIN q.updateOld = 1..Len(q.updateOld) /\ DOMAIN q.updateNew = 1..Len(q.updateNew)
    /\ \A i \in UpdatePairs(q) :
        /\ normalizeName(q.updateOld[i].dnsName) = normalizeName(q.updateNew[i].dnsName)
        /\ q.updateOld[i].type = q.updateNew[i].type
        /\ endpointToRecords(q.updateNew[i]) # {} => endpointToRecords(q.updateOld[i]) # {}

ZonesOf(q) ==
    ( {RouteOf(q.create[i]) : i \in DOMAIN q.create}
        \cup {RouteOf(q.delete[i]) : i \in DOMAIN q.delete}
        \cup {RouteOf(q.updateNew[i]) : i \in UpdatePairs(q)} ) \ {NoZone}

NXRRSET(name, type) == [kind |-> "NXRRSET", name |-> name, type |-> type, value |-> NoValue]
YXRRSET(name, label) ==
    [kind |-> "YXRRSET", name |-> name, type |-> "TXT", value |-> encodeOwnership(label)]

Add(recs) == [op |-> "add", recs |-> recs]
Delete(recs) == [op |-> "delete", recs |-> recs]

\* The records a create, and a delete, of this zone really stands for.
CreateRecords(zone, cached, e) ==
    IF RouteOf(e) = zone /\ HasOwner(e) /\ ~(AxfrEnabled /\ collisionReason(cached, e))
    THEN endpointToRecords(e) ELSE {}
OwnedRecords(zone, routed, e) ==
    IF RouteOf(routed) = zone /\ HasOwner(e) THEN endpointToRecords(e) ELSE {}

IsOrphan(cached, e) == MarkerOf(e) \in orphanOwnership(cached)

\* Mutant of CreatePrereqs: the marker need not be absent.
CreatePrereqsDataOnly(zone, cached, e) ==
    IF CreateRecords(zone, cached, e) = {}
    THEN {}
    ELSE {NXRRSET(normalizeName(e.dnsName), e.type)}

CreatePrereqs(zone, cached, e) ==
    IF CreateRecords(zone, cached, e) = {}
    THEN {}
    ELSE {NXRRSET(normalizeName(e.dnsName), e.type)}
         \cup (IF IsOrphan(cached, e) THEN {} ELSE {NXRRSET(MarkerOf(e), "TXT")})

\* Mutant of CreateChange: the marker is not written.
CreateChangeDataOnly(zone, cached, e) == Add(CreateRecords(zone, cached, e))

CreateChange(zone, cached, e) ==
    LET recs == CreateRecords(zone, cached, e)
    IN  Add(IF recs = {} \/ IsOrphan(cached, e) THEN recs ELSE recs \cup {MarkerRecord(e)})

\* Mutant of OwnerPrereqs: updates and deletes are sent unconditionally.
OwnerPrereqsNone(zone, routed, e) == {}

OwnerPrereqs(zone, routed, e) ==
    IF OwnedRecords(zone, routed, e) = {} THEN {} ELSE {YXRRSET(MarkerOf(e), e.owner)}

\* Updates are routed by the new endpoint and owned by the old one.
UpdateDelete(zone, old, new) == Delete(OwnedRecords(zone, new, old))
UpdateAdd(zone, old, new) ==
    Add(IF RouteOf(new) = zone /\ HasOwner(old) THEN endpointToRecords(new) ELSE {})

\* Mutant of DeleteChange: the marker is left behind.
DeleteChangeDataOnly(zone, e) == Delete(OwnedRecords(zone, e, e))

DeleteChange(zone, e) ==
    LET recs == OwnedRecords(zone, e, e)
    IN  Delete(IF recs = {} THEN {} ELSE recs \cup {MarkerRecord(e)})

buildZoneChangeSet(zone, cached, q) ==
    [zone |-> zone, owner |-> q.owner,
     prereqs |->
        UNION ({CreatePrereqs(zone, cached, q.create[i]) : i \in DOMAIN q.create}
               \cup {OwnerPrereqs(zone, q.updateNew[i], q.updateOld[i]) : i \in UpdatePairs(q)}
               \cup {OwnerPrereqs(zone, q.delete[i], q.delete[i]) : i \in DOMAIN q.delete}),
     changes |->
        [i \in 1..Len(q.create) |-> CreateChange(zone, cached, q.create[i])]
        \o [i \in 1..(2 * PairCount(q)) |->
              LET old == q.updateOld[(i + 1) \div 2]
                  new == q.updateNew[(i + 1) \div 2]
              IN  IF i % 2 = 1 THEN UpdateDelete(zone, old, new) ELSE UpdateAdd(zone, old, new)]
        \o [i \in 1..Len(q.delete) |-> DeleteChange(zone, q.delete[i])]]

HasChanges(cs) == \E i \in DOMAIN cs.changes : cs.changes[i].recs # {}

=============================================================================
