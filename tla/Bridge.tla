------------------------------- MODULE Bridge -------------------------------
(***************************************************************************)
(* One request after the other against one zone content: an operator       *)
(* creates an endpoint, lists, and deletes it again, or updates one it     *)
(* believes to be there; nobody interferes and the cache is fresh.  This   *)
(* is the ownership bridge as a function of the zone, from any content the *)
(* zone may have.                                                          *)
(***************************************************************************)
EXTENDS Ownership

CONSTANTS
    Contents,      \* the zone contents to start from
    Endpoints,     \* the endpoints an operator may create, or update to
    OldEndpoints   \* the endpoints it may update from

\* There is a cache only where transfers are enabled.  Records and endpoints have
\* names, an asterisk is only legal as the leftmost label (as the code remarks), a
\* type is a word and a CNAME has one target.  What an operator updates
\* from is what /records once listed: it has records.
ASSUME BridgeAssumption ==
    /\ AxfrEnabled
    /\ \A c \in Contents : \A r \in c :
        r.name \in Names /\ \A i \in 2..Len(r.name) : r.name[i] # Star
    /\ \A e \in Endpoints :
        /\ normalizeName(e.dnsName) \in Names /\ e.type \in Words
        /\ e.type = "CNAME" => \A r, s \in endpointToRecords(e) : r = s
    /\ \A e \in OldEndpoints : endpointToRecords(e) # {}

VARIABLES
    phase,         \* "before", "created", "deleted" or "updated"
    ep,            \* the endpoint
    before, R,     \* the zone at the start and now
    sent,          \* the DC accepted something that was sent
    listed         \* what /records would have answered at the start

bridgeVars == <<phase, ep, before, R, sent, listed>>

RequestOf(e) == [owner |-> e.owner, create |-> <<>>, updateOld |-> <<>>,
                 updateNew |-> <<>>, delete |-> <<>>]

HomeZone == RouteOf(ep)
Report(content) == endpointsFromRecords(AxfrRecords(content))

BridgeInit ==
    /\ phase = "before"
    /\ ep \in Endpoints
    /\ before \in Contents
    /\ R = before
    /\ sent = FALSE
    /\ listed = Report(before)

\* One ApplyChanges with a fresh cache, and the DC's answer.  Nothing is sent for
\* an endpoint that is filed under no zone or whose UPDATE cannot be built.
Send(q, next) ==
    LET cs == buildZoneChangeSet(HomeZone, AxfrRecords(R), q)
        accepted == /\ HomeZone # NoZone /\ HasChanges(cs)
                    /\ ~BuildUpdateMsgFails(cs.changes) /\ PrereqsHold(R, cs.prereqs)
    IN  /\ phase' = next
        /\ R' = IF accepted THEN ServerApply(R, cs.changes) ELSE R
        /\ sent' = (sent \/ accepted)
        /\ UNCHANGED <<ep, before, listed>>

CreateIt ==
    /\ phase = "before"
    /\ Send([RequestOf(ep) EXCEPT !.create = <<ep>>], "created")

DeleteIt ==
    /\ phase = "created" /\ sent
    /\ Send([RequestOf(ep) EXCEPT !.delete = <<ep>>], "deleted")

UpdateIt ==
    /\ phase = "before"
    /\ \E old \in OldEndpoints :
        /\ normalizeName(old.dnsName) = normalizeName(ep.dnsName)
        /\ old.type = ep.type /\ old.owner = ep.owner
        /\ Send([RequestOf(ep) EXCEPT !.updateOld = <<old>>, !.updateNew = <<ep>>], "updated")

\* The run is over: the endpoint is gone or updated, or its create was refused.
Over ==
    /\ phase \in {"deleted", "updated"} \/ (phase = "created" /\ ~sent)
    /\ UNCHANGED bridgeVars

BridgeNext == CreateIt \/ DeleteIt \/ UpdateIt \/ Over

BridgeSpec == BridgeInit /\ [][BridgeNext]_bridgeVars

-----------------------------------------------------------------------------
Name == normalizeName(ep.dnsName)
EndpointListed == [name |-> Name, type |-> ep.type, owner |-> ep.owner,
                   targets |-> {r.value : r \in endpointToRecords(ep)}]

\* Records at the start that keep the endpoint's data, or its marker, out of the
\* zone.
Clash(content) ==
    \/ \E s \in content : s.name = Name /\ (s.type = "CNAME") # (ep.type = "CNAME")
    \/ \E s \in content : s.name = MarkerOf(ep) /\ s.type = "CNAME"

\* A create the DC accepted is reported by the next /records, with exactly its
\* targets and its owner's label, and changes nothing else of the report: the
\* marker encoding, the marker lookup and the record translation agree, also
\* when an orphaned marker of the same owner is taken up again.
CreateIsListed ==
    /\ phase = "created" /\ sent
    /\ ~Clash(before) /\ OwnersAt(before, MarkerOf(ep)) \subseteq {ep.owner}
    => Report(R) = listed \cup {EndpointListed}

\* Deleting what was created gives back the zone the create found, less an
\* orphaned marker it took up: nothing is left behind and nothing else goes.
\* (A text of someone else's beside an orphaned marker blocks the delete.)
DeleteUndoesCreate ==
    /\ phase = "deleted"
    /\ ~Clash(before) /\ RRset(before, MarkerOf(ep), "TXT") \subseteq {MarkerRecord(ep)}
    => R = before \ {MarkerRecord(ep)}

\* Whatever is in the zone, no request changes what is reported for
\* other names or types.
OthersUntouched ==
    {l \in Report(R) : l.name # Name \/ l.type # ep.type} =
    {l \in listed : l.name # Name \/ l.type # ep.type}

\* An update that the DC accepted found the operator's own marker: the old
\* endpoint's records bring the prerequisite that protects the new ones.
OnlyOwnedUpdated ==
    phase = "updated" /\ sent => OwnersAt(before, MarkerOf(ep)) = {ep.owner}

\* The marker of a record is filed in the same zone as the record, so one
\* UPDATE carries both, wildcards at a zone's top included.
MarkerInZone == zoneFor(MarkerOf(ep)) = zoneFor(Name)

\* Markers can be read back: no two records share one.
MarkerRoundTrip ==
    /\ IsMarkerName(MarkerOf(ep))
    /\ decodeOwnershipName(MarkerOf(ep)) = [name |-> Name, type |-> ep.type]

=============================================================================
