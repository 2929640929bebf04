--------------------------- MODULE RegistryProofs ---------------------------
(***************************************************************************)
(* The sidecar implements the registry it promises to the operators:       *)
(* goroutines, caches, prerequisites, failover, late UPDATEs and restarts  *)
(* come down to single writes of single operators.                         *)
(*                                                                         *)
(* The mapping reads a zone's records as entries (EntriesOf).  What the    *)
(* argument needs of the implementation is OwnershipInv (whatever is sent  *)
(* or still on its way is guarded) and RequestInv (it is one operator's,   *)
(* for one configured zone).                                               *)
(*                                                                         *)
(* The second half puts operators that poll and plan in front of the       *)
(* sidecar and shows that they are within what the theorems assume of a    *)
(* request, so that all of it holds of the two together.                   *)
(***************************************************************************)
EXTENDS RequestProofs, Reconcile, FiniteSetTheorems

-----------------------------------------------------------------------------
(* Entries *)

\* What a marker name stands for has a name too.
LEMMA DecodedName ==
    ASSUME NEW m \in Names, IsMarkerName(m)
    PROVE  decodeOwnershipName(m).name \in Names
<1>1. Tail(m) \in Seq(Labels) /\ Len(Tail(m)) = Len(m) - 1 /\ Len(m) \in Nat
  BY HeadConsTail
<1>2. Len(m) > 1
  BY DEF IsMarkerName
<1>3. Tail(m) \in Names
  <2>1. Len(Tail(m)) # 0
    BY <1>1, <1>2
  <2>2. Tail(m) # <<>>
    BY <2>1, EmptySeq
  <2> QED BY <1>1, <2>2 DEF Names, Labels
<1>4. Star \in Labels
  BY ConfigAssumption DEF Star, Labels
<1>5. <<Star>> \o Tail(m) \in Names
  BY <1>1, <1>4, ConsProperties DEF Names, Labels
<1>6. decodeOwnershipName(m).name \in {Tail(m), <<Star>> \o Tail(m)}
  BY DEF decodeOwnershipName
<1> QED BY <1>3, <1>5, <1>6

\* The keys of a zone are names and types.
LEMMA KeysTyped ==
    ASSUME NEW R, \A r \in R : r.name \in Names, NEW k \in KeysOf(R)
    PROVE  k = [name |-> k.name, type |-> k.type] /\ k.name \in Names /\ k.type \in DataTypes
<1>1. CASE \E r \in R : r.type \in DataTypes /\ k = [name |-> r.name, type |-> r.type]
  BY <1>1
<1>2. CASE \E r \in R : IsMarkerName(r.name) /\ k = decodeOwnershipName(r.name) /\ k.type \in DataTypes
  <2>1. PICK r \in R : IsMarkerName(r.name) /\ k = decodeOwnershipName(r.name) /\ k.type \in DataTypes
    BY <1>2
  <2>2. k.name \in Names
    BY <2>1, DecodedName
  <2>3. k = [name |-> k.name, type |-> k.type]
    BY <2>1 DEF decodeOwnershipName
  <2> QED BY <2>1, <2>2, <2>3
<1> QED BY <1>1, <1>2 DEF KeysOf

\* A label found at the marker of a key is an entry's.
LEMMA LabelHasKey ==
    ASSUME NEW R, NEW n \in Names, NEW ty \in DataTypes, NEW r \in R, r.type = "TXT",
           r.name = ownershipNameFor(ty, n), IsOwnership(r.value)
    PROVE  [name |-> n, type |-> ty] \in KeysOf(R)
<1>1. IsMarkerName(r.name) /\ decodeOwnershipName(r.name) = [name |-> n, type |-> ty]
  BY MarkerReadsBack, ConfigAssumption
<1> QED BY <1>1 DEF KeysOf

\* The entry of a key.
EntryOf(R, k) ==
    [name |-> k.name, type |-> k.type,
     values |-> {r.value : r \in RRset(R, k.name, k.type)},
     labels |-> OwnersAt(R, ownershipNameFor(k.type, k.name))]

\* EntriesOf, entry by entry.
LEMMA EntriesAreOfKeys ==
    ASSUME NEW R
    PROVE  EntriesOf(R) = {EntryOf(R, k) : k \in KeysOf(R)}
BY DEF EntriesOf, EntryOf

\* An entry that somebody else holds survives a guarded UPDATE.
LEMMA HeldKept ==
    ASSUME NEW cs, Guarded(cs), NEW R, \A r \in R : r.name \in Names, PrereqsHold(R, cs.prereqs),
           NEW e \in EntriesOf(R), NEW p, p # cs.owner, e.values # {}, e.labels = {p}
    PROVE  e \in EntriesOf(ServerApply(R, cs.changes))
<1> DEFINE S == ServerApply(R, cs.changes)
<1>1. PICK k \in KeysOf(R) : e = EntryOf(R, k)
  BY EntriesAreOfKeys
<1> DEFINE n == k.name
           ty == k.type
           m == ownershipNameFor(ty, n)
<1>2. k = [name |-> n, type |-> ty] /\ n \in Names /\ ty \in DataTypes
  BY KeysTyped
<1>3. HasData(R, n, ty) /\ OwnersAt(R, m) = {p}
  BY <1>1 DEF EntryOf, HasData
<1>4. RRset(S, n, ty) = RRset(R, n, ty) /\ RRset(S, m, "TXT") = RRset(R, m, "TXT")
  BY <1>2, <1>3, UnlabelledKept
<1> HIDE DEF S, m
<1>5. OwnersAt(S, m) = OwnersAt(R, m)
  BY <1>4 DEF OwnersAt
<1>6. PICK r \in S : r.name = n /\ r.type = ty
  BY <1>3, <1>4 DEF HasData, RRset
<1>7. k \in KeysOf(S)
  BY <1>2, <1>6 DEF KeysOf
<1>8. EntryOf(S, k) = e
  BY <1>1, <1>4, <1>5 DEF EntryOf, m
<1>9. e \in EntriesOf(S)
  BY <1>7, <1>8, EntriesAreOfKeys
<1> QED BY <1>9 DEF S

\* A label of an entry was there before, unless the write added it.
LEMMA LabelsFrom ==
    ASSUME NEW R, NEW S, \A r \in S : r.name \in Names, NEW e \in EntriesOf(S), NEW l \in e.labels,
           \A r \in S : r.type = "TXT" /\ decodeOwnership(r.value) = l => r \in R
    PROVE  \E d \in EntriesOf(R) : d.name = e.name /\ d.type = e.type /\ l \in d.labels
<1>1. PICK k \in KeysOf(S) : e = EntryOf(S, k)
  BY EntriesAreOfKeys
<1> DEFINE m == ownershipNameFor(k.type, k.name)
<1>2. k = [name |-> k.name, type |-> k.type] /\ k.name \in Names /\ k.type \in DataTypes
  BY KeysTyped
<1>3. l \in OwnersAt(S, m)
  BY <1>1 DEF EntryOf
<1> HIDE DEF m
<1>4. PICK r \in S : /\ r.name = m /\ r.type = "TXT" /\ IsOwnership(r.value)
                     /\ decodeOwnership(r.value) = l
  BY <1>3 DEF OwnersAt, RRset
<1>5. r \in R
  BY <1>4
<1>6. k \in KeysOf(R)
  BY <1>2, <1>4, <1>5, LabelHasKey DEF m
<1>7. l \in OwnersAt(R, m)
  BY <1>4, <1>5 DEF OwnersAt, RRset
<1> DEFINE d == EntryOf(R, k)
<1>8. d \in EntriesOf(R)
  BY <1>6, EntriesAreOfKeys
<1>9. d.name = e.name /\ d.type = e.type /\ l \in d.labels
  BY <1>1, <1>7 DEF EntryOf, m
<1> QED BY <1>8, <1>9

\* One label per marker is one label per entry.
LEMMA OneLabelEach ==
    ASSUME NEW R, OneLabelPerMarker(R), NEW e \in EntriesOf(R), NEW k \in e.labels, NEW l \in e.labels
    PROVE  k = l
<1>1. PICK x \in KeysOf(R) : e = EntryOf(R, x)
  BY EntriesAreOfKeys
<1> DEFINE m == ownershipNameFor(x.type, x.name)
<1>2. k \in OwnersAt(R, m) /\ l \in OwnersAt(R, m)
  BY <1>1 DEF EntryOf
<1> HIDE DEF m
<1>3. PICK r \in R : /\ r.name = m /\ r.type = "TXT" /\ IsOwnership(r.value)
                     /\ decodeOwnership(r.value) = k
  BY <1>2 DEF OwnersAt, RRset
<1>4. PICK s \in R : /\ s.name = m /\ s.type = "TXT" /\ IsOwnership(s.value)
                     /\ decodeOwnership(s.value) = l
  BY <1>2 DEF OwnersAt, RRset
<1> QED BY <1>3, <1>4 DEF OneLabelPerMarker

-----------------------------------------------------------------------------
(* Every step is a step of the registry *)

\* What the registry sees of the system.
RegistryState == <<[z \in Zones |-> EntriesOf(rrs[z])], actor>>

\* The zones the sidecar finds are a registry to start from.
LEMMA RegistryStart == Init => Contract!RegistryInit
<1> SUFFICES ASSUME Init PROVE Contract!RegistryInit
  OBVIOUS
<1>1. \A z \in Zones : OneLabelPerMarker(rrs[z])
  BY ZoneContentAssumption DEF Init
<1> QED BY <1>1, OneLabelEach DEF Contract!RegistryInit, Contract!OneLabel

\* A DC that processes a guarded UPDATE writes for its sender.
LEMMA ProcessWrites ==
    ASSUME OwnershipInv, NEW cs, Guarded(cs), cs.zone \in Zones,
           PrereqsHold(rrs[cs.zone], cs.prereqs), Process(cs)
    PROVE  Contract!OperatorWrites(cs.owner, cs.zone)
<1> DEFINE z == cs.zone
           R == rrs[z]
           S == ServerApply(R, cs.changes)
<1>1. actor' = cs.owner /\ rrs'[z] = S /\ \A y \in Zones \ {z} : rrs'[y] = rrs[y]
  BY DEF Process, OwnershipInv, ZonesWellFormed
<1>2. (\A r \in R : r.name \in Names) /\ OneLabelPerMarker(R)
  BY DEF OwnershipInv, ZonesWellFormed, SingleOwner
<1>3. (\A r \in S : r.name \in Names) /\ OneLabelPerMarker(S)
  <2>1. ZonesWellFormed'
    BY ProcessPreserves DEF OwnershipInv
  <2> QED BY <1>1, <2>1 DEF ZonesWellFormed, SingleOwner
<1>4. \A r \in S : r.type = "TXT" => r \in R \/ decodeOwnership(r.value) = cs.owner
  <2> SUFFICES ASSUME NEW r \in S, r.type = "TXT", r \notin R
               PROVE  decodeOwnership(r.value) = cs.owner
    OBVIOUS
  <2>1. PICK i \in DOMAIN cs.changes : cs.changes[i].op = "add" /\ r \in cs.changes[i].recs
    BY AddedOrKept
  <2>2. r.value = encodeOwnership(cs.owner)
    BY <2>1 DEF Guarded, MarkerGuarded
  <2> QED BY <2>2 DEF encodeOwnership, decodeOwnership
<1> HIDE DEF S
<1>5. ASSUME NEW e \in EntriesOf(R), NEW p, p # cs.owner, e.values # {}, e.labels = {p}
      PROVE  e \in EntriesOf(S)
  BY <1>2, <1>5, HeldKept DEF S
<1> DEFINE old == EntriesOf(R)
           new == EntriesOf(S)
<1>6. ASSUME NEW e \in new, NEW l \in e.labels, l # cs.owner
      PROVE  \E d \in old : d.name = e.name /\ d.type = e.type /\ l \in d.labels
  <2> HIDE DEF R
  <2> QED BY <1>3, <1>4, <1>6, LabelsFrom
<1>7. Contract!LabelsAdded(old, new) \subseteq {cs.owner}
  <2> HIDE DEF old, new
  <2> QED BY <1>6 DEF Contract!LabelsAdded, Contract!SameEntry
<1>8. Contract!OneLabel(new)
  BY <1>3, OneLabelEach DEF Contract!OneLabel
<1>9. [x \in Zones |-> EntriesOf(rrs[x])][z] = old /\ [x \in Zones |-> EntriesOf(rrs'[x])][z] = new
  BY <1>1
<1>10. \A y \in Zones \ {z} :
          [x \in Zones |-> EntriesOf(rrs'[x])][y] = [x \in Zones |-> EntriesOf(rrs[x])][y]
  BY <1>1
<1> HIDE DEF old, new
<1> QED BY <1>1, <1>5, <1>7, <1>8, <1>9, <1>10 DEF Contract!OperatorWrites, Contract!Held, old, new

\* The administrator files nothing.
LEMMA AdminWrites ==
    ASSUME OwnershipInv, OwnershipInv', AdminEdit
    PROVE  \E z \in Zones : Contract!OutsiderWrites(z)
<1>1. PICK z \in Zones :
        \/ \E r \in AdminRecords \ rrs[z] : rrs' = [rrs EXCEPT ![z] = @ \cup {r}]
        \/ \E r \in rrs[z] : rrs' = [rrs EXCEPT ![z] = @ \ {r}]
  BY DEF AdminEdit
<1> DEFINE R == rrs[z]
           S == rrs'[z]
           old == EntriesOf(R)
           new == EntriesOf(S)
<1>2. actor' = Admin /\ \A y \in Zones \ {z} : rrs'[y] = rrs[y]
  BY <1>1 DEF AdminEdit, OwnershipInv, ZonesWellFormed
<1>3. \A r \in S : r \in R \/ r \in AdminRecords
  BY <1>1 DEF OwnershipInv, ZonesWellFormed
<1>4. \A r \in S : r.type = "TXT" => r \in R
  BY <1>3, ZoneContentAssumption
<1>5. \A r \in S : r.name \in Names
  BY DEF OwnershipInv, ZonesWellFormed
<1>6. ASSUME NEW e \in new, NEW l \in e.labels
      PROVE  \E d \in old : d.name = e.name /\ d.type = e.type /\ l \in d.labels
  <2> HIDE DEF R, S
  <2> QED BY <1>4, <1>5, <1>6, LabelsFrom
<1>7. Contract!LabelsAdded(old, new) = {}
  <2> HIDE DEF old, new
  <2> QED BY <1>6 DEF Contract!LabelsAdded, Contract!SameEntry
<1>8. [x \in Zones |-> EntriesOf(rrs[x])][z] = old /\ [x \in Zones |-> EntriesOf(rrs'[x])][z] = new
  OBVIOUS
<1>9. \A y \in Zones \ {z} :
         [x \in Zones |-> EntriesOf(rrs'[x])][y] = [x \in Zones |-> EntriesOf(rrs[x])][y]
  BY <1>2
<1> HIDE DEF old, new
<1> QED BY <1>2, <1>7, <1>8, <1>9 DEF Contract!OutsiderWrites

\* Every step of the sidecar and its surroundings is a write of the registry or
\* none of its business.
LEMMA RegistryStep ==
    ASSUME OwnershipInv, RequestInv, OpenNext
    PROVE  [Contract!RegistryNext]_RegistryState
<1>1. ASSUME NEW cs, Guarded(cs), cs.zone \in Zones, cs.owner \in Owners,
             PrereqsHold(rrs[cs.zone], cs.prereqs), Process(cs)
      PROVE  Contract!RegistryNext
  BY <1>1, ProcessWrites DEF Contract!RegistryNext
<1>2. CASE UNCHANGED <<rrs, actor>>
  BY <1>2 DEF RegistryState
<1>3. ASSUME NEW t \in Threads, UpdateCall(t)
      PROVE  [Contract!RegistryNext]_RegistryState
  <2>1. \/ UNCHANGED <<rrs, actor>>
        \/ PrereqsHold(rrs[sending[t].zone], sending[t].prereqs) /\ Process(sending[t])
    BY <1>3 DEF UpdateCall, Zone
  <2>2. Guarded(sending[t]) /\ sending[t].zone \in Zones /\ sending[t].owner \in Owners
    BY <1>3 DEF UpdateCall, OwnershipInv, InFlightGuarded, RequestInv, LocalsInv, LocalInv, LocalTypes,
                BusyPCs, ApplyPCs
  <2> QED BY <1>1, <1>2, <2>1, <2>2
<1>4. CASE LateArrival
  <2>1. PICK cs \in late : \/ UNCHANGED <<rrs, actor>>
                           \/ PrereqsHold(rrs[cs.zone], cs.prereqs) /\ Process(cs)
    BY <1>4 DEF LateArrival
  <2>2. Guarded(cs) /\ cs.zone \in Zones /\ cs.owner \in Owners
    BY DEF OwnershipInv, InFlightGuarded, RequestInv, SharedTypes
  <2> QED BY <1>1, <1>2, <2>1, <2>2
<1>5. CASE AdminEdit
  <2>1. OwnershipInv'
    BY NextStep
  <2> QED BY <1>5, <2>1, AdminWrites DEF Contract!RegistryNext
<1>6. ASSUME NEW t \in Threads, Acts(t), ~UpdateCall(t)
      PROVE  UNCHANGED <<rrs, actor>>
  BY <1>6
  DEF Acts, Begin, Step, ListStep, ApplyStep, ProbeHost, BeginList, ListLock, ListNoDC, ListZone, AxfrCall,
      AxfrZoneFailed, ListPin, ListStore, ListCharge, ListUnlock, BeginApply, ApplyBuild, ApplyDone,
      ZoneLock, ApplyNoDC, ApplyOrder, ApplyGiveUp, UpdateOK, UpdateCredit, UpdateFailed,
      UpdateFailover, Return, ClientGone, server
<1>7. CASE Restart \/ TimePasses \/ UNCHANGED vars
  <2>1. UNCHANGED <<rrs, actor>>
    BY <1>7 DEF Restart, TimePasses, vars, server
  <2> QED BY <1>2, <2>1
<1> QED BY <1>2, <1>3, <1>4, <1>5, <1>6, <1>7 DEF OpenNext

\* The sidecar implements the registry, for any number of operators, zones,
\* goroutines and DCs: whatever happens to a zone is one write of one operator
\* or a hand edit, leaves what another operator holds as it is, and files
\* nothing under another operator's label.
THEOREM ImplementsRegistryHolds == Spec => ImplementsRegistry
<1>1. Init => OwnershipInv /\ RequestInv /\ Contract!RegistryInit
  BY InitInv, RequestInvStart, RegistryStart
<1>2. OwnershipInv /\ RequestInv /\ [Next]_vars => (OwnershipInv /\ RequestInv)'
  BY NextIsOpen, NextStep, RequestInvStep
<1>3. OwnershipInv /\ RequestInv /\ [Next]_vars => [Contract!RegistryNext]_RegistryState
  BY NextIsOpen, RegistryStep
<1> QED BY <1>1, <1>2, <1>3, PTL DEF Spec, ImplementsRegistry, Contract!RegistrySpec, RegistryState

-----------------------------------------------------------------------------
(* Finite sets of records *)

\* The values of a function on a finite set.
LEMMA ImageFinite ==
    ASSUME NEW S, IsFiniteSet(S), NEW f
    PROVE  IsFiniteSet({f[x] : x \in S})
<1> DEFINE T == {f[x] : x \in S}
           g == [x \in S |-> f[x]]
<1>1. g \in Surjection(S, T)
  BY DEF Surjection
<1> HIDE DEF g, T
<1>2. IsFiniteSet(T)
  BY <1>1, FS_Surjection
<1> QED BY <1>2 DEF T

\* SetToSeq lists a finite set.
LEMMA SetToSeqLists ==
    ASSUME NEW S, IsFiniteSet(S)
    PROVE  \E n \in Nat : SetToSeq(S) \in Surjection(1..n, S)
<1> DEFINE n == Cardinality(S)
<1>1. n \in Nat /\ ExistsBijection(1..n, S)
  BY FS_CardinalityType
<1>2. PICK f \in Bijection(1..n, S) : TRUE
  BY <1>1 DEF ExistsBijection
<1>3. f \in [1..n -> S] /\ IsInjective(f)
  BY <1>2 DEF Bijection, Injection, IsInjective
<1>4. SetToSeq(S) \in [1..n -> S] /\ IsInjective(SetToSeq(S))
  BY <1>3 DEF SetToSeq
<1>5. SetToSeq(S) \in Injection(1..n, S)
  BY <1>4 DEF Injection, IsInjective
<1> HIDE DEF n
<1>6. IsFiniteSet(1..n) /\ Cardinality(1..n) = n
  BY <1>1, FS_Interval
<1>7. SetToSeq(S) \in Surjection(1..n, S)
  BY <1>5, <1>6, FS_Injection DEF n
<1> QED BY <1>1, <1>7

\* Finitely many records, all with rdata.
Solid(R) == IsFiniteSet(R) /\ \A r \in R : r.value # NoRdata
Named(R) == \A r \in R : r.name \in Names

\* A part of such a set is one.
LEMMA SolidPart ==
    ASSUME NEW R, Solid(R), NEW S, S \subseteq R
    PROVE  Solid(S)
<1>1. IsFiniteSet(S)
  BY FS_Subset DEF Solid
<1> QED BY <1>1 DEF Solid

\* Two of them together are one.
LEMMA SolidSum ==
    ASSUME NEW R, Solid(R), NEW S, Solid(S)
    PROVE  Solid(R \cup S)
<1>1. IsFiniteSet(R \cup S)
  BY FS_Union DEF Solid
<1> QED BY <1>1 DEF Solid

\* No records at all.
LEMMA NothingSolid == Solid({}) /\ Named({})
BY FS_EmptySet DEF Solid, Named

\* The records an UPDATE names.
Written(cs) == UNION {cs.changes[i].recs : i \in DOMAIN cs.changes}

\* A DC keeps a zone finite.
LEMMA ApplySolid ==
    ASSUME NEW R, Solid(R), NEW cs, Solid(Written(cs))
    PROVE  Solid(ServerApply(R, cs.changes))
<1>1. ServerApply(R, cs.changes) \subseteq R \cup Written(cs)
  BY DEF ServerApply, Written
<1>2. Solid(R \cup Written(cs))
  BY SolidSum
<1> QED BY <1>1, <1>2, SolidPart

\* The endpoints of a request, and the records they stand for.
EndpointsOf(q) ==
    {q.create[i] : i \in DOMAIN q.create} \cup {q.updateOld[i] : i \in DOMAIN q.updateOld}
    \cup {q.updateNew[i] : i \in DOMAIN q.updateNew} \cup {q.delete[i] : i \in DOMAIN q.delete}
Produces(q) == UNION {endpointToRecords(e) \cup {MarkerRecord(e)} : e \in EndpointsOf(q)}

\* An UPDATE names no other records.
LEMMA BuildWrites ==
    ASSUME NEW zone, NEW cached, NEW q, WellFormed(q)
    PROVE  Written(buildZoneChangeSet(zone, cached, q)) \subseteq Produces(q)
<1> DEFINE cs == buildZoneChangeSet(zone, cached, q)
<1> SUFFICES ASSUME NEW i \in DOMAIN cs.changes, NEW r \in cs.changes[i].recs
             PROVE  \E e \in EndpointsOf(q) : r \in endpointToRecords(e) \cup {MarkerRecord(e)}
  BY DEF Written, Produces
<1> DEFINE b == cs.changes[i]
<1>1. \/ \E j \in DOMAIN q.create : b = CreateChange(zone, cached, q.create[j])
      \/ \E j \in UpdatePairs(q) : b \in {UpdateDelete(zone, q.updateOld[j], q.updateNew[j]),
                                          UpdateAdd(zone, q.updateOld[j], q.updateNew[j])}
      \/ \E j \in DOMAIN q.delete : b = DeleteChange(zone, q.delete[j])
  BY ChangeElement
<1>2. UpdatePairs(q) \subseteq DOMAIN q.updateOld /\ UpdatePairs(q) \subseteq DOMAIN q.updateNew
  BY DEF WellFormed, UpdatePairs, PairCount
<1>3. r \in b.recs
  OBVIOUS
<1> HIDE DEF b, cs
<1>4. CASE \E j \in DOMAIN q.create : b = CreateChange(zone, cached, q.create[j])
  <2>1. PICK j \in DOMAIN q.create : b = CreateChange(zone, cached, q.create[j])
    BY <1>4
  <2>2. r \in endpointToRecords(q.create[j]) \cup {MarkerRecord(q.create[j])}
    BY <1>3, <2>1 DEF CreateChange, CreateRecords, Add
  <2> QED BY <2>2 DEF EndpointsOf
<1>5. CASE \E j \in UpdatePairs(q) : b \in {UpdateDelete(zone, q.updateOld[j], q.updateNew[j]),
                                            UpdateAdd(zone, q.updateOld[j], q.updateNew[j])}
  <2>1. PICK j \in UpdatePairs(q) : b \in {UpdateDelete(zone, q.updateOld[j], q.updateNew[j]),
                                            UpdateAdd(zone, q.updateOld[j], q.updateNew[j])}
    BY <1>5
  <2>2. r \in endpointToRecords(q.updateOld[j]) \cup endpointToRecords(q.updateNew[j])
    BY <1>3, <2>1 DEF UpdateDelete, UpdateAdd, OwnedRecords, Add, Delete
  <2> QED BY <1>2, <2>2 DEF EndpointsOf
<1>6. CASE \E j \in DOMAIN q.delete : b = DeleteChange(zone, q.delete[j])
  <2>1. PICK j \in DOMAIN q.delete : b = DeleteChange(zone, q.delete[j])
    BY <1>6
  <2>2. r \in endpointToRecords(q.delete[j]) \cup {MarkerRecord(q.delete[j])}
    BY <1>3, <2>1 DEF DeleteChange, OwnedRecords, Delete
  <2> QED BY <2>2 DEF EndpointsOf
<1> QED BY <1>1, <1>4, <1>5, <1>6

\* The records of an endpoint with finitely many targets.
LEMMA EndpointSolid ==
    ASSUME NEW e, IsFiniteSet(DOMAIN e.targets)
    PROVE  Solid(endpointToRecords(e) \cup {MarkerRecord(e)})
<1> DEFINE f == [i \in DOMAIN e.targets |->
                   [name |-> normalizeName(e.dnsName), type |-> e.type,
                    value |-> canonicalRdata(e.type, e.targets[i])]]
<1>1. IsFiniteSet({f[i] : i \in DOMAIN e.targets})
  <2> HIDE DEF f
  <2> QED BY ImageFinite
<1>2. endpointToRecords(e) \subseteq {f[i] : i \in DOMAIN e.targets}
  BY DEF endpointToRecords
<1> HIDE DEF f
<1>3. IsFiniteSet(endpointToRecords(e))
  BY <1>1, <1>2, FS_Subset
<1>4. \A r \in endpointToRecords(e) : r.value # NoRdata
  BY DEF endpointToRecords
<1>5. Solid(endpointToRecords(e))
  BY <1>3, <1>4 DEF Solid
<1>6. IsFiniteSet({MarkerRecord(e)})
  BY FS_Singleton
<1>7. MarkerRecord(e).value # NoRdata
  BY DEF MarkerRecord, encodeOwnership, NoRdata
<1>8. Solid({MarkerRecord(e)})
  BY <1>6, <1>7 DEF Solid
<1> QED BY <1>5, <1>8, SolidSum

\* The records of a request with finitely many targets.
LEMMA PayloadSolid ==
    ASSUME NEW q, WellFormed(q), \A e \in EndpointsOf(q) : IsFiniteSet(DOMAIN e.targets)
    PROVE  Solid(Produces(q))
<1>1. ASSUME NEW x \in {q.create, q.updateOld, q.updateNew, q.delete}
      PROVE  IsFiniteSet({x[i] : i \in DOMAIN x})
  <2>1. Len(x) \in Nat /\ DOMAIN x = 1..Len(x)
    BY DEF WellFormed
  <2>2. IsFiniteSet(1..Len(x))
    BY <2>1, FS_Interval
  <2> QED BY <2>1, <2>2, ImageFinite
<1>2. IsFiniteSet(EndpointsOf(q))
  <2> DEFINE A == {q.create[i] : i \in DOMAIN q.create}
             B == {q.updateOld[i] : i \in DOMAIN q.updateOld}
             C == {q.updateNew[i] : i \in DOMAIN q.updateNew}
             D == {q.delete[i] : i \in DOMAIN q.delete}
  <2>1. IsFiniteSet(A) /\ IsFiniteSet(B) /\ IsFiniteSet(C) /\ IsFiniteSet(D)
    BY <1>1
  <2>2. EndpointsOf(q) = A \cup B \cup C \cup D
    BY DEF EndpointsOf
  <2> HIDE DEF A, B, C, D
  <2> QED BY <2>1, <2>2, FS_Union
<1> DEFINE f == [e \in EndpointsOf(q) |-> endpointToRecords(e) \cup {MarkerRecord(e)}]
<1>3. \A e \in EndpointsOf(q) : Solid(f[e])
  BY EndpointSolid
<1>4. Produces(q) = UNION {f[e] : e \in EndpointsOf(q)}
  BY DEF Produces
<1> HIDE DEF f
<1>5. IsFiniteSet({f[e] : e \in EndpointsOf(q)})
  BY <1>2, ImageFinite
<1>6. IsFiniteSet(Produces(q))
  BY <1>3, <1>4, <1>5, FS_UNION DEF Solid
<1> QED BY <1>3, <1>4, <1>6 DEF Solid

-----------------------------------------------------------------------------
(* What an operator has seen and what it sends *)

\* An answer of GET /records: finitely many records, each with something to
\* delete.
ListedRecord(l) ==
    /\ DOMAIN l = {"name", "type", "owner", "targets"} /\ l.name \in Names
    /\ IsFiniteSet(l.targets) /\ \E v \in l.targets : v # NoRdata
Listed(L) == IsFiniteSet(L) /\ \A l \in L : ListedRecord(l)

\* What GET /records makes of a finite zone with well-named records.
LEMMA ListedFrom ==
    ASSUME NEW R, Solid(R), Named(R)
    PROVE  Listed(endpointsFromRecords(R))
<1> DEFINE Values(d) == {r.value : r \in RRset(R, d.name, d.type)}
           f == [p \in R \X R |-> [name |-> p[1].name, type |-> p[1].type,
                                   owner |-> decodeOwnership(p[2].value), targets |-> Values(p[1])]]
<1>1. \A l \in endpointsFromRecords(R) : \E d \in R, m \in R : l = f[<<d, m>>]
  BY ZenonT(40) DEF endpointsFromRecords
<1>2. IsFiniteSet(R \X R)
  BY FS_Product DEF Solid
<1>3. IsFiniteSet({f[p] : p \in R \X R})
  <2> HIDE DEF f
  <2> QED BY <1>2, ImageFinite
<1>4. endpointsFromRecords(R) \subseteq {f[p] : p \in R \X R}
  <2> HIDE DEF f
  <2> QED BY <1>1
<1>5. IsFiniteSet(endpointsFromRecords(R))
  <2> HIDE DEF f
  <2> QED BY <1>3, <1>4, FS_Subset
<1>6. ASSUME NEW d \in R PROVE IsFiniteSet(Values(d)) /\ \E v \in Values(d) : v # NoRdata
  <2>1. Solid(RRset(R, d.name, d.type)) /\ d \in RRset(R, d.name, d.type)
    BY SolidPart DEF RRset
  <2> DEFINE S == RRset(R, d.name, d.type)
             g == [r \in S |-> r.value]
  <2>2. Values(d) = {g[r] : r \in S}
    OBVIOUS
  <2> HIDE DEF g, Values
  <2>3. IsFiniteSet({g[r] : r \in S})
    BY <2>1, ImageFinite DEF Solid
  <2> QED BY <2>1, <2>2, <2>3 DEF Solid, g
<1>7. ASSUME NEW l \in endpointsFromRecords(R) PROVE ListedRecord(l)
  <2>1. PICK d \in R, m \in R : l = f[<<d, m>>]
    BY <1>1
  <2>2. DOMAIN l = {"name", "type", "owner", "targets"} /\ l.name = d.name /\ l.targets = Values(d)
    BY <2>1
  <2> HIDE DEF f, Values
  <2> QED BY <1>6, <2>2 DEF ListedRecord, Named
<1> QED BY <1>5, <1>7 DEF Listed

\* What an operator wants.
Desired(G) == IsFiniteSet(G) /\ \A g \in G : g.name \in Names /\ IsFiniteSet(g.targets)

\* The endpoints an operator sends: its own, well named, with finitely many
\* targets.
OwnEndpoint(o, e) == e.owner = o /\ normalizeName(e.dnsName) \in Names /\ IsFiniteSet(DOMAIN e.targets)

\* The fields of the endpoint an operator writes for one name and type.
LEMMA EndpointForFields ==
    ASSUME NEW o, NEW g, IsFiniteSet(g.targets)
    PROVE  /\ EndpointFor(o, g).owner = o /\ normalizeName(EndpointFor(o, g).dnsName) = g.name
           /\ EndpointFor(o, g).type = g.type
           /\ EndpointFor(o, g).targets = SetToSeq(g.targets)
           /\ IsFiniteSet(DOMAIN EndpointFor(o, g).targets)
<1>1. /\ EndpointFor(o, g).owner = o /\ normalizeName(EndpointFor(o, g).dnsName) = g.name
      /\ EndpointFor(o, g).type = g.type
      /\ EndpointFor(o, g).targets = SetToSeq(g.targets)
  BY DEF EndpointFor, normalizeName
<1>2. PICK n \in Nat : SetToSeq(g.targets) \in [1..n -> g.targets]
  BY SetToSeqLists DEF Surjection
<1>3. IsFiniteSet(1..n)
  BY FS_Interval
<1> QED BY <1>1, <1>2, <1>3

\* A wanted record as it is sent.
LEMMA WantedEndpoint ==
    ASSUME NEW o, NEW g, g.name \in Names, IsFiniteSet(g.targets)
    PROVE  /\ OwnEndpoint(o, EndpointFor(o, g)) /\ EndpointFor(o, g).type = g.type
           /\ normalizeName(EndpointFor(o, g).dnsName) = g.name
BY EndpointForFields DEF OwnEndpoint

\* A listed record as it is sent: it still has records.
LEMMA SeenEndpoint ==
    ASSUME NEW o, NEW l, ListedRecord(l)
    PROVE  /\ OwnEndpoint(o, Seen(o, l)) /\ Seen(o, l).type = l.type
           /\ normalizeName(Seen(o, l).dnsName) = l.name
           /\ l.type \in DataTypes => endpointToRecords(Seen(o, l)) # {}
<1> DEFINE T == {[kind |-> "plain", value |-> v] : v \in l.targets}
           f == [v \in l.targets |-> [kind |-> "plain", value |-> v]]
<1>1. IsFiniteSet(T)
  <2>1. T = {f[v] : v \in l.targets}
    OBVIOUS
  <2> HIDE DEF T, f
  <2> QED BY <2>1, ImageFinite DEF ListedRecord
<1>2. PICK g : g = [l EXCEPT !.targets = T]
  OBVIOUS
<1>3. g.name = l.name /\ g.type = l.type /\ g.targets = T /\ Seen(o, l) = EndpointFor(o, g)
  BY <1>2 DEF ListedRecord, Seen
<1> HIDE DEF T
<1>4. OwnEndpoint(o, Seen(o, l)) /\ Seen(o, l).type = l.type /\ normalizeName(Seen(o, l).dnsName) = l.name
  BY <1>1, <1>3, WantedEndpoint DEF ListedRecord
<1>5. ASSUME l.type \in DataTypes PROVE endpointToRecords(Seen(o, l)) # {}
  <2>1. PICK v \in l.targets : v # NoRdata
    BY DEF ListedRecord
  <2>2. PICK t \in T : t.kind = "plain" /\ t.value = v
    <3>1. [kind |-> "plain", value |-> v] \in T
      BY DEF T
    <3> QED BY <3>1
  <2> DEFINE x == SetToSeq(T)
  <2>3. Seen(o, l).targets = x
    BY <1>1, <1>3, EndpointForFields
  <2>4. \E i \in DOMAIN x : x[i] = t
    <3>1. PICK n \in Nat : x \in Surjection(1..n, T)
      BY <1>1, SetToSeqLists
    <3> HIDE DEF x
    <3> QED BY <3>1 DEF Surjection
  <2> HIDE DEF x
  <2>5. PICK i \in DOMAIN x : x[i] = t
    BY <2>4
  <2>6. canonicalRdata(l.type, t) = v
    BY <2>2 DEF canonicalRdata, TargetForms
  <2>7. [name |-> normalizeName(Seen(o, l).dnsName), type |-> l.type, value |-> v] \in endpointToRecords(Seen(o, l))
    BY <1>4, <1>5, <2>1, <2>3, <2>5, <2>6 DEF endpointToRecords
  <2> QED BY <2>7
<1> QED BY <1>4, <1>5

\* A sequence of endpoints of o.
OwnEndpoints(o, x) ==
    Len(x) \in Nat /\ DOMAIN x = 1..Len(x) /\ \A i \in DOMAIN x : OwnEndpoint(o, x[i])

\* A list of endpoints of o is one of these.
LEMMA EndpointSequence ==
    ASSUME NEW o, NEW n \in Nat, NEW S, NEW x \in [1..n -> S], \A e \in S : OwnEndpoint(o, e)
    PROVE  OwnEndpoints(o, x) /\ Len(x) = n
BY DEF OwnEndpoints

\* The endpoints of a finite set, as a sequence.
LEMMA ListedEndpoints ==
    ASSUME NEW o, NEW S, IsFiniteSet(S), \A e \in S : OwnEndpoint(o, e)
    PROVE  OwnEndpoints(o, SetToSeq(S))
<1>1. PICK n \in Nat : SetToSeq(S) \in Surjection(1..n, S)
  BY SetToSeqLists
<1>2. PICK x : x = SetToSeq(S)
  OBVIOUS
<1>3. x \in [1..n -> S]
  BY <1>1, <1>2 DEF Surjection
<1> QED BY <1>2, <1>3, EndpointSequence

\* What an operator sends keeps to the rules, as long as what it has seen came
\* from finite zones.
LEMMA PlanPayload ==
    ASSUME NEW o \in Owners, Desired(goal[o]), Listed(view[o])
    PROVE  Payload(Plan(o)) /\ Solid(Produces(Plan(o)))
<1> DEFINE new == {g \in goal[o] : ~\E l \in view[o] : SameKey(g, l)}
           old == {l \in view[o] : ~\E g \in goal[o] : SameKey(g, l)}
           P == {p \in view[o] \X goal[o] : SameKey(p[1], p[2]) /\ p[1] # Wanted(o, p[2])}
           pairs == SetToSeq(P)
           q == Plan(o)
<1>1. /\ q.owner = o
      /\ q.create = SetToSeq({EndpointFor(o, g) : g \in new})
      /\ q.updateOld = [i \in DOMAIN pairs |-> Seen(o, pairs[i][1])]
      /\ q.updateNew = [i \in DOMAIN pairs |-> EndpointFor(o, pairs[i][2])]
      /\ q.delete = SetToSeq({Seen(o, l) : l \in old})
  BY DEF Plan
<1>2. /\ \A g \in goal[o] : OwnEndpoint(o, EndpointFor(o, g))
      /\ \A l \in view[o] : OwnEndpoint(o, Seen(o, l))
  BY WantedEndpoint, SeenEndpoint DEF Desired, Listed
<1>3. IsFiniteSet(new) /\ IsFiniteSet(old) /\ IsFiniteSet(P)
  <2>1. IsFiniteSet(view[o] \X goal[o]) /\ IsFiniteSet(goal[o]) /\ IsFiniteSet(view[o])
    BY FS_Product DEF Desired, Listed
  <2>2. new \in SUBSET goal[o] /\ old \in SUBSET view[o] /\ P \in SUBSET (view[o] \X goal[o])
    OBVIOUS
  <2> HIDE DEF new, old, P
  <2> QED BY <2>1, <2>2, FS_Subset
<1>4. OwnEndpoints(o, q.create)
  <2> DEFINE f == [g \in new |-> EndpointFor(o, g)]
             S == {f[g] : g \in new}
  <2>1. S = {EndpointFor(o, g) : g \in new} /\ \A e \in S : OwnEndpoint(o, e)
    BY <1>2
  <2>2. IsFiniteSet(S)
    <3> HIDE DEF f, new
    <3> QED BY <1>3, ImageFinite
  <2> HIDE DEF S
  <2>3. OwnEndpoints(o, SetToSeq(S))
    BY <2>1, <2>2, ListedEndpoints
  <2> HIDE DEF q, new
  <2> QED BY <1>1, <2>1, <2>3
<1>5. OwnEndpoints(o, q.delete)
  <2> DEFINE f == [l \in old |-> Seen(o, l)]
             S == {f[l] : l \in old}
  <2>1. S = {Seen(o, l) : l \in old} /\ \A e \in S : OwnEndpoint(o, e)
    BY <1>2
  <2>2. IsFiniteSet(S)
    <3> HIDE DEF f, old
    <3> QED BY <1>3, ImageFinite
  <2> HIDE DEF S
  <2>3. OwnEndpoints(o, SetToSeq(S))
    BY <2>1, <2>2, ListedEndpoints
  <2> HIDE DEF q, old
  <2> QED BY <1>1, <2>1, <2>3
<1>6. PICK n \in Nat : pairs \in [1..n -> P]
  <2> HIDE DEF P
  <2> QED BY <1>3, SetToSeqLists DEF Surjection
<1>7. \A i \in 1..n : /\ pairs[i][1] \in view[o] /\ pairs[i][2] \in goal[o]
                      /\ SameKey(pairs[i][1], pairs[i][2])
  <2>1. \A p \in P : p[1] \in view[o] /\ p[2] \in goal[o] /\ SameKey(p[1], p[2])
    OBVIOUS
  <2> HIDE DEF P, pairs
  <2> QED BY <1>6, <2>1
<1>8. DOMAIN pairs = 1..n
  <2> HIDE DEF P, pairs
  <2> QED BY <1>6
<1> HIDE DEF q, P, pairs, new, old
<1>9. OwnEndpoints(o, q.updateOld) /\ Len(q.updateOld) = n
  <2> DEFINE S == {Seen(o, l) : l \in view[o]}
  <2>1. q.updateOld \in [1..n -> S] /\ \A e \in S : OwnEndpoint(o, e)
    BY <1>1, <1>2, <1>7, <1>8
  <2> HIDE DEF S
  <2> QED BY <2>1, EndpointSequence
<1>10. OwnEndpoints(o, q.updateNew) /\ Len(q.updateNew) = n
  <2> DEFINE S == {EndpointFor(o, g) : g \in goal[o]}
  <2>1. q.updateNew \in [1..n -> S] /\ \A e \in S : OwnEndpoint(o, e)
    BY <1>1, <1>2, <1>7, <1>8
  <2> HIDE DEF S
  <2> QED BY <2>1, EndpointSequence
<1>11. UpdatePairs(q) = 1..n
  BY <1>9, <1>10 DEF UpdatePairs, PairCount
<1>12. ASSUME NEW i \in 1..n
       PROVE  /\ normalizeName(q.updateOld[i].dnsName) = normalizeName(q.updateNew[i].dnsName)
              /\ q.updateOld[i].type = q.updateNew[i].type
              /\ endpointToRecords(q.updateNew[i]) # {} => endpointToRecords(q.updateOld[i]) # {}
  <2>1. PICK l \in view[o] : l = pairs[i][1]
    BY <1>7
  <2>2. PICK g \in goal[o] : g = pairs[i][2]
    BY <1>7
  <2>3. l.name = g.name /\ l.type = g.type
    BY <1>7, <2>1, <2>2 DEF SameKey
  <2>4. q.updateOld[i] = Seen(o, l) /\ q.updateNew[i] = EndpointFor(o, g)
    BY <1>1, <1>8, <2>1, <2>2
  <2>5. /\ Seen(o, l).type = l.type /\ normalizeName(Seen(o, l).dnsName) = l.name
        /\ l.type \in DataTypes => endpointToRecords(Seen(o, l)) # {}
    BY SeenEndpoint DEF Listed
  <2>6. EndpointFor(o, g).type = g.type /\ normalizeName(EndpointFor(o, g).dnsName) = g.name
    BY WantedEndpoint DEF Desired
  <2>7. endpointToRecords(EndpointFor(o, g)) # {} => g.type \in DataTypes
    BY <2>6 DEF endpointToRecords
  <2> QED BY <2>3, <2>4, <2>5, <2>6, <2>7
<1>13. \A e \in EndpointsOf(q) : OwnEndpoint(o, e)
  BY <1>4, <1>5, <1>9, <1>10 DEF EndpointsOf, OwnEndpoints
<1>14. WellFormed(q)
  <2>1. \A e \in EndpointsOf(q) : e.owner \in {q.owner, NoOwner} /\ normalizeName(e.dnsName) \in Names
    BY <1>1, <1>13 DEF OwnEndpoint
  <2>2. /\ {Len(q.create), Len(q.updateOld), Len(q.updateNew), Len(q.delete)} \subseteq Nat
        /\ DOMAIN q.create = 1..Len(q.create) /\ DOMAIN q.delete = 1..Len(q.delete)
        /\ DOMAIN q.updateOld = 1..Len(q.updateOld) /\ DOMAIN q.updateNew = 1..Len(q.updateNew)
    BY <1>4, <1>5, <1>9, <1>10 DEF OwnEndpoints
  <2> QED BY <1>11, <1>12, <2>1, <2>2 DEF WellFormed, EndpointsOf
<1>15. Solid(Produces(q))
  BY <1>13, <1>14, PayloadSolid DEF OwnEndpoint
<1> QED BY <1>1, <1>14, <1>15 DEF Payload, q

-----------------------------------------------------------------------------
(* The sidecar with its operators *)

\* What a goroutine holds is finite.
LocalSolid(l, q, cs) ==
    /\ Solid(l.got) /\ Named(l.got) /\ Listed(l.out)
    /\ Solid(Produces(q)) /\ Solid(Written(cs))

\* And so are the zones and what is still on its way to them.
SolidInv ==
    /\ \A z \in Zones : Solid(rrs[z])
    /\ \A cs \in late : Solid(Written(cs))
    /\ \A t \in Threads : LocalSolid(th[t], req[t], sending[t])

\* Every operator wants something it may want and remembers an answer.
OperatorsInv ==
    /\ DOMAIN goal = Owners /\ DOMAIN view = Owners
    /\ \A o \in Owners : goal[o] \in Goals[o] /\ Listed(view[o])

\* An idle goroutine holds nothing.
LEMMA FreshSolid ==
    /\ Listed({}) /\ Solid(Written(NoChangeSet)) /\ LocalSolid(Fresh, NoRequest, NoChangeSet)
<1>1. Listed({})
  BY FS_EmptySet DEF Listed
<1>2. Written(NoChangeSet) = {} /\ Produces(NoRequest) = {}
  BY DEF Written, NoChangeSet, Produces, EndpointsOf, NoRequest
<1>3. Fresh.got = {} /\ Fresh.out = {}
  BY DEF Fresh
<1> QED BY <1>1, <1>2, <1>3, NothingSolid DEF LocalSolid

\* A DC that processes a finite UPDATE keeps the zones finite.
LEMMA ProcessSolid ==
    ASSUME OwnershipInv, \A z \in Zones : Solid(rrs[z]), NEW cs, Solid(Written(cs)), Process(cs)
    PROVE  \A z \in Zones : Solid(rrs'[z])
<1>1. \A z \in Zones : rrs'[z] = IF z = cs.zone THEN ServerApply(rrs[z], cs.changes) ELSE rrs[z]
  BY DEF Process, OwnershipInv, ZonesWellFormed
<1> QED BY <1>1, ApplySolid

\* A goroutine's own step.
LEMMA GoroutineSolid ==
    ASSUME OwnershipInv, RequestInv, SolidInv, NEW t \in Threads,
           \/ BeginList(t) \/ Step(t)
           \/ \E q : Payload(q) /\ Solid(Produces(q)) /\ BeginApply(t, q)
    PROVE  SolidInv'
<1> DEFINE l == th[t]
           m == th'[t]
<1>1. Acts(t)
  BY DEF Acts, Begin
<1>2. OnlyMoves(t) /\ Shape
  BY <1>1, GoroutineMoves DEF RequestInv, Moved
<1>3. LocalTypes(pc[t], l, req[t], sending[t]) /\ LocalSolid(l, req[t], sending[t])
  BY DEF RequestInv, LocalsInv, LocalInv, SolidInv
<1>4. (\A z \in Zones : Solid(rrs'[z])) /\ \A cs \in late' : Solid(Written(cs))
  <2>1. CASE UNCHANGED server
    BY <2>1 DEF SolidInv, server
  <2>2. CASE UpdateCall(t)
    <3>1. late' \subseteq late \cup {sending[t]} /\ (UNCHANGED <<rrs, actor>> \/ Process(sending[t]))
      BY <2>2 DEF UpdateCall
    <3>2. Solid(Written(sending[t]))
      BY <1>3 DEF LocalSolid
    <3> QED BY <3>1, <3>2, ProcessSolid DEF SolidInv
  <2> QED
    BY <2>1, <2>2
    DEF Step, ListStep, ApplyStep, ProbeHost, BeginList, ListLock, ListNoDC, ListZone, AxfrCall,
        AxfrZoneFailed, ListPin, ListStore, ListCharge, ListUnlock, BeginApply, ApplyBuild, ApplyDone,
        ZoneLock, ApplyNoDC, ApplyOrder, ApplyGiveUp, UpdateOK, UpdateCredit, UpdateFailed,
        UpdateFailover, Return
<1>5. LocalSolid(m, req'[t], sending'[t])
  <2>1. CASE AxfrCall(t)
    <3>1. /\ req'[t] = req[t] /\ sending'[t] = sending[t] /\ m.out = l.out
          /\ m.got \in {l.got, AxfrRecords(rrs[ZoneList[l.zi]])} /\ pc[t] = "axfr"
      BY <1>2, <2>1 DEF AxfrCall, Shape, Fields, work
    <3>2. ZoneList[l.zi] \in Zones
      BY <1>3, <3>1 DEF LocalTypes, Zones
    <3>3. Solid(rrs[ZoneList[l.zi]]) /\ Named(rrs[ZoneList[l.zi]])
      BY <3>2 DEF SolidInv, OwnershipInv, ZonesWellFormed, Named
    <3>4. Solid(AxfrRecords(rrs[ZoneList[l.zi]])) /\ Named(AxfrRecords(rrs[ZoneList[l.zi]]))
      <4>1. AxfrRecords(rrs[ZoneList[l.zi]]) \subseteq rrs[ZoneList[l.zi]]
        BY DEF AxfrRecords
      <4> QED BY <3>3, <4>1, SolidPart DEF Named
    <3> QED BY <1>3, <3>1, <3>4 DEF LocalSolid
  <2>2. CASE ListStore(t)
    <3>1. /\ req'[t] = req[t] /\ sending'[t] = sending[t] /\ m.got = {}
          /\ m.out = l.out \cup endpointsFromRecords(l.got)
      BY <1>2, <2>2 DEF ListStore, Shape, Fields, work
    <3>2. Listed(l.out) /\ Listed(endpointsFromRecords(l.got))
      BY <1>3, ListedFrom DEF LocalSolid
    <3>3. Listed(m.out)
      <4>1. IsFiniteSet(m.out)
        BY <3>1, <3>2, FS_Union DEF Listed
      <4> QED BY <3>1, <3>2, <4>1 DEF Listed
    <3> QED BY <1>3, <3>1, <3>3, NothingSolid DEF LocalSolid
  <2>3. CASE ApplyBuild(t)
    <3>1. PICK z \in l.todo :
            /\ req'[t] = req[t] /\ m.got = l.got /\ m.out = l.out /\ pc[t] = "apply"
            /\ sending'[t] \in {sending[t], buildZoneChangeSet(z, cache[z], req[t])}
      BY <1>2, <2>3 DEF ApplyBuild, Shape, Fields
    <3>2. Written(buildZoneChangeSet(z, cache[z], req[t])) \subseteq Produces(req[t])
      BY <1>3, <3>1, BuildWrites DEF LocalTypes, Payload
    <3>3. Solid(Written(buildZoneChangeSet(z, cache[z], req[t])))
      BY <1>3, <3>2, SolidPart DEF LocalSolid
    <3> QED BY <1>3, <3>1, <3>3 DEF LocalSolid
  <2>4. CASE ApplyNoDC(t) \/ ApplyGiveUp(t) \/ UpdateCredit(t) \/ UpdateFailed(t)
    <3>1. req'[t] = req[t] /\ sending'[t] = NoChangeSet /\ m.got = {} /\ m.out = {}
      BY <1>2, <2>4, ZenonT(40)
      DEF ApplyNoDC, ApplyGiveUp, UpdateCredit, UpdateFailed, ZoneReturn, Shape, Fresh
    <3> QED BY <1>3, <3>1, FreshSolid, NothingSolid DEF LocalSolid
  <2>5. CASE Return(t)
    <3>1. req'[t] = NoRequest /\ sending'[t] = sending[t] /\ m = Fresh
      BY <1>2, <2>5 DEF Return, Shape
    <3> QED BY <1>3, <3>1, FreshSolid DEF LocalSolid
  <2>6. ASSUME NEW q, Solid(Produces(q)), BeginApply(t, q) PROVE LocalSolid(m, req'[t], sending'[t])
    <3>1. req'[t] = q /\ sending'[t] = sending[t] /\ m.got = l.got /\ m.out = l.out
      BY <1>2, <2>6 DEF BeginApply, Shape, Fields
    <3> QED BY <1>3, <2>6, <3>1 DEF LocalSolid
  <2>7. CASE UNCHANGED work /\ m.got = l.got /\ m.out = l.out
    BY <1>3, <2>7 DEF LocalSolid, work
  <2>8. CASE BeginList(t) \/ ListLock(t) \/ ListUnlock(t) \/ ApplyDone(t) \/ ZoneLock(t) \/ UpdateOK(t)
    BY <2>7, <2>8 DEF BeginList, ListLock, ListUnlock, ApplyDone, ZoneLock, UpdateOK
  <2>9. CASE ProbeHost(t) \/ ListNoDC(t) \/ ListZone(t) \/ AxfrZoneFailed(t) \/ ListPin(t) \/ ListCharge(t)
    BY <1>2, <2>7, <2>9
    DEF ProbeHost, ListNoDC, ListZone, AxfrZoneFailed, ListPin, ListCharge, Shape, Fields
  <2>10. CASE ApplyOrder(t) \/ UpdateFailover(t)
    BY <1>2, <2>7, <2>10 DEF ApplyOrder, UpdateFailover, Shape, Fields
  <2>11. CASE UpdateCall(t)
    <3>1. UNCHANGED work
      BY <2>11 DEF UpdateCall
    <3>2. PICK x : th' = [th EXCEPT ![t].res = x.res,
                                    ![t].owed = IF x.effect = "applied" THEN @ \ {Zone(t)} ELSE @]
      BY <2>11 DEF UpdateCall
    <3>3. m.got = l.got /\ m.out = l.out
      BY <1>2, <3>2 DEF Shape, Fields
    <3> QED BY <2>7, <3>1, <3>3
  <2> QED
    BY <2>1, <2>2, <2>3, <2>4, <2>5, <2>6, <2>8, <2>9, <2>10, <2>11
    DEF Step, ListStep, ApplyStep
<1>6. ASSUME NEW s \in Threads PROVE LocalSolid(th'[s], req'[s], sending'[s])
  <2>1. CASE s = t
    BY <1>5, <2>1
  <2>2. CASE s # t
    BY <1>2, <2>2 DEF OnlyMoves, SolidInv
  <2> QED BY <2>1, <2>2
<1> QED BY <1>4, <1>6 DEF SolidInv

\* What holds of the sidecar and its operators together.
ReconcileInv == OwnershipInv /\ RequestInv /\ SolidInv /\ OperatorsInv

\* It holds when the sidecar and its operators start.
LEMMA ReconcileStart == ReconcileInit => ReconcileInv
<1> SUFFICES ASSUME ReconcileInit PROVE ReconcileInv
  OBVIOUS
<1>1. Init
  BY DEF ReconcileInit
<1>2. SolidInv
  <2>1. \A z \in Zones : Solid(rrs[z])
    BY <1>1, GoalAssumption DEF Init, Solid
  <2> QED BY <1>1, <2>1, FreshSolid DEF Init, SolidInv
<1>3. OperatorsInv
  BY FreshSolid DEF ReconcileInit, OperatorsInv
<1> QED BY <1>1, <1>2, <1>3, InitInv, RequestInvStart DEF ReconcileInv

\* Whatever operators and sidecar do is a step of the sidecar for well-formed
\* requests, and keeps everything finite.
LEMMA ReconcileStep ==
    ASSUME ReconcileInv, [ReconcileNext]_reconcileVars
    PROVE  OpenNext /\ SolidInv' /\ OperatorsInv'
<1>1. Threads = Owners
  BY ReconcileAssumption
<1>2. ASSUME NEW o \in Owners PROVE Desired(goal[o])
  BY GoalAssumption DEF ReconcileInv, OperatorsInv, Desired
<1>3. UNCHANGED vars => OpenNext /\ SolidInv'
  BY DEF OpenNext, ReconcileInv, SolidInv, vars, work, server
<1>4. UNCHANGED <<goal, view>> => OperatorsInv'
  BY DEF ReconcileInv, OperatorsInv
<1>5. ASSUME NEW o \in Owners, AskForRecords(o)
      PROVE  OpenNext /\ SolidInv' /\ OperatorsInv'
  <2>1. BeginList(o) /\ UNCHANGED <<goal, view>>
    BY <1>5 DEF AskForRecords
  <2> QED BY <1>1, <1>4, <2>1, GoroutineSolid DEF ReconcileInv, OpenNext, Acts, Begin
<1>6. ASSUME NEW o \in Owners, SendPlan(o)
      PROVE  OpenNext /\ SolidInv' /\ OperatorsInv'
  <2>1. UNCHANGED <<goal, view>> /\ (UNCHANGED vars \/ BeginApply(o, Plan(o)))
    BY <1>6 DEF SendPlan
  <2>2. Payload(Plan(o)) /\ Solid(Produces(Plan(o)))
    BY <1>2, PlanPayload DEF ReconcileInv, OperatorsInv
  <2>3. CASE BeginApply(o, Plan(o))
    BY <1>1, <1>4, <2>1, <2>2, <2>3, GoroutineSolid DEF ReconcileInv, OpenNext, Acts, Begin
  <2> QED BY <1>3, <1>4, <2>1, <2>3
<1>7. ASSUME NEW o \in Owners, Serve(o)
      PROVE  OpenNext /\ SolidInv' /\ OperatorsInv'
  <2>1. Step(o) /\ Answer(o) /\ UNCHANGED goal
    BY <1>7 DEF Serve
  <2>2. OpenNext /\ SolidInv'
    BY <1>1, <2>1, GoroutineSolid DEF ReconcileInv, OpenNext, Acts
  <2>3. PICK L : Listed(L) /\ (UNCHANGED view \/ view' = [view EXCEPT ![o] = L])
    <3>1. Listed(th[o].out)
      BY <1>1 DEF ReconcileInv, SolidInv, LocalSolid
    <3>2. Listed({l \in th[o].out : l.owner = o})
      <4>1. IsFiniteSet({l \in th[o].out : l.owner = o})
        BY <3>1, FS_Subset DEF Listed
      <4> QED BY <3>1, <4>1 DEF Listed
    <3> QED BY <2>1, <3>2, FreshSolid DEF Answer
  <2>4. OperatorsInv'
    BY <2>1, <2>3 DEF ReconcileInv, OperatorsInv
  <2> QED BY <2>2, <2>4
<1>8. ASSUME NEW o \in Owners, ChangeMind(o)
      PROVE  OpenNext /\ SolidInv' /\ OperatorsInv'
  <2>1. UNCHANGED vars /\ UNCHANGED view /\ \E G \in Goals[o] : goal' = [goal EXCEPT ![o] = G]
    BY <1>8 DEF ChangeMind
  <2>2. OperatorsInv'
    BY <2>1 DEF ReconcileInv, OperatorsInv
  <2> QED BY <1>3, <2>1, <2>2
<1>9. CASE SidecarRestarts
  <2>1. OpenNext
    BY <1>9 DEF SidecarRestarts, OpenNext
  <2>2. SolidInv'
    BY <1>9, FreshSolid DEF SidecarRestarts, Restart, ReconcileInv, SolidInv, server
  <2>3. OperatorsInv'
    BY <1>9, FreshSolid DEF SidecarRestarts, ReconcileInv, OperatorsInv
  <2> QED BY <2>1, <2>2, <2>3
<1>10. CASE Outside
  <2>1. UNCHANGED <<goal, view>>
    BY <1>10 DEF Outside, operatorVars
  <2>2. CASE LateArrival
    <3>1. PICK cs \in late : /\ late' = late \ {cs} /\ UNCHANGED <<work, th>>
                             /\ UNCHANGED <<rrs, actor>> \/ Process(cs)
      BY <2>2 DEF LateArrival
    <3>2. \A z \in Zones : Solid(rrs'[z])
      BY <3>1, ProcessSolid DEF ReconcileInv, SolidInv
    <3>3. SolidInv'
      BY <3>1, <3>2 DEF ReconcileInv, SolidInv, work
    <3> QED BY <1>4, <2>1, <2>2, <3>3 DEF OpenNext
  <2>3. CASE TimePasses
    <3>1. SolidInv'
      BY <2>3 DEF TimePasses, ReconcileInv, SolidInv, work, server
    <3> QED BY <1>4, <2>1, <2>3, <3>1 DEF OpenNext
  <2> QED BY <1>10, <2>2, <2>3 DEF Outside, CooldownPasses
<1>11. CASE UNCHANGED reconcileVars
  BY <1>3, <1>4, <1>11 DEF reconcileVars, operatorVars
<1> QED BY <1>5, <1>6, <1>7, <1>8, <1>9, <1>10, <1>11 DEF ReconcileNext

\* Every step of operators and sidecar keeps the invariant.
LEMMA ReconcileInvStep == ReconcileInv /\ [ReconcileNext]_reconcileVars => ReconcileInv'
BY ReconcileStep, NextStep, RequestInvStep DEF ReconcileInv

\* The assumption on requests is what operators really do: a plan made from an
\* answer of GET /records, however stale, is a request of the operator's own
\* label, well formed, with a record to delete in every update.
PlansWellFormed == \A o \in Owners : cycle[o] = "plan" => Payload(Plan(o))

\* Every plan of every operator is a request the other theorems are about, so
\* ApplyChanges never sees one they leave out.
THEOREM PlansWellFormedHolds == ReconcileSpec => []PlansWellFormed
<1>1. ReconcileInv => PlansWellFormed
  <2> SUFFICES ASSUME ReconcileInv, NEW o \in Owners PROVE Payload(Plan(o))
    BY DEF PlansWellFormed
  <2>1. Desired(goal[o]) /\ Listed(view[o])
    BY GoalAssumption DEF ReconcileInv, OperatorsInv, Desired
  <2> QED BY <2>1, PlanPayload
<1> QED BY <1>1, ReconcileStart, ReconcileInvStep, PTL DEF ReconcileSpec

\* With operators that poll and plan, whatever they want and however often they
\* change their minds: one label per marker, mutexes held exactly where they
\* protect something, and 204 only for what a DC applied.
THEOREM OperatorsSafe == ReconcileSpec => [](SingleOwner /\ LocksHeldExactly /\ AckedMeansApplied)
<1>1. ReconcileInv => SingleOwner /\ LocksHeldExactly /\ AckedMeansApplied
  BY DEF ReconcileInv, OwnershipInv, ZonesWellFormed, RequestInv, LocalsInv, LocalInv, Acked,
         AckedMeansApplied
<1> QED BY <1>1, ReconcileStart, ReconcileInvStep, PTL DEF ReconcileSpec

\* No operator's plan changes a record marked as another operator's.
THEOREM OperatorsKeepApart == ReconcileSpec => ForeignWritesRejected
<1>1. ReconcileInv /\ [ReconcileNext]_reconcileVars => [OnlyOwnerWrites]_vars
  BY ReconcileStep, NextStep DEF ReconcileInv
<1> QED BY <1>1, ReconcileStart, ReconcileInvStep, PTL DEF ReconcileSpec, ForeignWritesRejected

\* The sidecar with its operators implements the registry.
THEOREM OperatorsUseRegistry == ReconcileSpec => ImplementsRegistry
<1>1. ReconcileInit => Contract!RegistryInit
  BY RegistryStart DEF ReconcileInit
<1>2. ReconcileInv /\ [ReconcileNext]_reconcileVars => [Contract!RegistryNext]_RegistryState
  BY ReconcileStep, RegistryStep DEF ReconcileInv
<1> QED
  BY <1>1, <1>2, ReconcileStart, ReconcileInvStep, PTL
  DEF ReconcileSpec, ImplementsRegistry, Contract!RegistrySpec, RegistryState
=============================================================================
