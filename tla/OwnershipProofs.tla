-------------------------- MODULE OwnershipProofs --------------------------
(***************************************************************************)
(* Facts about the ownership bridge for every name, record, request and    *)
(* zone content: markers can be read back, a DC changes only what an       *)
(* UPDATE names, and every change set buildZoneChangeSet makes is guarded  *)
(* by prerequisites.                                                       *)
(***************************************************************************)
EXTENDS Ownership, SequenceTheorems, TLAPS

Labels == Seq(Words)

\* Putting a label in front of a sequence of labels.
LEMMA ConsProperties ==
    ASSUME NEW l \in Labels, NEW s \in Seq(Labels)
    PROVE  /\ <<l>> \o s \in Seq(Labels) \ {<<>>}
           /\ Len(<<l>> \o s) = Len(s) + 1
           /\ Head(<<l>> \o s) = l
           /\ Tail(<<l>> \o s) = s
<1>1. <<l>> \in Seq(Labels) /\ Len(<<l>>) = 1
  OBVIOUS
<1>2. /\ <<l>> \o s \in Seq(Labels)
      /\ Len(<<l>> \o s) = 1 + Len(s)
      /\ \A i \in 1..(1 + Len(s)) :
            (<<l>> \o s)[i] = IF i <= 1 THEN <<l>>[i] ELSE s[i - 1]
  BY <1>1, ConcatProperties
<1>3. Len(s) \in Nat
  BY LenProperties
<1>4. <<l>> \o s # <<>>
  BY <1>2, <1>3, EmptySeq
<1>5. Head(<<l>> \o s) = l
  BY <1>2, <1>3, <1>4
<1>6. /\ Tail(<<l>> \o s) \in Seq(Labels)
      /\ Len(Tail(<<l>> \o s)) = Len(s)
      /\ \A i \in 1..Len(s) : Tail(<<l>> \o s)[i] = s[i]
  <2>1. /\ Tail(<<l>> \o s) \in Seq(Labels)
        /\ Len(Tail(<<l>> \o s)) = Len(<<l>> \o s) - 1
        /\ \A i \in 1..Len(Tail(<<l>> \o s)) : Tail(<<l>> \o s)[i] = (<<l>> \o s)[i + 1]
    BY <1>2, <1>4, HeadTailProperties
  <2> QED BY <1>2, <1>3, <2>1
<1>7. Tail(<<l>> \o s) = s
  BY <1>6, SeqEqual
<1> QED BY <1>2, <1>3, <1>4, <1>5, <1>7

\* A sequence is its head in front of its tail.
LEMMA HeadConsTail ==
    ASSUME NEW n \in Names
    PROVE  /\ Head(n) \in Labels /\ Tail(n) \in Seq(Labels)
           /\ Len(Tail(n)) = Len(n) - 1 /\ Len(n) \in Nat
           /\ <<Head(n)>> \o Tail(n) = n
<1>1. n \in Seq(Labels) /\ n # <<>>
  BY DEF Names, Labels
<1>2. /\ Head(n) \in Labels /\ Tail(n) \in Seq(Labels) /\ Len(Tail(n)) = Len(n) - 1
      /\ \A i \in 1..Len(Tail(n)) : Tail(n)[i] = n[i + 1]
  BY <1>1, HeadTailProperties
<1>3. Len(n) \in Nat /\ Len(n) # 0
  BY <1>1, LenProperties, EmptySeq
<1>4. /\ <<Head(n)>> \in Seq(Labels) /\ Len(<<Head(n)>>) = 1
  BY <1>2
<1>5. /\ <<Head(n)>> \o Tail(n) \in Seq(Labels)
      /\ Len(<<Head(n)>> \o Tail(n)) = 1 + Len(Tail(n))
      /\ \A i \in 1..(1 + Len(Tail(n))) : (<<Head(n)>> \o Tail(n))[i] =
              IF i <= 1 THEN <<Head(n)>>[i] ELSE Tail(n)[i - 1]
  BY <1>2, <1>4, ConcatProperties
<1>6. Head(n) = n[1]
  BY <1>1
<1>7. \A i \in 1..Len(n) : (<<Head(n)>> \o Tail(n))[i] = n[i]
  BY <1>2, <1>3, <1>5, <1>6
<1>8. <<Head(n)>> \o Tail(n) = n
  BY <1>1, <1>2, <1>3, <1>5, <1>7, SeqEqual
<1> QED BY <1>2, <1>3, <1>8

\* decodeOwnershipName inverts ownershipNameFor, wildcards included: the
\* marker of a data record determines the record's name and type.
THEOREM MarkerReadsBack ==
    ASSUME NEW type \in Words, NEW name \in Names
    PROVE  /\ ownershipNameFor(type, name) \in Names
           /\ IsMarkerName(ownershipNameFor(type, name))
           /\ decodeOwnershipName(ownershipNameFor(type, name)) = [name |-> name, type |-> type]
<1> DEFINE plain == <<"ddo", type>>
           wild == <<"ddo", type, "wildcard">>
<1>1. /\ plain \in Labels /\ Len(plain) = 2 /\ plain[1] = "ddo" /\ plain[2] = type
      /\ wild \in Labels /\ Len(wild) = 3 /\ wild[1] = "ddo" /\ wild[2] = type
      /\ wild[3] = "wildcard"
  <2>1. type \in Words /\ "ddo" \in Words /\ "wildcard" \in Words
    BY ConfigAssumption
  <2>2. plain \in Seq(Words) /\ Len(plain) = 2 /\ plain[1] = "ddo" /\ plain[2] = type
    BY <2>1
  <2>3. wild \in Seq(Words) /\ Len(wild) = 3 /\ wild[1] = "ddo" /\ wild[2] = type
        /\ wild[3] = "wildcard"
    BY <2>1
  <2> QED BY <2>2, <2>3 DEF Labels
<1>2. name \in Seq(Labels) /\ Len(name) \in Nat /\ Len(name) >= 1
  BY LenProperties, EmptySeq DEF Names, Labels
<1>3. CASE Len(name) > 1 /\ Head(name) = Star
  <2>1. /\ Tail(name) \in Seq(Labels) /\ Len(Tail(name)) = Len(name) - 1
        /\ <<Star>> \o Tail(name) = name
    BY <1>3, HeadConsTail
  <2>2. ownershipNameFor(type, name) = <<wild>> \o Tail(name)
    BY <1>3 DEF ownershipNameFor
  <2> HIDE DEF wild, plain
  <2>3. /\ <<wild>> \o Tail(name) \in Names
        /\ Len(<<wild>> \o Tail(name)) > 1
        /\ Head(<<wild>> \o Tail(name)) = wild
        /\ Tail(<<wild>> \o Tail(name)) = Tail(name)
    BY SMTT(20), <1>1, <1>2, <1>3, <2>1, ConsProperties DEF Names, Labels
  <2> DEFINE m == ownershipNameFor(type, name)
  <2>4. m \in Names /\ Len(m) > 1 /\ Head(m) = wild /\ <<Star>> \o Tail(m) = name
    BY <2>1, <2>2, <2>3
  <2> HIDE DEF m
  <2>5. Len(Head(m)) = 3 /\ Head(m)[1] = "ddo" /\ Head(m)[2] = type /\ Head(m)[3] = "wildcard"
    BY <1>1, <2>4, Zenon
  <2>6. IsMarkerName(m)
    BY <2>4, <2>5 DEF IsMarkerName
  <2>7. decodeOwnershipName(m) = [name |-> name, type |-> type]
    BY <2>4, <2>5, Zenon DEF decodeOwnershipName
  <2> QED BY <2>4, <2>6, <2>7 DEF m
<1>4. CASE ~(Len(name) > 1 /\ Head(name) = Star)
  <2>1. ownershipNameFor(type, name) = <<plain>> \o name
    BY <1>4 DEF ownershipNameFor
  <2> HIDE DEF wild, plain
  <2>2. /\ <<plain>> \o name \in Names
        /\ Len(<<plain>> \o name) > 1
        /\ Head(<<plain>> \o name) = plain
        /\ Tail(<<plain>> \o name) = name
    BY SMTT(20), <1>1, <1>2, ConsProperties DEF Names, Labels
  <2> DEFINE m == ownershipNameFor(type, name)
  <2>3. m \in Names /\ Len(m) > 1 /\ Head(m) = plain /\ Tail(m) = name
    BY <2>1, <2>2
  <2> HIDE DEF m
  <2>4. Len(Head(m)) = 2 /\ Head(m)[1] = "ddo" /\ Head(m)[2] = type
    BY <1>1, <2>3, Zenon
  <2>5. Len(Head(m)) # 3
    BY <2>4
  <2>7. IsMarkerName(m)
    BY <2>3, <2>4 DEF IsMarkerName
  <2>6. decodeOwnershipName(m) = [name |-> name, type |-> type]
    BY <2>3, <2>4, <2>5, Zenon DEF decodeOwnershipName
  <2> QED BY <2>3, <2>6, <2>7 DEF m
<1> QED BY <1>3, <1>4

-----------------------------------------------------------------------------
(* What a DC does with an UPDATE *)

\* An RRset that no block of the UPDATE names stays as it is.
LEMMA ServerFrame ==
    ASSUME NEW R, NEW changes, NEW name, NEW type,
           \A i \in DOMAIN changes : RRset(changes[i].recs, name, type) = {}
    PROVE  RRset(ServerApply(R, changes), name, type) = RRset(R, name, type)
<1>1. ASSUME NEW r, r.name = name, r.type = type, NEW i \in DOMAIN changes
      PROVE  ~Affects(R, changes, i, r)
  <2>1. r \notin changes[i].recs
    BY <1>1 DEF RRset
  <2>2. r.type = "CNAME" => RRset(changes[i].recs, r.name, "CNAME") = {}
    BY <1>1
  <2> QED BY <2>1, <2>2 DEF Affects
<1>2. ASSUME NEW r, r.name = name, r.type = type
      PROVE  r \in ServerApply(R, changes) <=> r \in R
  <2>1. {i \in DOMAIN changes : Affects(R, changes, i, r)} = {}
    BY <1>1, <1>2
  <2> QED BY <2>1 DEF ServerApply
<1> QED BY <1>2 DEF RRset

\* What the zone holds afterwards was there before or was added.
LEMMA AddedOrKept ==
    ASSUME NEW R, NEW changes, NEW r \in ServerApply(R, changes)
    PROVE  r \in R \/ \E i \in DOMAIN changes : changes[i].op = "add" /\ r \in changes[i].recs
<1> DEFINE affecting == {i \in DOMAIN changes : Affects(R, changes, i, r)}
<1>1. CASE affecting = {}
  BY <1>1 DEF ServerApply
<1>2. CASE affecting # {}
  <2>1. \E i \in affecting : changes[i].op = "add" /\ r \in changes[i].recs
    BY <1>2 DEF ServerApply
  <2> QED BY <2>1
<1> QED BY <1>1, <1>2

-----------------------------------------------------------------------------
(* Guarded change sets *)

\* The name and type of the data record that r is, or is the marker of.
KeyOf(r) ==
    IF r.type = "TXT" THEN decodeOwnershipName(r.name) ELSE [name |-> r.name, type |-> r.type]

\* The prerequisites demand that the record is not there, or is the sender's.
KeyGuarded(cs, name, type) ==
    \/ NXRRSET(name, type) \in cs.prereqs
    \/ YXRRSET(ownershipNameFor(type, name), cs.owner) \in cs.prereqs

\* The record belongs to a guarded key.
RecordGuarded(cs, r) ==
    /\ r.name \in Names
    /\ KeyOf(r).name \in Names /\ KeyOf(r).type \in DataTypes
    /\ KeyGuarded(cs, KeyOf(r).name, KeyOf(r).type)

\* A marker is only added where there is none, with the sender's label.
MarkerGuarded(cs, r) ==
    r.type = "TXT" => r.value = encodeOwnership(cs.owner) /\ NXRRSET(r.name, "TXT") \in cs.prereqs

Guarded(cs) ==
    \A i \in DOMAIN cs.changes : \A r \in cs.changes[i].recs :
        RecordGuarded(cs, r) /\ (cs.changes[i].op = "add" => MarkerGuarded(cs, r))

\* The records of an endpoint: of its name and type, and never a TXT.
LEMMA EndpointRecords ==
    ASSUME NEW e, NEW r \in endpointToRecords(e)
    PROVE  /\ r.name = normalizeName(e.dnsName) /\ r.type = e.type
           /\ e.type \in DataTypes /\ r.type # "TXT"
           /\ KeyOf(r) = [name |-> normalizeName(e.dnsName), type |-> e.type]
<1>1. r.name = normalizeName(e.dnsName) /\ r.type = e.type /\ e.type \in DataTypes
  BY DEF endpointToRecords
<1>2. r.type # "TXT"
  BY <1>1 DEF DataTypes
<1> QED BY <1>1, <1>2 DEF KeyOf

\* The marker of an endpoint belongs to the endpoint's name and type.
LEMMA EndpointMarker ==
    ASSUME NEW e, e.type \in DataTypes, normalizeName(e.dnsName) \in Names
    PROVE  /\ MarkerRecord(e).name = MarkerOf(e) /\ MarkerRecord(e).type = "TXT"
           /\ MarkerRecord(e).value = encodeOwnership(e.owner)
           /\ MarkerOf(e) \in Names
           /\ KeyOf(MarkerRecord(e)) = [name |-> normalizeName(e.dnsName), type |-> e.type]
<1>1. /\ MarkerRecord(e).name = MarkerOf(e) /\ MarkerRecord(e).type = "TXT"
      /\ MarkerRecord(e).value = encodeOwnership(e.owner)
  BY DEF MarkerRecord
<1>2. /\ MarkerOf(e) \in Names
      /\ decodeOwnershipName(MarkerOf(e)) = [name |-> normalizeName(e.dnsName), type |-> e.type]
  BY MarkerReadsBack, ConfigAssumption DEF MarkerOf
<1> QED BY <1>1, <1>2 DEF KeyOf

\* Every block a create contributes is guarded by the prerequisites it
\* contributes.
LEMMA CreateGuarded ==
    ASSUME NEW zone, NEW cached, NEW e, NEW cs,
           normalizeName(e.dnsName) \in Names, e.owner \in {cs.owner, NoOwner},
           CreatePrereqs(zone, cached, e) \subseteq cs.prereqs,
           NEW r \in CreateChange(zone, cached, e).recs
    PROVE  RecordGuarded(cs, r) /\ MarkerGuarded(cs, r)
<1> DEFINE recs == CreateRecords(zone, cached, e)
           n == normalizeName(e.dnsName)
<1>1. recs # {} /\ recs \subseteq endpointToRecords(e) /\ e.owner = cs.owner
  <2>1. recs # {}
    BY DEF CreateChange, Add
  <2> QED BY <2>1 DEF CreateRecords, HasOwner
<1>2. e.type \in DataTypes /\ NXRRSET(n, e.type) \in cs.prereqs
  <2>1. e.type \in DataTypes
    BY <1>1, EndpointRecords
  <2> QED BY <1>1, <2>1 DEF CreatePrereqs
<1>3. CASE r \in recs
  <2>1. r.name = n /\ r.type # "TXT" /\ KeyOf(r) = [name |-> n, type |-> e.type]
    BY <1>1, <1>3, EndpointRecords
  <2> QED BY <1>2, <2>1 DEF RecordGuarded, MarkerGuarded, KeyGuarded
<1>4. CASE r \notin recs
  <2>1. r = MarkerRecord(e) /\ ~IsOrphan(cached, e)
    BY <1>4 DEF CreateChange, Add
  <2>2. NXRRSET(MarkerOf(e), "TXT") \in cs.prereqs
    BY <1>1, <2>1 DEF CreatePrereqs
  <2>3. /\ r.name = MarkerOf(e) /\ r.type = "TXT" /\ r.value = encodeOwnership(cs.owner)
        /\ MarkerOf(e) \in Names
        /\ KeyOf(r) = [name |-> n, type |-> e.type]
    BY <1>1, <1>2, <2>1, EndpointMarker
  <2> QED BY <1>2, <2>2, <2>3 DEF RecordGuarded, MarkerGuarded, KeyGuarded
<1> QED BY <1>3, <1>4

\* The same for a delete, ...
LEMMA DeleteGuarded ==
    ASSUME NEW zone, NEW e, NEW cs,
           normalizeName(e.dnsName) \in Names, e.owner \in {cs.owner, NoOwner},
           OwnerPrereqs(zone, e, e) \subseteq cs.prereqs,
           NEW r \in DeleteChange(zone, e).recs
    PROVE  RecordGuarded(cs, r)
<1> DEFINE recs == OwnedRecords(zone, e, e)
           n == normalizeName(e.dnsName)
<1>1. recs # {} /\ recs \subseteq endpointToRecords(e) /\ e.owner = cs.owner
  <2>1. recs # {}
    BY DEF DeleteChange, Delete
  <2> QED BY <2>1 DEF OwnedRecords, HasOwner
<1>2. e.type \in DataTypes /\ YXRRSET(ownershipNameFor(e.type, n), cs.owner) \in cs.prereqs
  <2>1. e.type \in DataTypes
    BY <1>1, EndpointRecords
  <2> QED BY <1>1, <2>1 DEF OwnerPrereqs, MarkerOf
<1>3. CASE r \in recs
  <2>1. r.name = n /\ KeyOf(r) = [name |-> n, type |-> e.type]
    BY <1>1, <1>3, EndpointRecords
  <2> QED BY <1>2, <2>1 DEF RecordGuarded, KeyGuarded
<1>4. CASE r \notin recs
  <2>1. r = MarkerRecord(e)
    BY <1>4 DEF DeleteChange, Delete
  <2>2. r.name \in Names /\ KeyOf(r) = [name |-> n, type |-> e.type]
    BY <1>2, <2>1, EndpointMarker
  <2> QED BY <1>2, <2>2 DEF RecordGuarded, KeyGuarded
<1> QED BY <1>3, <1>4

\* ... and for both blocks of an update.
LEMMA UpdateGuarded ==
    ASSUME NEW zone, NEW old, NEW new, NEW cs,
           normalizeName(old.dnsName) \in Names, old.owner \in {cs.owner, NoOwner},
           normalizeName(new.dnsName) = normalizeName(old.dnsName), new.type = old.type,
           endpointToRecords(new) # {} => endpointToRecords(old) # {},
           OwnerPrereqs(zone, new, old) \subseteq cs.prereqs,
           NEW r \in UpdateDelete(zone, old, new).recs \cup UpdateAdd(zone, old, new).recs
    PROVE  RecordGuarded(cs, r) /\ MarkerGuarded(cs, r)
<1> DEFINE n == normalizeName(old.dnsName)
<1>1. /\ RouteOf(new) = zone /\ HasOwner(old)
      /\ r \in endpointToRecords(old) \cup endpointToRecords(new)
  BY DEF UpdateDelete, UpdateAdd, Delete, Add, OwnedRecords
<1>2. endpointToRecords(old) # {} /\ old.owner = cs.owner
  BY <1>1 DEF HasOwner
<1>3. YXRRSET(ownershipNameFor(old.type, n), cs.owner) \in cs.prereqs
  BY <1>1, <1>2 DEF OwnerPrereqs, OwnedRecords, MarkerOf
<1>4. /\ r.name = n /\ r.type # "TXT" /\ old.type \in DataTypes
      /\ KeyOf(r) = [name |-> n, type |-> old.type]
  BY <1>1, EndpointRecords
<1> QED BY <1>3, <1>4 DEF RecordGuarded, MarkerGuarded, KeyGuarded

\* An element of three concatenated sequences is an element of one of them.
LEMMA ConcatElement ==
    ASSUME NEW S, NEW a \in Seq(S), NEW b \in Seq(S), NEW c \in Seq(S),
           NEW i \in DOMAIN (a \o b \o c)
    PROVE  \/ \E j \in DOMAIN a : (a \o b \o c)[i] = a[j]
           \/ \E j \in DOMAIN b : (a \o b \o c)[i] = b[j]
           \/ \E j \in DOMAIN c : (a \o b \o c)[i] = c[j]
<1> DEFINE ab == a \o b
<1>1. /\ Len(a) \in Nat /\ DOMAIN a = 1..Len(a)
      /\ Len(b) \in Nat /\ DOMAIN b = 1..Len(b)
      /\ Len(c) \in Nat /\ DOMAIN c = 1..Len(c)
  BY LenProperties
<1>0. ab \in Seq(S)
  BY ConcatProperties
<1>2. /\ Len(ab) = Len(a) + Len(b)
      /\ \A k \in 1..(Len(a) + Len(b)) : ab[k] = IF k <= Len(a) THEN a[k] ELSE b[k - Len(a)]
  BY ConcatProperties
<1> HIDE DEF ab
<1>3. /\ ab \o c \in Seq(S) /\ Len(ab \o c) = Len(ab) + Len(c)
      /\ \A k \in 1..(Len(ab) + Len(c)) : (ab \o c)[k] = IF k <= Len(ab) THEN ab[k] ELSE c[k - Len(ab)]
  BY <1>0, ConcatProperties
<1>4. i \in 1..(Len(ab) + Len(c))
  <2>1. DOMAIN (ab \o c) = 1..Len(ab \o c)
    BY <1>3, LenProperties
  <2> QED BY <1>3, <2>1 DEF ab
<1>5. CASE i > Len(ab)
  <2>1. i - Len(ab) \in DOMAIN c /\ (ab \o c)[i] = c[i - Len(ab)]
    BY <1>1, <1>2, <1>3, <1>4, <1>5
  <2> QED BY <2>1 DEF ab
<1>6. CASE i <= Len(a)
  <2>1. i \in DOMAIN a /\ (ab \o c)[i] = a[i]
    BY <1>1, <1>2, <1>3, <1>4, <1>6
  <2> QED BY <2>1 DEF ab
<1>7. CASE i > Len(a) /\ i <= Len(ab)
  <2>1. i - Len(a) \in DOMAIN b /\ (ab \o c)[i] = b[i - Len(a)]
    BY <1>1, <1>2, <1>3, <1>4, <1>7
  <2> QED BY <2>1 DEF ab
<1> QED BY <1>1, <1>2, <1>4, <1>5, <1>6, <1>7

\* A function on an initial segment is a sequence.
LEMMA FunctionIsSeq ==
    ASSUME NEW S, NEW n \in Nat, NEW f \in [1..n -> S]
    PROVE  f \in Seq(S)
OBVIOUS

\* Every block of a change set comes from a create, an update or a delete.
LEMMA ChangeElement ==
    ASSUME NEW zone, NEW cached, NEW q, WellFormed(q),
           NEW i \in DOMAIN buildZoneChangeSet(zone, cached, q).changes, NEW b,
           b = buildZoneChangeSet(zone, cached, q).changes[i]
    PROVE  \/ \E j \in DOMAIN q.create : b = CreateChange(zone, cached, q.create[j])
           \/ \E j \in UpdatePairs(q) : b \in {UpdateDelete(zone, q.updateOld[j], q.updateNew[j]),
                                               UpdateAdd(zone, q.updateOld[j], q.updateNew[j])}
           \/ \E j \in DOMAIN q.delete : b = DeleteChange(zone, q.delete[j])
<1> DEFINE cs == buildZoneChangeSet(zone, cached, q)
           creates == [k \in 1..Len(q.create) |-> CreateChange(zone, cached, q.create[k])]
           updates == [k \in 1..(2 * PairCount(q)) |->
                          LET old == q.updateOld[(k + 1) \div 2]
                              new == q.updateNew[(k + 1) \div 2]
                          IN  IF k % 2 = 1 THEN UpdateDelete(zone, old, new)
                                           ELSE UpdateAdd(zone, old, new)]
           deletes == [k \in 1..Len(q.delete) |-> DeleteChange(zone, q.delete[k])]
           S == {creates[k] : k \in 1..Len(q.create)}
                \cup {updates[k] : k \in 1..(2 * PairCount(q))}
                \cup {deletes[k] : k \in 1..Len(q.delete)}
<1>1. /\ Len(q.create) \in Nat /\ Len(q.delete) \in Nat /\ PairCount(q) \in Nat
      /\ DOMAIN q.create = 1..Len(q.create) /\ DOMAIN q.delete = 1..Len(q.delete)
  BY DEF WellFormed, PairCount
<1>2. cs.changes = creates \o updates \o deletes
  BY DEF buildZoneChangeSet
<1>3. creates \in Seq(S) /\ updates \in Seq(S) /\ deletes \in Seq(S)
  <2>1. 2 * PairCount(q) \in Nat
    BY <1>1
  <2>2. creates \in [1..Len(q.create) -> S]
    OBVIOUS
  <2>3. updates \in [1..(2 * PairCount(q)) -> S]
    OBVIOUS
  <2>4. deletes \in [1..Len(q.delete) -> S]
    OBVIOUS
  <2> HIDE DEF creates, updates, deletes, S
  <2> QED BY <1>1, <2>1, <2>2, <2>3, <2>4, FunctionIsSeq
<1>4. DOMAIN creates = 1..Len(q.create) /\ DOMAIN updates = 1..(2 * PairCount(q))
      /\ DOMAIN deletes = 1..Len(q.delete)
  OBVIOUS
<1>5. CASE \E j \in DOMAIN creates : b = creates[j]
  BY <1>1, <1>4, <1>5
<1>6. CASE \E j \in DOMAIN updates : b = updates[j]
  <2>1. PICK j \in 1..(2 * PairCount(q)) : b = updates[j]
    BY <1>4, <1>6
  <2>2. (j + 1) \div 2 \in UpdatePairs(q)
    BY <1>1 DEF UpdatePairs
  <2> QED BY <2>1, <2>2
<1>7. CASE \E j \in DOMAIN deletes : b = deletes[j]
  BY <1>1, <1>4, <1>7
<1> HIDE DEF creates, updates, deletes, S
<1> QED BY <1>2, <1>3, <1>5, <1>6, <1>7, ConcatElement

\* Every change set buildZoneChangeSet makes of a well-formed request is
\* guarded, whatever the cache says: for each record it touches, it demands
\* that the record is not there or is marked as the sender's.
THEOREM BuildGuarded ==
    ASSUME NEW zone, NEW cached, NEW q, WellFormed(q)
    PROVE  Guarded(buildZoneChangeSet(zone, cached, q))
<1> DEFINE cs == buildZoneChangeSet(zone, cached, q)
<1>1. cs.owner = q.owner
  BY DEF buildZoneChangeSet
<1>2. /\ \A i \in DOMAIN q.create : CreatePrereqs(zone, cached, q.create[i]) \subseteq cs.prereqs
      /\ \A i \in UpdatePairs(q) : OwnerPrereqs(zone, q.updateNew[i], q.updateOld[i]) \subseteq cs.prereqs
      /\ \A i \in DOMAIN q.delete : OwnerPrereqs(zone, q.delete[i], q.delete[i]) \subseteq cs.prereqs
  BY DEF buildZoneChangeSet
<1>3. UpdatePairs(q) \subseteq DOMAIN q.updateOld
  BY DEF WellFormed, UpdatePairs, PairCount
<1> SUFFICES ASSUME NEW i \in DOMAIN cs.changes, NEW r \in cs.changes[i].recs
             PROVE  RecordGuarded(cs, r) /\ (cs.changes[i].op = "add" => MarkerGuarded(cs, r))
  BY DEF Guarded
<1>4. ASSUME NEW j \in DOMAIN q.create, cs.changes[i] = CreateChange(zone, cached, q.create[j])
      PROVE  RecordGuarded(cs, r) /\ MarkerGuarded(cs, r)
  <2>1. normalizeName(q.create[j].dnsName) \in Names /\ q.create[j].owner \in {cs.owner, NoOwner}
    BY <1>1 DEF WellFormed
  <2> HIDE DEF cs
  <2> QED BY <1>2, <1>4, <2>1, CreateGuarded
<1>5. ASSUME NEW j \in UpdatePairs(q),
             cs.changes[i] \in {UpdateDelete(zone, q.updateOld[j], q.updateNew[j]),
                                UpdateAdd(zone, q.updateOld[j], q.updateNew[j])}
      PROVE  RecordGuarded(cs, r) /\ MarkerGuarded(cs, r)
  <2> DEFINE old == q.updateOld[j]
             new == q.updateNew[j]
  <2>1. /\ normalizeName(old.dnsName) \in Names /\ old.owner \in {cs.owner, NoOwner}
        /\ normalizeName(new.dnsName) = normalizeName(old.dnsName) /\ new.type = old.type
        /\ endpointToRecords(new) # {} => endpointToRecords(old) # {}
    BY <1>1, <1>3 DEF WellFormed
  <2>2. OwnerPrereqs(zone, new, old) \subseteq cs.prereqs
    BY <1>2
  <2>3. r \in UpdateDelete(zone, old, new).recs \cup UpdateAdd(zone, old, new).recs
    BY <1>5
  <2> HIDE DEF cs, old, new
  <2> QED BY <2>1, <2>2, <2>3, UpdateGuarded
<1>6. ASSUME NEW j \in DOMAIN q.delete, cs.changes[i] = DeleteChange(zone, q.delete[j])
      PROVE  RecordGuarded(cs, r) /\ cs.changes[i].op = "delete"
  <2>1. normalizeName(q.delete[j].dnsName) \in Names /\ q.delete[j].owner \in {cs.owner, NoOwner}
    BY <1>1 DEF WellFormed
  <2>2. cs.changes[i].op = "delete"
    BY <1>6 DEF DeleteChange, Delete
  <2> HIDE DEF cs
  <2> QED BY <1>2, <1>6, <2>1, <2>2, DeleteGuarded
<1> DEFINE b == cs.changes[i]
<1>7. \/ \E j \in DOMAIN q.create : b = CreateChange(zone, cached, q.create[j])
      \/ \E j \in UpdatePairs(q) : b \in {UpdateDelete(zone, q.updateOld[j], q.updateNew[j]),
                                          UpdateAdd(zone, q.updateOld[j], q.updateNew[j])}
      \/ \E j \in DOMAIN q.delete : b = DeleteChange(zone, q.delete[j])
  BY ChangeElement
<1> HIDE DEF cs
<1>8. CASE b.op = "add"
  BY <1>4, <1>5, <1>6, <1>7, <1>8
<1>9. CASE b.op # "add"
  BY <1>4, <1>5, <1>6, <1>7, <1>9
<1> QED BY <1>8, <1>9

=============================================================================
