--------------------------- MODULE RequestProofs ---------------------------
(***************************************************************************)
(* The bookkeeping of requests under every interleaving: types, locks, the *)
(* answers of POST /records and GET /records, and the breaker as the       *)
(* goroutines drive it.                                                    *)
(*                                                                         *)
(* A goroutine's locals are related to its own program counter only, so    *)
(* that part of the invariant is proved for the goroutine that moves       *)
(* (Moved) and is untouched for the others (OnlyMoves).  Mutexes and cache *)
(* relate goroutines to each other.                                        *)
(***************************************************************************)
EXTENDS OrchestratorProofs, DCBreakerProofs

-----------------------------------------------------------------------------
(* Choosing zones and DCs *)

\* zoneFor answers with a configured zone that contains the name, or with none.
LEMMA ZoneForRange ==
    ASSUME NEW name \in Names
    PROVE  /\ zoneFor(name) \in Zones \cup {NoZone}
           /\ zoneFor(name) # NoZone => HasSuffix(name, zoneFor(name))
<1> DEFINE matches == {z \in Zones : HasSuffix(name, z)}
<1>1. CASE matches = {}
  BY <1>1 DEF zoneFor
<1>2. CASE matches # {}
  <2>1. Len(name) \in Nat
    BY LenProperties DEF Names
  <2>2. \A z \in matches : Len(z) \in Nat /\ Len(z) <= Len(name)
    <3>1. \A z \in Zones : z \in Seq(Seq(Words))
      BY ConfigAssumption DEF Zones
    <3> QED BY <3>1, LenProperties DEF HasSuffix
  <2> DEFINE spare == {Len(name) - Len(z) : z \in matches}
  <2>3. spare \in SUBSET Nat /\ spare # {}
    BY <1>2, <2>1, <2>2
  <2>4. PICK n \in spare : \A m \in spare : n <= m
    <3> HIDE DEF spare
    <3> QED BY <2>3, LeastNatural
  <2>5. \E z \in matches : n = Len(name) - Len(z)
    BY <2>4
  <2>6. PICK z \in matches : n = Len(name) - Len(z)
    BY <2>5
  <2>7. \E w \in matches : \A y \in matches : Len(y) <= Len(w)
    <3>1. \A y \in matches : Len(name) - Len(z) <= Len(name) - Len(y)
      BY <2>4, <2>6
    <3> HIDE DEF matches
    <3>2. \A y \in matches : Len(y) <= Len(z)
      BY <2>1, <2>2, <3>1
    <3> QED BY <3>2
  <2> DEFINE longest == CHOOSE w \in matches : \A y \in matches : Len(y) <= Len(w)
  <2>8. longest \in matches
    BY <2>7
  <2>9. zoneFor(name) = longest
    BY <1>2 DEF zoneFor
  <2> QED BY <2>8, <2>9
<1> QED BY <1>1, <1>2

\* A request is filed under configured zones only.
LEMMA ZonesOfRange ==
    ASSUME NEW q, WellFormed(q)
    PROVE  ZonesOf(q) \subseteq Zones
<1>1. ASSUME NEW e, normalizeName(e.dnsName) \in Names
      PROVE  RouteOf(e) \in Zones \cup {NoZone}
  BY <1>1, ZoneForRange DEF RouteOf
<1>2. /\ \A i \in DOMAIN q.create : normalizeName(q.create[i].dnsName) \in Names
      /\ \A i \in DOMAIN q.delete : normalizeName(q.delete[i].dnsName) \in Names
      /\ \A i \in DOMAIN q.updateNew : normalizeName(q.updateNew[i].dnsName) \in Names
  BY DEF WellFormed
<1>3. UpdatePairs(q) \subseteq DOMAIN q.updateNew
  BY DEF WellFormed, UpdatePairs, PairCount
<1> QED BY <1>1, <1>2, <1>3 DEF ZonesOf

\* The walk over the available DCs visits configured DCs only.
LEMMA OrderRange ==
    ASSUME NEW pin, NEW avail \in Seq(DCs)
    PROVE  dcOrderForZone(pin, avail) \in Seq(DCs)
<1>1. CASE avail = <<>>
  BY <1>1 DEF dcOrderForZone
<1>2. CASE avail # <<>>
  <2> DEFINE first == IF \E i \in DOMAIN avail : avail[i] = pin THEN pin ELSE avail[1]
             rest == {i \in DOMAIN avail : avail[i] # first}
             from == CHOOSE i \in rest : \A j \in rest : i <= j
  <2>1. Len(avail) \in Nat /\ Len(avail) >= 1 /\ DOMAIN avail = 1..Len(avail)
    BY <1>2, LenProperties, EmptySeq
  <2>2. first \in DCs
    BY <2>1, ElementOfSeq
  <2>3. <<first>> \in Seq(DCs)
    BY <2>2
  <2>4. CASE rest = {}
    <3>1. dcOrderForZone(pin, avail) = <<first>>
      BY <1>2, <2>4 DEF dcOrderForZone
    <3> QED BY <2>3, <3>1
  <2>5. CASE rest # {}
    <3>1. rest \in SUBSET Nat
      BY <2>1
    <3>2. from \in rest
      <4> HIDE DEF rest
      <4>1. \E i \in rest : \A j \in rest : i <= j
        BY <2>5, <3>1, LeastNatural
      <4> QED BY <4>1
    <3>3. from \in 1..Len(avail)
      BY <2>1, <3>2
    <3>4. dcOrderForZone(pin, avail) = <<first>> \o SubSeq(avail, from, Len(avail))
      BY <1>2, <2>5 DEF dcOrderForZone
    <3> HIDE DEF from, first, rest
    <3>5. SubSeq(avail, from, Len(avail)) \in Seq(DCs)
      BY <2>1, <3>3, SubSeqProperties
    <3> QED BY <2>3, <3>4, <3>5, ConcatProperties
  <2> QED BY <2>4, <2>5
<1> QED BY <1>1, <1>2

-----------------------------------------------------------------------------
(* The inductive invariant *)

Fields == {"todo", "zi", "at", "avail", "walk", "tried", "won", "got", "res", "out", "err",
           "gone", "owed"}

\* Every goroutine has its program counter, payload, change set and locals.
Shape ==
    /\ DOMAIN pc = Threads /\ DOMAIN req = Threads
    /\ DOMAIN sending = Threads /\ DOMAIN th = Threads
    /\ \A t \in Threads : DOMAIN th[t] = Fields

\* The places where a goroutine holds a change set.
BusyPCs == {"applyLock"} \cup ApplyPCs

\* The types of one goroutine's locals l, payload q and change set cs at p.
\* Where the code takes the first DC of a walk, or the zone at an index, there
\* is one.
LocalTypes(p, l, q, cs) ==
    /\ p \in PCs
    /\ l.todo \subseteq Zones /\ l.owed \subseteq Zones
    /\ l.zi \in 1..(Len(ZoneList) + 1) /\ l.at \in 1..(Len(HostList) + 1)
    /\ l.tried \subseteq DCs /\ l.won \subseteq DCs
    /\ l.avail \in Seq(DCs) /\ l.walk \in Seq(DCs) /\ l.err \in BOOLEAN
    /\ p \in {"listPin", "listStore", "updated", "credit"} => l.walk # <<>>
    /\ p \in {"axfr", "listPin", "listStore"} => l.zi \in DOMAIN ZoneList
    /\ p \in {"apply"} \cup BusyPCs => Payload(q)
    /\ p \in BusyPCs => cs.zone \in Zones /\ cs.owner \in Owners

\* Which changes a goroutine at p still owes: none while it lists; while no
\* error is noted, at most the zone it is working on, and not even that one
\* once a DC has said NOERROR.
Acked(p, l, cs) ==
    /\ p \in {"idle", "listLock"} \cup ListPCs => l.owed = {}
    /\ p \in {"apply", "return"} /\ ~l.err => l.owed = {}
    /\ p \in BusyPCs /\ ~l.err => l.owed \subseteq {cs.zone}
    /\ p = "updated" /\ l.res.ok => cs.zone \notin l.owed
    /\ p = "credit" => cs.zone \notin l.owed

LocalInv(p, l, q, cs) == LocalTypes(p, l, q, cs) /\ Acked(p, l, cs)
LocalsInv == \A t \in Threads : LocalInv(pc[t], th[t], req[t], sending[t])

\* Only t moves.
OnlyMoves(t) ==
    \A s \in Threads \ {t} : /\ pc'[s] = pc[s] /\ th'[s] = th[s]
                             /\ req'[s] = req[s] /\ sending'[s] = sending[s]

\* The fields S of t's locals stay as they are.
Same(t, S) == \A f \in S : th'[t][f] = th[t][f]

\* t takes a step after which everybody's locals are still in order.
Moved(t) == Shape' /\ OnlyMoves(t) /\ LocalInv(pc'[t], th'[t], req'[t], sending'[t])

\* Probing a host keeps a goroutine's locals in order.
LEMMA ProbeMoves ==
    ASSUME Shape, LocalsInv, NEW t \in Threads, ProbeHost(t)
    PROVE  Moved(t)
<1> DEFINE dc == HostList[th[t].at]
<1>1. /\ th[t].at \in 1..Len(HostList) /\ Len(HostList) \in Nat /\ dc \in DCs
  BY HostAssumption, LenProperties DEF ProbeHost
<1>2. /\ Shape' /\ OnlyMoves(t)
      /\ pc'[t] = pc[t] /\ req'[t] = req[t] /\ sending'[t] = sending[t]
  BY DEF ProbeHost, Shape, OnlyMoves, work
<1>3. /\ th'[t].at = th[t].at + 1
      /\ th'[t].avail \in {th[t].avail, Append(th[t].avail, dc)}
      /\ Same(t, Fields \ {"at", "avail"})
  BY DEF ProbeHost, Shape, Fields, Same
<1>4. LocalTypes(pc[t], th[t], req[t], sending[t]) /\ Acked(pc[t], th[t], sending[t])
  BY DEF LocalsInv, LocalInv
<1> HIDE DEF dc
<1>5. th[t].avail \in Seq(DCs) /\ Append(th[t].avail, dc) \in Seq(DCs)
  BY <1>1, <1>4, AppendProperties DEF LocalTypes
<1>6. th'[t].avail \in Seq(DCs)
  BY <1>3, <1>5
<1>7. th'[t].at \in 1..(Len(HostList) + 1)
  BY <1>1, <1>3
<1>8. LocalTypes(pc[t], th'[t], req[t], sending[t])
  BY <1>3, <1>4, <1>6, <1>7 DEF LocalTypes, Same, Fields
<1>9. Acked(pc[t], th'[t], sending[t])
  BY <1>3, <1>4 DEF Acked, Same, Fields
<1> QED BY <1>2, <1>8, <1>9 DEF Moved, LocalInv

\* Steps that only move the program counter, between places of one kind.
LEMMA JumpMoves ==
    ASSUME Shape, LocalsInv, NEW t \in Threads,
           BeginList(t) \/ ListLock(t) \/ ListUnlock(t) \/ ApplyDone(t) \/ ZoneLock(t) \/ UpdateOK(t)
    PROVE  Moved(t)
<1> DEFINE edges == {<<"idle", "listLock">>, <<"listLock", "listProbe">>,
                     <<"listLock", "listUnlock">>, <<"listUnlock", "return">>,
                     <<"listCharge", "return">>, <<"apply", "return">>,
                     <<"applyLock", "applyProbe">>, <<"updated", "credit">>}
<1>1. /\ Shape' /\ OnlyMoves(t)
      /\ th'[t] = th[t] /\ req'[t] = req[t] /\ sending'[t] = sending[t]
  BY DEF BeginList, ListLock, ListUnlock, ApplyDone, ZoneLock, UpdateOK, Goto, Shape, OnlyMoves, work
<1>2. <<pc[t], pc'[t]>> \in edges /\ (pc'[t] = "credit" => th[t].res.ok)
  BY DEF BeginList, ListLock, ListUnlock, ApplyDone, ZoneLock, UpdateOK, Goto, Shape
<1>3. LocalTypes(pc[t], th[t], req[t], sending[t]) /\ Acked(pc[t], th[t], sending[t])
  BY DEF LocalsInv, LocalInv
<1>4. LocalTypes(pc'[t], th[t], req[t], sending[t])
  BY <1>2, <1>3 DEF LocalTypes, BusyPCs, ListPCs, ApplyPCs, PCs
<1>5. Acked(pc'[t], th[t], sending[t])
  BY <1>2, <1>3 DEF Acked, BusyPCs, ListPCs, ApplyPCs
<1> QED BY <1>1, <1>4, <1>5 DEF Moved, LocalInv

\* The locals that the list's own steps change, and their types.
ListLocals == {"err", "walk", "tried", "won", "got", "out", "zi"}

ListTypes(p, l) ==
    /\ l.zi \in 1..(Len(ZoneList) + 1) /\ l.tried \subseteq DCs /\ l.won \subseteq DCs
    /\ l.walk \in Seq(DCs) /\ l.err \in BOOLEAN
    /\ p \in {"listPin", "listStore"} => l.walk # <<>>
    /\ p \in {"axfr", "listPin", "listStore"} => l.zi \in DOMAIN ZoneList

\* The list's own steps keep them in order.
LEMMA ListMoves ==
    ASSUME Shape, LocalsInv, NEW t \in Threads,
           \/ ListNoDC(t) \/ ListZone(t) \/ AxfrCall(t) \/ AxfrZoneFailed(t)
           \/ ListPin(t) \/ ListStore(t) \/ ListCharge(t)
    PROVE  Moved(t)
<1> DEFINE l == th[t]
           m == th'[t]
<1>1. LocalTypes(pc[t], l, req[t], sending[t]) /\ Acked(pc[t], l, sending[t])
  BY DEF LocalsInv, LocalInv
<1>2. /\ Shape' /\ OnlyMoves(t)
      /\ req'[t] = req[t] /\ sending'[t] = sending[t]
      /\ pc[t] \in ListPCs /\ pc'[t] \in ListPCs
  BY DEF ListNoDC, ListZone, AxfrCall, AxfrZoneFailed, ListPin, ListStore, ListCharge, Goto, Shape,
         OnlyMoves, work, ListPCs
<1>3. ListTypes(pc[t], l)
  BY <1>1 DEF LocalTypes, ListTypes
<1>4. Len(ZoneList) \in Nat /\ DOMAIN ZoneList = 1..Len(ZoneList)
  BY ConfigAssumption, LenProperties
<1>5. Same(t, Fields \ ListLocals) /\ ListTypes(pc'[t], m)
  <2>1. CASE ListNoDC(t)
    <3>1. /\ pc'[t] = "listUnlock" /\ m.err = TRUE /\ Same(t, Fields \ {"err"})
      BY <2>1 DEF ListNoDC, Goto, Shape, Same, Fields
    <3> QED BY <1>3, <3>1 DEF ListTypes, ListLocals, Same, Fields
  <2>2. CASE ListZone(t)
    <3>1. CASE l.zi \in DOMAIN ZoneList
      <4>1. /\ pc'[t] = "axfr" /\ Same(t, Fields \ {"walk"})
            /\ m.walk = dcOrderForZone(pins[ZoneList[l.zi]], l.avail)
        BY <2>2, <3>1 DEF ListZone, Goto, Shape, Same, Fields
      <4>2. m.walk \in Seq(DCs)
        BY <1>1, <4>1, OrderRange DEF LocalTypes
      <4> QED BY <1>3, <3>1, <4>1, <4>2 DEF ListTypes, ListLocals, Same, Fields
    <3>2. CASE l.zi \notin DOMAIN ZoneList
      <4>1. /\ pc'[t] = "listCharge" /\ Same(t, Fields)
        BY <2>2, <3>2 DEF ListZone, Goto, Shape, Same, Fields
      <4> QED BY <1>3, <4>1 DEF ListTypes, ListLocals, Same, Fields
    <3> QED BY <3>1, <3>2
  <2>3. CASE AxfrCall(t)
    <3>1. pc[t] = "axfr" /\ l.walk # <<>>
      BY <2>3 DEF AxfrCall
    <3>2. Head(l.walk) \in DCs /\ Tail(l.walk) \in Seq(DCs)
      BY <1>3, <3>1, HeadTailProperties DEF ListTypes
    <3>3. \/ pc'[t] = "listPin" /\ m.tried = l.tried \cup {Head(l.walk)} /\ Same(t, Fields \ {"tried", "got"})
          \/ /\ pc'[t] = "axfr" /\ m.tried = l.tried \cup {Head(l.walk)} /\ m.walk = Tail(l.walk)
             /\ Same(t, Fields \ {"tried", "walk"})
      BY <2>3 DEF AxfrCall, Goto, Shape, Same, Fields
    <3> QED BY <1>3, <3>1, <3>2, <3>3 DEF ListTypes, ListLocals, Same, Fields
  <2>4. CASE AxfrZoneFailed(t)
    <3>1. /\ pc[t] = "axfr" /\ pc'[t] = "listZone" /\ m.zi = l.zi + 1 /\ Same(t, Fields \ {"zi"})
      BY <2>4 DEF AxfrZoneFailed, Goto, Shape, Same, Fields
    <3> QED BY <1>3, <1>4, <3>1 DEF ListTypes, ListLocals, Same, Fields
  <2>5. CASE ListPin(t)
    <3>1. /\ pc[t] = "listPin" /\ pc'[t] = "listStore" /\ m.won = l.won \cup {Head(l.walk)}
          /\ Same(t, Fields \ {"won"})
      BY <2>5 DEF ListPin, Goto, Shape, Same, Fields
    <3>2. Head(l.walk) \in DCs
      BY <1>3, <3>1, HeadTailProperties DEF ListTypes
    <3> QED BY <1>3, <3>1, <3>2 DEF ListTypes, ListLocals, Same, Fields
  <2>6. CASE ListStore(t)
    <3>1. /\ pc[t] = "listStore" /\ pc'[t] = "listZone" /\ m.zi = l.zi + 1
          /\ Same(t, Fields \ {"zi", "got", "out"})
      BY <2>6 DEF ListStore, Goto, Shape, Same, Fields
    <3> QED BY <1>3, <1>4, <3>1 DEF ListTypes, ListLocals, Same, Fields
  <2>7. CASE ListCharge(t)
    <3>1. /\ pc'[t] = "listCharge" /\ m.tried \subseteq l.tried /\ Same(t, Fields \ {"tried"})
      BY <2>7 DEF ListCharge, Goto, Shape, Same, Fields
    <3> QED BY <1>3, <3>1 DEF ListTypes, ListLocals, Same, Fields
  <2> QED BY <2>1, <2>2, <2>3, <2>4, <2>5, <2>6, <2>7
<1>6. LocalTypes(pc'[t], m, req[t], sending[t])
  BY <1>1, <1>2, <1>5 DEF LocalTypes, ListTypes, Same, Fields, ListLocals, BusyPCs, ListPCs, ApplyPCs, PCs
<1>7. Acked(pc'[t], m, sending[t])
  BY <1>1, <1>2, <1>5 DEF Acked, Same, Fields, ListLocals, BusyPCs, ListPCs, ApplyPCs
<1> QED BY <1>2, <1>6, <1>7 DEF Moved, LocalInv

\* applyZone returns: either the failure is noted, or the zone is not owed.
LEMMA ZoneReturnMoves ==
    ASSUME Shape, LocalsInv, NEW t \in Threads, pc[t] \in ApplyPCs,
           NEW failed \in BOOLEAN, ZoneReturn(t, failed),
           ~failed => Zone(t) \notin th[t].owed
    PROVE  Moved(t)
<1> DEFINE l == th[t]
           m == th'[t]
<1>1. LocalTypes(pc[t], l, req[t], sending[t]) /\ Acked(pc[t], l, sending[t])
  BY DEF LocalsInv, LocalInv
<1>2. /\ Shape' /\ OnlyMoves(t)
      /\ req'[t] = req[t] /\ pc'[t] = "apply"
  BY DEF ZoneReturn, Goto, Shape, OnlyMoves, Fresh, Fields
<1>3. /\ m.todo = l.todo /\ m.owed = l.owed /\ m.zi = 1 /\ m.at = 1
      /\ m.tried = {} /\ m.won = {} /\ m.avail = <<>> /\ m.walk = <<>>
  BY DEF ZoneReturn, Shape, Fresh
<1>4. m.err \in BOOLEAN /\ (~m.err => ~failed /\ ~l.err)
  <2>1. m.err = (l.err \/ failed)
    BY DEF ZoneReturn, Shape, Fresh
  <2>2. l.err \in BOOLEAN
    BY <1>1 DEF LocalTypes
  <2> QED BY <2>1, <2>2
<1>5. LocalTypes("apply", m, req[t], sending'[t])
  <2>1. Len(ZoneList) \in Nat /\ Len(HostList) \in Nat
    BY ConfigAssumption, HostAssumption, LenProperties
  <2>2. <<>> \in Seq(DCs)
    BY EmptySeq
  <2>3. m.todo \subseteq Zones /\ m.owed \subseteq Zones /\ Payload(req[t])
    BY <1>1, <1>3 DEF LocalTypes, BusyPCs
  <2> QED BY <1>3, <1>4, <2>1, <2>2, <2>3 DEF LocalTypes, BusyPCs, ApplyPCs, PCs
<1>6. Acked("apply", m, sending'[t])
  BY <1>1, <1>3, <1>4 DEF Acked, BusyPCs, ApplyPCs, ListPCs, Zone
<1> QED BY <1>2, <1>5, <1>6 DEF Moved, LocalInv

\* The client is told NOERROR only by a DC that applied the UPDATE.
LEMMA NoErrorMeansApplied ==
    ASSUME NEW R, NEW cs, NEW x \in Exchanges(R, cs), x.res.ok
    PROVE  x.effect = "applied"
<1> DEFINE Result(resp, err, effect) ==
              [res |-> classifyExchangeResult(resp, err), effect |-> effect]
<1>1. ASSUME NEW resp, NEW err, classifyExchangeResult(resp, err).ok
      PROVE  resp = "NOERROR"
  BY <1>1 DEF classifyExchangeResult, ClassifyRcode, classifyTSIGError, ApplyResult
<1>2. CASE x = [res |-> BuildFailure, effect |-> "none"]
  BY <1>2 DEF BuildFailure, ApplyResult
<1>4. CASE x \in {Result(rcode, NoError, "none") : rcode \in PrereqRcodes(R, cs.prereqs)}
  BY <1>1, <1>4 DEF PrereqRcodes
<1>5. CASE x \in {Result(rcode, NoError, "none") : rcode \in RefusalRcodes \cap Faults}
  BY <1>1, <1>5 DEF RefusalRcodes
<1>6. CASE x \in {Result(NoResponse, err, "none") : err \in TSIGErrors \cap Faults}
  BY <1>1, <1>6 DEF NoResponse
<1>7. CASE x \in {Result("NOERROR", NoError, "applied"), Result("NOERROR", "unverified", "applied"),
                     Result(NoResponse, "timeout", "applied")}
  BY <1>7
<1>8. CASE x \in {Result(NoResponse, "dial", "none"), Result(NoResponse, "timeout", "late")}
  BY <1>1, <1>8 DEF NoResponse
<1> HIDE DEF Result
<1> QED BY <1>2, <1>4, <1>5, <1>6, <1>7, <1>8 DEF Exchanges, Result

\* The other steps of an apply.
LEMMA ApplyMoves ==
    ASSUME Shape, LocalsInv, NEW t \in Threads,
           \/ \E q : Payload(q) /\ BeginApply(t, q)
           \/ ApplyBuild(t) \/ ApplyOrder(t) \/ UpdateCall(t) \/ UpdateFailover(t)
    PROVE  Moved(t)
<1> DEFINE l == th[t]
           m == th'[t]
<1>1. LocalTypes(pc[t], l, req[t], sending[t]) /\ Acked(pc[t], l, sending[t])
  BY DEF LocalsInv, LocalInv
<1>2. CASE \E q : Payload(q) /\ BeginApply(t, q)
  <2>1. PICK q :
          /\ Payload(q) /\ pc[t] = "idle" /\ pc'[t] = "apply" /\ req'[t] = q /\ sending'[t] = sending[t]
          /\ m.todo = ZonesOf(q) /\ Same(t, Fields \ {"todo"})
          /\ Shape' /\ OnlyMoves(t)
    BY <1>2 DEF BeginApply, Goto, Shape, OnlyMoves, Same, Fields
  <2>2. m.todo \subseteq Zones
    BY <2>1, ZonesOfRange DEF Payload
  <2>3. LocalTypes("apply", m, q, sending[t])
    BY <1>1, <2>1, <2>2 DEF LocalTypes, Same, Fields, PCs, BusyPCs, ApplyPCs
  <2>4. Acked("apply", m, sending[t])
    BY <1>1, <2>1 DEF Acked, Same, Fields, BusyPCs, ApplyPCs, ListPCs
  <2> QED BY <2>1, <2>3, <2>4 DEF Moved, LocalInv
<1>3. CASE ApplyBuild(t)
  <2>1. PICK z \in l.todo :
          /\ pc[t] = "apply" /\ req'[t] = req[t] /\ Shape' /\ OnlyMoves(t) /\ m.todo = l.todo \ {z}
          /\ \/ /\ pc'[t] = "applyLock" /\ sending'[t] = buildZoneChangeSet(z, cache[z], req[t])
                /\ m.owed = l.owed \cup {z} /\ Same(t, Fields \ {"todo", "owed"})
             \/ /\ pc'[t] = pc[t] /\ sending'[t] = sending[t] /\ Same(t, Fields \ {"todo"})
    BY <1>3 DEF ApplyBuild, Goto, Shape, OnlyMoves, Same, Fields
  <2>2. z \in Zones /\ Payload(req[t])
    BY <1>1, <2>1 DEF LocalTypes
  <2>3. CASE /\ pc'[t] = "applyLock" /\ sending'[t] = buildZoneChangeSet(z, cache[z], req[t])
             /\ m.owed = l.owed \cup {z} /\ Same(t, Fields \ {"todo", "owed"})
    <3>1. sending'[t].zone = z /\ sending'[t].owner \in Owners
      <4>1. /\ buildZoneChangeSet(z, cache[z], req[t]).zone = z
            /\ buildZoneChangeSet(z, cache[z], req[t]).owner = req[t].owner
        BY Zenon DEF buildZoneChangeSet
      <4> QED BY <2>2, <2>3, <4>1, Zenon DEF Payload
    <3>2. LocalTypes("applyLock", m, req[t], sending'[t])
      BY <1>1, <2>1, <2>2, <2>3, <3>1 DEF LocalTypes, Same, Fields, PCs, BusyPCs, ApplyPCs
    <3>3. Acked("applyLock", m, sending'[t])
      BY <1>1, <2>1, <2>3, <3>1 DEF Acked, Same, Fields, BusyPCs, ApplyPCs, ListPCs
    <3> QED BY <2>1, <2>3, <3>2, <3>3 DEF Moved, LocalInv
  <2>4. CASE /\ pc'[t] = pc[t] /\ sending'[t] = sending[t] /\ Same(t, Fields \ {"todo"})
    <3>1. LocalTypes("apply", m, req[t], sending[t])
      BY <1>1, <2>1, <2>2, <2>4 DEF LocalTypes, Same, Fields
    <3>2. Acked("apply", m, sending[t])
      BY <1>1, <2>1, <2>4 DEF Acked, Same, Fields, BusyPCs, ApplyPCs, ListPCs
    <3> QED BY <2>1, <2>4, <3>1, <3>2 DEF Moved, LocalInv
  <2> QED BY <2>1, <2>3, <2>4
<1>4. CASE ApplyOrder(t)
  <2>1. /\ pc[t] = "applyProbe" /\ pc'[t] = "update" /\ req'[t] = req[t] /\ sending'[t] = sending[t]
        /\ m.walk = dcOrderForZone(pins[Zone(t)], l.avail) /\ Same(t, Fields \ {"walk"})
        /\ Shape' /\ OnlyMoves(t)
    BY <1>4 DEF ApplyOrder, Goto, Shape, OnlyMoves, Same, Fields, work
  <2>2. m.walk \in Seq(DCs)
    BY <1>1, <2>1, OrderRange DEF LocalTypes
  <2>3. LocalTypes("update", m, req[t], sending[t])
    BY <1>1, <2>1, <2>2 DEF LocalTypes, Same, Fields, PCs, BusyPCs, ApplyPCs
  <2>4. Acked("update", m, sending[t])
    BY <1>1, <2>1 DEF Acked, Same, Fields, BusyPCs, ApplyPCs, ListPCs
  <2> QED BY <2>1, <2>3, <2>4 DEF Moved, LocalInv
<1>5. CASE UpdateCall(t)
  <2>1. PICK x \in Exchanges(rrs[Zone(t)], sending[t]) :
          /\ pc[t] = "update" /\ pc'[t] = "updated" /\ req'[t] = req[t] /\ sending'[t] = sending[t]
          /\ l.walk # <<>> /\ m.res = x.res
          /\ m.owed = IF x.effect = "applied" THEN l.owed \ {Zone(t)} ELSE l.owed
          /\ Same(t, Fields \ {"res", "owed"}) /\ Shape' /\ OnlyMoves(t)
    BY <1>5, ZenonT(40) DEF UpdateCall, Goto, Shape, OnlyMoves, Same, Fields, work
  <2>2. m.owed \subseteq l.owed /\ (m.res.ok => Zone(t) \notin m.owed)
    BY <2>1, NoErrorMeansApplied
  <2>3. LocalTypes("updated", m, req[t], sending[t])
    BY <1>1, <2>1, <2>2 DEF LocalTypes, Same, Fields, PCs, BusyPCs, ApplyPCs
  <2>4. Acked("updated", m, sending[t])
    BY <1>1, <2>1, <2>2 DEF Acked, Same, Fields, BusyPCs, ApplyPCs, ListPCs, Zone
  <2> QED BY <2>1, <2>3, <2>4 DEF Moved, LocalInv
<1>6. CASE UpdateFailover(t)
  <2>1. /\ pc[t] = "updated" /\ pc'[t] = "update" /\ req'[t] = req[t] /\ sending'[t] = sending[t]
        /\ m.walk = Tail(l.walk) /\ Same(t, Fields \ {"walk", "res"})
        /\ Shape' /\ OnlyMoves(t)
    BY <1>6 DEF UpdateFailover, Goto, Shape, OnlyMoves, Same, Fields, work
  <2>2. m.walk \in Seq(DCs)
    BY <1>1, <2>1, HeadTailProperties DEF LocalTypes
  <2>3. LocalTypes("update", m, req[t], sending[t])
    BY <1>1, <2>1, <2>2 DEF LocalTypes, Same, Fields, PCs, BusyPCs, ApplyPCs
  <2>4. Acked("update", m, sending[t])
    BY <1>1, <2>1 DEF Acked, Same, Fields, BusyPCs, ApplyPCs, ListPCs
  <2> QED BY <2>1, <2>3, <2>4 DEF Moved, LocalInv
<1> QED BY <1>2, <1>3, <1>4, <1>5, <1>6

\* Fresh locals are as good as it gets.
LEMMA FreshLocal == LocalInv("idle", Fresh, NoRequest, NoChangeSet) /\ DOMAIN Fresh = Fields
<1>1. Len(ZoneList) \in Nat /\ Len(HostList) \in Nat
  BY ConfigAssumption, HostAssumption, LenProperties
<1>2. <<>> \in Seq(DCs)
  BY EmptySeq
<1>3. LocalTypes("idle", Fresh, NoRequest, NoChangeSet)
  BY <1>1, <1>2 DEF LocalTypes, Fresh, PCs, BusyPCs, ApplyPCs
<1>4. Acked("idle", Fresh, NoChangeSet)
  BY DEF Acked, Fresh, BusyPCs, ApplyPCs
<1>5. DOMAIN Fresh = Fields
  BY DEF Fresh, Fields
<1> QED BY <1>3, <1>4, <1>5 DEF LocalInv

\* What a goroutine does leaves the others alone and its own locals in order.
LEMMA GoroutineMoves ==
    ASSUME Shape, LocalsInv, NEW t \in Threads, Acts(t)
    PROVE  Moved(t)
<1>1. LocalTypes(pc[t], th[t], req[t], sending[t]) /\ Acked(pc[t], th[t], sending[t])
  BY DEF LocalsInv, LocalInv
<1>2. CASE ApplyNoDC(t) \/ ApplyGiveUp(t) \/ UpdateFailed(t)
  <2>1. pc[t] \in ApplyPCs /\ ZoneReturn(t, TRUE)
    BY <1>2 DEF ApplyNoDC, ApplyGiveUp, UpdateFailed, ApplyPCs
  <2> QED BY <2>1, ZoneReturnMoves
<1>3. CASE UpdateCredit(t)
  <2>1. pc[t] = "credit" /\ ZoneReturn(t, FALSE)
    BY <1>3 DEF UpdateCredit
  <2>2. pc[t] \in ApplyPCs /\ Zone(t) \notin th[t].owed
    BY <1>1, <2>1 DEF Acked, ApplyPCs, Zone
  <2> QED BY <2>1, <2>2, ZoneReturnMoves
<1>4. CASE Return(t)
  <2>1. /\ Shape' /\ OnlyMoves(t) /\ sending'[t] = sending[t]
        /\ pc'[t] = "idle" /\ req'[t] = NoRequest /\ th'[t] = Fresh
    BY <1>4, FreshLocal DEF Return, Goto, Shape, OnlyMoves
  <2>2. LocalInv("idle", Fresh, NoRequest, sending[t])
    BY FreshLocal DEF LocalInv, LocalTypes, Acked, BusyPCs, ApplyPCs
  <2> QED BY <2>1, <2>2 DEF Moved
<1>5. CASE ClientGone(t)
  <2>1. /\ Shape' /\ OnlyMoves(t) /\ pc'[t] = pc[t] /\ req'[t] = req[t]
        /\ sending'[t] = sending[t] /\ Same(t, Fields \ {"gone"})
    BY <1>5 DEF ClientGone, Shape, OnlyMoves, Same, Fields, work
  <2>2. LocalTypes(pc[t], th'[t], req[t], sending[t])
    BY <1>1, <2>1 DEF LocalTypes, Same, Fields
  <2>3. Acked(pc[t], th'[t], sending[t])
    BY <1>1, <2>1 DEF Acked, Same, Fields
  <2> QED BY <2>1, <2>2, <2>3 DEF Moved, LocalInv
<1> QED
  BY <1>2, <1>3, <1>4, <1>5, ProbeMoves, JumpMoves, ListMoves, ApplyMoves
  DEF Acts, Begin, Step, ListStep, ApplyStep

\* The types of the pins, the cache, the mutexes and what is on its way to a DC.
SharedTypes ==
    /\ pins \in [Zones -> DCs \cup {NoDC}] /\ DOMAIN cache = Zones
    /\ axfrMu \in Threads \cup {Nobody} /\ zlock \in [Zones -> Threads \cup {Nobody}]
    /\ actor \in Owners \cup {Nobody, Admin}
    /\ \A cs \in late : cs.zone \in Zones /\ cs.owner \in Owners

\* Whoever leaves the breaker alone keeps its invariant.
LEMMA BreakerStays ==
    ASSUME BreakerInv, UNCHANGED breaker
    PROVE  BreakerInv'
BY DEF BreakerInv, BreakerTypeOK, CircuitMatchesStreak, ExclusionBounded, IsOpen, breaker

\* The goroutines call the breaker for configured DCs only.
LEMMA GoroutineBreaker ==
    ASSUME BreakerInv, LocalsInv, NEW t \in Threads, Acts(t)
    PROVE  BreakerInv'
<1>1. LocalTypes(pc[t], th[t], req[t], sending[t])
  BY DEF LocalsInv, LocalInv
<1>2. CASE ProbeHost(t)
  <2>1. HostList[th[t].at] \in DCs /\ IsAvailable(HostList[th[t].at]) /\ UNCHANGED now
    BY <1>2, HostAssumption DEF ProbeHost
  <2> QED BY <2>1, IsAvailableInv
<1>3. CASE ListCharge(t)
  <2>1. PICK dc \in th[t].tried : RecordSuccess(dc) \/ RecordFailure(dc)
    BY <1>3 DEF ListCharge
  <2>2. dc \in DCs /\ UNCHANGED now
    BY <1>1, <1>3 DEF LocalTypes, ListCharge
  <2> QED BY <2>1, <2>2, RecordSuccessInv, RecordFailureInv
<1>4. CASE UpdateCredit(t) \/ UpdateFailover(t)
  <2>1. pc[t] \in {"updated", "credit"} /\ UNCHANGED now
    BY <1>4 DEF UpdateCredit, UpdateFailover
  <2>2. Head(th[t].walk) \in DCs
    BY <1>1, <2>1, HeadTailProperties DEF LocalTypes
  <2> QED BY <1>4, <2>1, <2>2, RecordSuccessInv, RecordFailureInv DEF UpdateCredit, UpdateFailover
<1>5. CASE UNCHANGED breaker
  BY <1>5, BreakerStays
<1> QED
  BY <1>2, <1>3, <1>4, <1>5
  DEF Acts, Begin, Step, ListStep, ApplyStep, BeginList, ListLock, ListNoDC, ListZone, AxfrCall, AxfrZoneFailed,
      ListPin, ListStore, ListUnlock, BeginApply, ApplyBuild, ApplyDone, ZoneLock, ApplyNoDC,
      ApplyOrder, UpdateCall, ApplyGiveUp, UpdateOK, UpdateFailed, Return, ClientGone

\* Every step of a goroutine keeps the types of what goroutines share.
LEMMA GoroutineShared ==
    ASSUME SharedTypes, LocalsInv, NEW t \in Threads, Acts(t)
    PROVE  SharedTypes'
<1>1. LocalTypes(pc[t], th[t], req[t], sending[t])
  BY DEF LocalsInv, LocalInv
<1>2. pins' \in [Zones -> DCs \cup {NoDC}]
  <2>1. CASE UNCHANGED pins
    BY <2>1 DEF SharedTypes
  <2>2. CASE ListPin(t) \/ UpdateOK(t)
    <3>1. Head(th[t].walk) \in DCs
      BY <1>1, <2>2, HeadTailProperties DEF LocalTypes, ListPin, UpdateOK
    <3>2. \E z : pins' = [pins EXCEPT ![z] = Head(th[t].walk)]
      BY <2>2 DEF ListPin, UpdateOK
    <3> QED BY <3>1, <3>2 DEF SharedTypes
  <2> QED
    BY <2>1, <2>2
    DEF Acts, Begin, Step, ListStep, ApplyStep, ProbeHost, BeginList, ListLock, ListNoDC, ListZone, AxfrCall,
        AxfrZoneFailed, ListStore, ListCharge, ListUnlock, BeginApply, ApplyBuild, ApplyDone,
        ZoneLock, ApplyNoDC, ApplyOrder, UpdateCall, ApplyGiveUp, UpdateCredit, UpdateFailed,
        UpdateFailover, Return, ClientGone, shared
<1>3. DOMAIN cache' = Zones
  BY DEF SharedTypes, Acts, Begin, Step, ListStep, ApplyStep, ProbeHost, BeginList, ListLock, ListNoDC, ListZone,
         AxfrCall, AxfrZoneFailed, ListPin, ListStore, ListCharge, ListUnlock, BeginApply, ApplyBuild,
         ApplyDone, ZoneLock, ApplyNoDC, ApplyOrder, UpdateCall, ApplyGiveUp, UpdateOK, UpdateCredit,
         UpdateFailed, UpdateFailover, Return, ClientGone, shared
<1>4. axfrMu' \in Threads \cup {Nobody} /\ zlock' \in [Zones -> Threads \cup {Nobody}]
  <2>1. CASE UNCHANGED <<axfrMu, zlock>>
    BY <2>1 DEF SharedTypes
  <2>2. CASE ListLock(t) \/ ListUnlock(t)
    BY <2>2 DEF ListLock, ListUnlock, SharedTypes
  <2>3. CASE ZoneLock(t) \/ ApplyNoDC(t) \/ ApplyGiveUp(t) \/ UpdateCredit(t) \/ UpdateFailed(t)
    BY <2>3 DEF ZoneLock, ApplyNoDC, ApplyGiveUp, UpdateCredit, UpdateFailed, ZoneReturn, SharedTypes
  <2> QED
    BY <2>1, <2>2, <2>3
    DEF Acts, Begin, Step, ListStep, ApplyStep, ProbeHost, BeginList, ListNoDC, ListZone, AxfrCall,
        AxfrZoneFailed, ListPin, ListStore, ListCharge, BeginApply, ApplyBuild, ApplyDone,
        ApplyOrder, UpdateCall, UpdateOK, UpdateFailover, Return, ClientGone, shared
<1>5. /\ actor' \in Owners \cup {Nobody, Admin}
      /\ \A cs \in late' : cs.zone \in Zones /\ cs.owner \in Owners
  <2>1. CASE UNCHANGED server
    BY <2>1 DEF SharedTypes, server
  <2>2. CASE UpdateCall(t)
    <3>1. sending[t].zone \in Zones /\ sending[t].owner \in Owners
      BY <1>1, <2>2 DEF LocalTypes, UpdateCall, BusyPCs, ApplyPCs
    <3>2. late' \subseteq late \cup {sending[t]} /\ actor' \in {actor, sending[t].owner}
      BY <2>2 DEF UpdateCall, Process
    <3> QED BY <3>1, <3>2 DEF SharedTypes
  <2> QED
    BY <2>1, <2>2
    DEF Acts, Begin, Step, ListStep, ApplyStep, ProbeHost, BeginList, ListLock, ListNoDC, ListZone, AxfrCall,
        AxfrZoneFailed, ListPin, ListStore, ListCharge, ListUnlock, BeginApply, ApplyBuild, ApplyDone,
        ZoneLock, ApplyNoDC, ApplyOrder, ApplyGiveUp, UpdateOK, UpdateCredit, UpdateFailed,
        UpdateFailover, Return, ClientGone
<1> QED BY <1>2, <1>3, <1>4, <1>5 DEF SharedTypes

-----------------------------------------------------------------------------
(* The mutexes *)

\* Steps that take and release nothing.
LEMMA LocksUntouched ==
    ASSUME LocksHeldExactly, NEW t \in Threads, OnlyMoves(t), UNCHANGED <<axfrMu, zlock>>,
           pc'[t] \in ListPCs <=> pc[t] \in ListPCs,
           pc'[t] \in ApplyPCs <=> pc[t] \in ApplyPCs,
           pc[t] \in ApplyPCs => sending'[t] = sending[t]
    PROVE  LocksHeldExactly'
<1> SUFFICES ASSUME NEW s \in Threads
             PROVE  /\ pc'[s] \in ListPCs <=> axfrMu' = s
                    /\ \A z \in Zones : pc'[s] \in ApplyPCs /\ sending'[s].zone = z <=> zlock'[z] = s
  BY DEF LocksHeldExactly, Zone
<1>1. CASE s = t
  BY <1>1 DEF LocksHeldExactly, Zone
<1>2. CASE s # t
  BY <1>2 DEF LocksHeldExactly, Zone, OnlyMoves
<1> QED BY <1>1, <1>2

\* Every step of a goroutine keeps the mutexes with the sections they protect.
LEMMA GoroutineLocks ==
    ASSUME Shape, LocalsInv, SharedTypes, LocksHeldExactly, NEW t \in Threads, Acts(t)
    PROVE  LocksHeldExactly'
<1>1. OnlyMoves(t)
  BY GoroutineMoves DEF Moved
<1>2. LocalTypes(pc[t], th[t], req[t], sending[t])
  BY DEF LocalsInv, LocalInv
<1>3. t # Nobody
  BY ThreadAssumption
<1>4. CASE ListLock(t)
  <2>1. /\ pc[t] = "listLock" /\ pc'[t] \in ListPCs /\ axfrMu = Nobody /\ axfrMu' = t
        /\ UNCHANGED <<zlock, sending>>
    BY <1>4 DEF ListLock, Goto, Shape, ListPCs, work
  <2> QED BY <1>1, <2>1, ThreadAssumption DEF LocksHeldExactly, Zone, OnlyMoves, ListPCs, ApplyPCs
<1>5. CASE ListUnlock(t)
  <2>1. /\ pc[t] \in ListPCs /\ pc'[t] = "return" /\ axfrMu' = Nobody
        /\ UNCHANGED <<zlock, sending>>
    BY <1>5 DEF ListUnlock, Goto, Shape, ListPCs, work
  <2> QED BY <1>1, <2>1, ThreadAssumption DEF LocksHeldExactly, Zone, OnlyMoves, ListPCs, ApplyPCs
<1>6. CASE ZoneLock(t)
  <2>1. /\ pc[t] = "applyLock" /\ pc'[t] = "applyProbe" /\ zlock[Zone(t)] = Nobody
        /\ zlock' = [zlock EXCEPT ![Zone(t)] = t] /\ UNCHANGED <<axfrMu, sending>>
    BY <1>6 DEF ZoneLock, Goto, Shape, work
  <2>2. DOMAIN zlock = Zones
    BY DEF SharedTypes
  <2> QED BY <1>1, <2>1, <2>2, ThreadAssumption DEF LocksHeldExactly, Zone, OnlyMoves, ListPCs, ApplyPCs
<1>7. CASE ApplyNoDC(t) \/ ApplyGiveUp(t) \/ UpdateCredit(t) \/ UpdateFailed(t)
  <2>1. /\ pc[t] \in ApplyPCs /\ pc'[t] = "apply" /\ UNCHANGED axfrMu
        /\ zlock' = [zlock EXCEPT ![Zone(t)] = Nobody]
    BY <1>7 DEF ApplyNoDC, ApplyGiveUp, UpdateCredit, UpdateFailed, ZoneReturn, Goto, Shape, ApplyPCs
  <2>2. DOMAIN zlock = Zones
    BY DEF SharedTypes
  <2> QED BY <1>1, <2>1, <2>2, ThreadAssumption DEF LocksHeldExactly, Zone, OnlyMoves, ListPCs, ApplyPCs
<1>8. CASE ListNoDC(t) \/ ListZone(t) \/ AxfrCall(t) \/ AxfrZoneFailed(t)
           \/ ListPin(t) \/ ListStore(t) \/ ListCharge(t)
  <2>1. pc[t] \in ListPCs /\ pc'[t] \in ListPCs /\ UNCHANGED <<axfrMu, zlock, sending>>
    BY <1>8 DEF ListNoDC, ListZone, AxfrCall, AxfrZoneFailed, ListPin, ListStore, ListCharge, Goto,
                Shape, ListPCs, work, shared
  <2> QED BY <1>1, <2>1, LocksUntouched DEF ListPCs, ApplyPCs
<1>9. CASE ApplyOrder(t) \/ UpdateCall(t) \/ UpdateOK(t) \/ UpdateFailover(t)
  <2>1. pc[t] \in ApplyPCs /\ pc'[t] \in ApplyPCs /\ UNCHANGED <<axfrMu, zlock, sending>>
    BY <1>9 DEF ApplyOrder, UpdateCall, UpdateOK, UpdateFailover, Goto, Shape, ApplyPCs, work, shared
  <2> QED BY <1>1, <2>1, LocksUntouched DEF ListPCs, ApplyPCs
<1>10. CASE Begin(t) \/ ApplyBuild(t) \/ ApplyDone(t) \/ Return(t)
  <2> DEFINE outside == {"idle", "listLock", "apply", "applyLock", "return"}
  <2>1. pc[t] \in outside /\ pc'[t] \in outside /\ UNCHANGED <<axfrMu, zlock>>
    BY <1>10 DEF Begin, BeginList, BeginApply, ApplyBuild, ApplyDone, Return, Goto, Shape, shared
  <2> QED BY <1>1, <2>1, LocksUntouched DEF ListPCs, ApplyPCs
<1>11. CASE ProbeHost(t) \/ ClientGone(t)
  <2>1. UNCHANGED <<pc, axfrMu, zlock, sending>>
    BY <1>11 DEF ProbeHost, ClientGone, work, shared
  <2> QED BY <1>1, <2>1, LocksUntouched
<1> QED
  BY <1>4, <1>5, <1>6, <1>7, <1>8, <1>9, <1>10, <1>11 DEF Acts, Begin, Step, ListStep, ApplyStep

-----------------------------------------------------------------------------
(* Every step *)

\* What every step keeps: the mutexes need the types (an apply's zone exists),
\* the breaker needs them too (only configured DCs are charged).
RequestInv == Shape /\ LocalsInv /\ SharedTypes /\ BreakerInv /\ LocksHeldExactly

\* A fresh sidecar satisfies the invariant.
LEMMA RequestInvStart == Init => RequestInv
<1> SUFFICES ASSUME Init PROVE RequestInv
  OBVIOUS
<1>1. Shape /\ LocalsInv
  BY FreshLocal DEF Init, Shape, LocalsInv
<1>2. SharedTypes
  BY DEF Init, SharedTypes
<1>3. BreakerInv
  BY NewBreakerInv DEF Init, BreakerInit
<1>4. LocksHeldExactly
  BY ThreadAssumption DEF Init, LocksHeldExactly, ListPCs, ApplyPCs
<1> QED BY <1>1, <1>2, <1>3, <1>4 DEF RequestInv

\* Steps of the environment that no goroutine takes part in.
LEMMA OutsideStep ==
    ASSUME RequestInv, UNCHANGED <<pc, work, th, shared>>, BreakerInv',
           actor' \in Owners \cup {Nobody, Admin}, late' \subseteq late
    PROVE  RequestInv'
<1>1. Shape' /\ LocalsInv'
  BY DEF RequestInv, Shape, LocalsInv, work
<1>2. SharedTypes'
  BY DEF RequestInv, SharedTypes, shared
<1>3. LocksHeldExactly'
  BY DEF RequestInv, LocksHeldExactly, Zone, shared, work
<1> QED BY <1>1, <1>2, <1>3 DEF RequestInv

\* Every step of goroutines and environment keeps the invariant.
LEMMA RequestInvStep ==
    ASSUME RequestInv, OpenNext
    PROVE  RequestInv'
<1>1. ASSUME NEW t \in Threads, Acts(t)
      PROVE  RequestInv'
  <2>1. Moved(t) /\ SharedTypes' /\ BreakerInv' /\ LocksHeldExactly'
    BY <1>1, GoroutineMoves, GoroutineShared, GoroutineBreaker, GoroutineLocks DEF RequestInv
  <2>2. LocalsInv'
    BY <2>1 DEF RequestInv, LocalsInv, Moved, OnlyMoves
  <2> QED BY <2>1, <2>2 DEF RequestInv, Moved
<1>2. CASE LateArrival
  <2>1. PICK cs \in late : late' = late \ {cs} /\ actor' \in {actor, cs.owner}
    BY <1>2 DEF LateArrival, Process
  <2>2. actor' \in Owners \cup {Nobody, Admin}
    BY <2>1 DEF RequestInv, SharedTypes
  <2>3. UNCHANGED <<breaker, pc, work, th, shared>>
    BY <1>2 DEF LateArrival
  <2> QED BY <2>1, <2>2, <2>3, OutsideStep, BreakerStays DEF RequestInv
<1>3. CASE AdminEdit
  <2>1. UNCHANGED <<breaker, pc, work, th, shared>> /\ actor' = Admin /\ late' = late
    BY <1>3 DEF AdminEdit
  <2> QED BY <2>1, OutsideStep, BreakerStays DEF RequestInv
<1>4. CASE Restart
  <2>1. Shape' /\ LocalsInv'
    BY <1>4, FreshLocal DEF Restart, Shape, LocalsInv
  <2>2. SharedTypes'
    BY <1>4 DEF Restart, SharedTypes, RequestInv, server
  <2>3. BreakerInv'
    BY <1>4, ThresholdPositive
    DEF Restart, RequestInv, BreakerInv, BreakerTypeOK, CircuitMatchesStreak, ExclusionBounded,
        IsOpen, NotSet
  <2>4. LocksHeldExactly'
    BY <1>4, ThreadAssumption DEF Restart, LocksHeldExactly, ListPCs, ApplyPCs
  <2> QED BY <2>1, <2>2, <2>3, <2>4 DEF RequestInv
<1>5. CASE TimePasses
  <2>1. UNCHANGED <<pc, work, th, shared, server>> /\ Tick
    BY <1>5 DEF TimePasses
  <2> QED BY <2>1, OutsideStep, TickInv DEF RequestInv, SharedTypes, server
<1>6. CASE UNCHANGED vars
  <2>1. UNCHANGED <<breaker, pc, work, th, shared, server>>
    BY <1>6 DEF vars
  <2> QED BY <2>1, OutsideStep, BreakerStays DEF RequestInv, SharedTypes, server
<1> QED BY <1>1, <1>2, <1>3, <1>4, <1>5, <1>6 DEF OpenNext

-----------------------------------------------------------------------------
(* The answer of GET /records and the cache *)

\* RFC2136_ZONES lists no zone twice (parseZones does not remove repetitions).
DistinctZones == \A i, j \in DOMAIN ZoneList : ZoneList[i] = ZoneList[j] => i = j

\* What the first n - 1 zones of cache c report.
Reported(c, n) == UNION {endpointsFromRecords(c[ZoneList[i]]) : i \in 1..(n - 1)}

\* A list has collected exactly what the cache holds of the zones behind it.
Collected(p, l, c) ==
    /\ p \in {"idle", "listLock"} => l.out = {} /\ l.zi = 1
    /\ p \in ListPCs => l.out = Reported(c, l.zi)
    /\ p = "listCharge" => l.zi = Len(ZoneList) + 1

AnswerInv == \A t \in Threads : Collected(pc[t], th[t], cache)

\* A zone that is read anew adds what it reports, and changes nothing before it.
LEMMA ReportedNext ==
    ASSUME DistinctZones, NEW n \in DOMAIN ZoneList, NEW c, NEW d,
           \A z \in Zones : z # ZoneList[n] => d[z] = c[z]
    PROVE  Reported(d, n + 1) = Reported(c, n) \cup endpointsFromRecords(d[ZoneList[n]])
<1>1. Len(ZoneList) \in Nat /\ DOMAIN ZoneList = 1..Len(ZoneList)
  BY ConfigAssumption, LenProperties
<1>2. n \in 1..Len(ZoneList)
  BY <1>1
<1>3. \A i \in 1..(n - 1) : d[ZoneList[i]] = c[ZoneList[i]]
  <2> SUFFICES ASSUME NEW i \in 1..(n - 1) PROVE d[ZoneList[i]] = c[ZoneList[i]]
    OBVIOUS
  <2>1. i \in DOMAIN ZoneList /\ i # n
    BY <1>1, <1>2
  <2>2. ZoneList[i] # ZoneList[n] /\ ZoneList[i] \in Zones
    BY <2>1 DEF DistinctZones, Zones
  <2> QED BY <2>2
<1>4. 1..((n + 1) - 1) = 1..(n - 1) \cup {n}
  BY <1>2
<1>5. {endpointsFromRecords(d[ZoneList[i]]) : i \in 1..((n + 1) - 1)} =
      {endpointsFromRecords(c[ZoneList[i]]) : i \in 1..(n - 1)} \cup {endpointsFromRecords(d[ZoneList[n]])}
  BY <1>2, <1>3, <1>4
<1> QED BY <1>5 DEF Reported

\* An empty zone reports nothing.
LEMMA NothingReported == endpointsFromRecords({}) = {}
BY DEF endpointsFromRecords

\* One goroutine's step, seen by the others: whoever writes the cache holds
\* axfrMu, so no other list is under way.
LEMMA AnswerMoves ==
    ASSUME AnswerInv, LocksHeldExactly, NEW t \in Threads, OnlyMoves(t),
           Collected(pc'[t], th'[t], cache'),
           cache' = cache \/ pc[t] \in ListPCs
    PROVE  AnswerInv'
<1> SUFFICES ASSUME NEW s \in Threads PROVE Collected(pc'[s], th'[s], cache')
  BY DEF AnswerInv
<1>1. CASE s = t
  BY <1>1
<1>2. CASE s # t
  <2>1. pc'[s] = pc[s] /\ th'[s] = th[s] /\ Collected(pc[s], th[s], cache)
    BY <1>2 DEF OnlyMoves, AnswerInv
  <2>2. cache' = cache \/ pc[s] \notin ListPCs
    BY <1>2 DEF LocksHeldExactly
  <2> QED BY <2>1, <2>2 DEF Collected, ListPCs
<1> QED BY <1>1, <1>2

\* Every step of a goroutine keeps the answers it and others collect.
LEMMA GoroutineAnswer ==
    ASSUME DistinctZones, RequestInv, AnswerInv, NEW t \in Threads, Acts(t)
    PROVE  AnswerInv'
<1> DEFINE l == th[t]
           m == th'[t]
<1>1. OnlyMoves(t) /\ Shape
  BY GoroutineMoves DEF RequestInv, Moved
<1>2. LocalTypes(pc[t], l, req[t], sending[t]) /\ Collected(pc[t], l, cache)
  BY DEF RequestInv, LocalsInv, LocalInv, AnswerInv
<1>3. SUFFICES Collected(pc'[t], m, cache') /\ (cache' = cache \/ pc[t] \in ListPCs)
  BY <1>1, AnswerMoves DEF RequestInv
<1>4. Len(ZoneList) \in Nat /\ DOMAIN ZoneList = 1..Len(ZoneList) /\ DOMAIN cache = Zones
  BY ConfigAssumption, LenProperties DEF RequestInv, SharedTypes
<1>5. CASE AxfrZoneFailed(t)
  <2>1. /\ pc[t] = "axfr" /\ pc'[t] = "listZone" /\ m.zi = l.zi + 1 /\ m.out = l.out
        /\ cache' = [cache EXCEPT ![ZoneList[l.zi]] = {}]
    BY <1>1, <1>5 DEF AxfrZoneFailed, Goto, Shape, Fields
  <2>2. l.zi \in DOMAIN ZoneList /\ l.out = Reported(cache, l.zi)
    BY <1>2, <2>1 DEF LocalTypes, Collected, ListPCs
  <2>3. cache'[ZoneList[l.zi]] = {} /\ \A z \in Zones : z # ZoneList[l.zi] => cache'[z] = cache[z]
    BY <1>4, <2>1, <2>2 DEF Zones
  <2>4. Reported(cache', l.zi + 1) =
        Reported(cache, l.zi) \cup endpointsFromRecords(cache'[ZoneList[l.zi]])
    BY <2>2, <2>3, ReportedNext
  <2>5. m.out = Reported(cache', m.zi)
    BY <2>1, <2>2, <2>3, <2>4, NothingReported
  <2> QED BY <2>1, <2>5 DEF Collected, ListPCs
<1>6. CASE ListStore(t)
  <2>1. /\ pc[t] = "listStore" /\ pc'[t] = "listZone" /\ m.zi = l.zi + 1
        /\ m.out = l.out \cup endpointsFromRecords(l.got)
        /\ cache' = [cache EXCEPT ![ZoneList[l.zi]] = l.got]
    BY <1>1, <1>6 DEF ListStore, Goto, Shape, Fields
  <2>2. l.zi \in DOMAIN ZoneList /\ l.out = Reported(cache, l.zi)
    BY <1>2, <2>1 DEF LocalTypes, Collected, ListPCs
  <2>3. cache'[ZoneList[l.zi]] = l.got /\ \A z \in Zones : z # ZoneList[l.zi] => cache'[z] = cache[z]
    BY <1>4, <2>1, <2>2 DEF Zones
  <2>4. Reported(cache', l.zi + 1) = Reported(cache, l.zi) \cup endpointsFromRecords(l.got)
    BY <2>2, <2>3, ReportedNext
  <2>5. m.out = Reported(cache', m.zi)
    BY <2>1, <2>2, <2>4
  <2> QED BY <2>1, <2>5 DEF Collected, ListPCs
<1>7. CASE ListNoDC(t) \/ ListZone(t) \/ AxfrCall(t) \/ ListPin(t) \/ ListCharge(t)
  <2>1. /\ pc[t] \in ListPCs /\ pc'[t] \in ListPCs /\ cache' = cache
        /\ m.zi = l.zi /\ m.out = l.out
        /\ pc'[t] = "listCharge" => pc[t] = "listCharge" \/ l.zi \notin DOMAIN ZoneList
    BY <1>1, <1>7
    DEF ListNoDC, ListZone, AxfrCall, ListPin, ListCharge, Goto, Shape, Fields, ListPCs, shared
  <2>2. l.zi \in 1..(Len(ZoneList) + 1)
    BY <1>2 DEF LocalTypes
  <2>3. pc'[t] = "listCharge" => l.zi = Len(ZoneList) + 1
    BY <1>2, <1>4, <2>1, <2>2 DEF Collected
  <2> QED BY <1>2, <2>1, <2>3 DEF Collected, ListPCs
<1>8. CASE ListLock(t) \/ BeginList(t)
  <2>1. /\ pc[t] \in {"idle", "listLock"} /\ pc'[t] \in {"listLock", "listProbe", "listUnlock"}
        /\ m = l /\ cache' = cache
    BY <1>1, <1>8 DEF ListLock, BeginList, Goto, Shape, shared
  <2>2. l.out = {} /\ l.zi = 1
    BY <1>2, <2>1 DEF Collected
  <2>3. Reported(cache, 1) = {}
    BY DEF Reported
  <2> QED BY <2>1, <2>2, <2>3 DEF Collected, ListPCs
<1>9. CASE ProbeHost(t) \/ ClientGone(t)
  <2>1. pc'[t] = pc[t] /\ m.out = l.out /\ m.zi = l.zi /\ cache' = cache
    BY <1>1, <1>9 DEF ProbeHost, ClientGone, Shape, Fields, shared
  <2> QED BY <1>2, <2>1 DEF Collected
<1>10. CASE Return(t)
  <2>1. pc'[t] = "idle" /\ m = Fresh /\ cache' = cache
    BY <1>1, <1>10 DEF Return, Goto, Shape, shared
  <2> QED BY <2>1 DEF Collected, ListPCs, Fresh
<1>11. CASE ListUnlock(t) \/ (\E q : BeginApply(t, q)) \/ ApplyStep(t)
  <2>1. cache' = cache /\ pc'[t] \in PCs \ ({"idle", "listLock"} \cup ListPCs)
    <3>1. CASE ApplyNoDC(t) \/ ApplyGiveUp(t) \/ UpdateCredit(t) \/ UpdateFailed(t)
      BY <1>1, <3>1
      DEF ApplyNoDC, ApplyGiveUp, UpdateCredit, UpdateFailed, ZoneReturn, Goto, Shape, PCs, ListPCs
    <3>2. CASE ListUnlock(t) \/ (\E q : BeginApply(t, q)) \/ ApplyBuild(t) \/ ApplyDone(t) \/ ZoneLock(t)
      BY <1>1, <3>2
      DEF ListUnlock, BeginApply, ApplyBuild, ApplyDone, ZoneLock, Goto, Shape, PCs, ListPCs, ApplyPCs, shared
    <3>3. CASE ApplyOrder(t) \/ UpdateCall(t) \/ UpdateOK(t) \/ UpdateFailover(t)
      BY <1>1, <3>3
      DEF ApplyOrder, UpdateCall, UpdateOK, UpdateFailover, Goto, Shape, PCs, ListPCs, ApplyPCs, shared
    <3> QED BY <1>11, <3>1, <3>2, <3>3 DEF ApplyStep
  <2> QED BY <2>1 DEF Collected, ListPCs
<1> QED BY <1>5, <1>6, <1>7, <1>8, <1>9, <1>10, <1>11 DEF Acts, Begin, Step, ListStep

\* Every step of the system does.
LEMMA AnswerInvStep ==
    ASSUME DistinctZones, RequestInv, AnswerInv, OpenNext
    PROVE  AnswerInv'
<1>1. CASE \E t \in Threads : Acts(t)
  BY <1>1, GoroutineAnswer
<1>2. CASE Restart
  BY <1>2 DEF Restart, AnswerInv, Collected, Fresh, ListPCs
<1>3. CASE LateArrival \/ AdminEdit \/ TimePasses \/ UNCHANGED vars
  <2>1. UNCHANGED <<pc, th, cache>>
    BY <1>3 DEF LateArrival, AdminEdit, TimePasses, vars, shared
  <2> QED BY <2>1 DEF AnswerInv
<1> QED BY <1>1, <1>2, <1>3 DEF OpenNext

-----------------------------------------------------------------------------

\* A goroutine applies one of Requests or nothing.
LEMMA PayloadsKnown ==
    ASSUME req \in [Threads -> Requests \cup {NoRequest}], [Next]_vars
    PROVE  req' \in [Threads -> Requests \cup {NoRequest}]
<1>1. CASE UNCHANGED req
  BY <1>1
<1>2. ASSUME NEW t \in Threads, StartApply(t) \/ Return(t)
      PROVE  req' \in [Threads -> Requests \cup {NoRequest}]
  BY <1>2 DEF StartApply, BeginApply, Return
<1>3. CASE Restart
  BY <1>3 DEF Restart
<1>4. ASSUME NEW t \in Threads, Step(t) \/ StartList(t) \/ ClientGone(t), ~Return(t)
      PROVE  UNCHANGED req
  BY <1>4
  DEF Step, ListStep, ApplyStep, ProbeHost, StartList, BeginList, ListLock, ListNoDC, ListZone,
      AxfrCall, AxfrZoneFailed, ListPin, ListStore, ListCharge, ListUnlock, ApplyBuild, ApplyDone,
      ZoneLock, ApplyNoDC, ApplyOrder, UpdateCall, ApplyGiveUp, UpdateOK, UpdateCredit, UpdateFailed,
      UpdateFailover, ZoneReturn, ClientGone, work
<1>5. CASE LateArrival \/ AdminEdit \/ TimePasses \/ Quiescent \/ UNCHANGED vars
  <2>1. UNCHANGED req
    BY <1>5 DEF LateArrival, AdminEdit, TimePasses, Quiescent, vars, work
  <2> QED BY <1>1, <2>1
<1>6. CASE \E t \in Threads : Step(t) \/ StartList(t) \/ StartApply(t) \/ ClientGone(t)
  BY <1>1, <1>2, <1>4, <1>6
<1> QED BY <1>3, <1>5, <1>6 DEF Next

\* The goroutines, the caches and mutexes they share, and the breaker they
\* drive keep their types, with any number of goroutines, DCs and zones.
THEOREM TypeOKHolds == Spec => []TypeOK
<1> DEFINE Inv == RequestInv /\ req \in [Threads -> Requests \cup {NoRequest}]
<1>1. Init => Inv
  <2>1. Init => req \in [Threads -> Requests \cup {NoRequest}]
    BY DEF Init
  <2> QED BY <2>1, RequestInvStart
<1>2. Inv /\ [Next]_vars => Inv'
  BY NextIsOpen, RequestInvStep, PayloadsKnown
<1>3. Inv => TypeOK
  BY DEF RequestInv, LocalsInv, LocalInv, LocalTypes, SharedTypes, BreakerInv, TypeOK
<1> HIDE DEF Inv
<1> QED BY <1>1, <1>2, <1>3, PTL DEF Spec

\* axfrMu and the zone mutexes are held exactly inside the sections they
\* protect: no return path of ListRecords or applyZone, no failover, crash or
\* disconnect leaves one held or lets two goroutines into one section.
THEOREM LocksHeldExactlyHolds == Spec => []LocksHeldExactly
<1>1. Init => RequestInv
  BY RequestInvStart
<1>2. RequestInv /\ [Next]_vars => RequestInv'
  BY NextIsOpen, RequestInvStep
<1>3. RequestInv => LocksHeldExactly
  BY DEF RequestInv
<1> QED BY <1>1, <1>2, <1>3, PTL DEF Spec

\* A POST /records is answered 204 only if every zone's change set was applied
\* by a DC, however the request walked over the DCs and whatever was lost.
THEOREM AckedMeansAppliedHolds == Spec => []AckedMeansApplied
<1>1. Init => RequestInv
  BY RequestInvStart
<1>2. RequestInv /\ [Next]_vars => RequestInv'
  BY NextIsOpen, RequestInvStep
<1>3. RequestInv => AckedMeansApplied
  BY DEF RequestInv, LocalsInv, LocalInv, Acked, AckedMeansApplied
<1> QED BY <1>1, <1>2, <1>3, PTL DEF Spec

\* The breaker keeps its invariants when any number of concurrent requests
\* call it, in any order, and the sidecar restarts.
THEOREM SharedBreakerCorrect == Spec => [](CircuitMatchesStreak /\ ExclusionBounded)
<1>1. Init => RequestInv
  BY RequestInvStart
<1>2. RequestInv /\ [Next]_vars => RequestInv'
  BY NextIsOpen, RequestInvStep
<1>3. RequestInv => CircuitMatchesStreak /\ ExclusionBounded
  BY DEF RequestInv, BreakerInv
<1> QED BY <1>1, <1>2, <1>3, PTL DEF Spec

\* When GET /records is about to answer, the cache says what the answer says,
\* provided no zone is configured twice: with a repeated zone, the second
\* transfer can fail and empty the cache behind an answer already collected.
THEOREM AnswerMatchesCacheHolds == ASSUME DistinctZones PROVE Spec => []AnswerMatchesCache
<1> DEFINE Inv == RequestInv /\ AnswerInv
<1>1. Init => Inv
  <2>1. Init => AnswerInv
    BY DEF Init, AnswerInv, Collected, Fresh, ListPCs
  <2> QED BY <2>1, RequestInvStart
<1>2. Inv /\ [Next]_vars => Inv'
  BY NextIsOpen, RequestInvStep, AnswerInvStep
<1>3. Inv => AnswerMatchesCache
  <2> SUFFICES ASSUME Inv, NEW t \in Threads, pc[t] = "listCharge"
               PROVE  th[t].out = UNION {endpointsFromRecords(cache[z]) : z \in Zones}
    BY DEF AnswerMatchesCache
  <2>1. th[t].out = Reported(cache, th[t].zi) /\ th[t].zi = Len(ZoneList) + 1
    BY DEF AnswerInv, Collected, ListPCs
  <2>2. Len(ZoneList) \in Nat /\ DOMAIN ZoneList = 1..Len(ZoneList)
    BY ConfigAssumption, LenProperties
  <2>3. 1..(th[t].zi - 1) = DOMAIN ZoneList
    BY <2>1, <2>2
  <2>4. {endpointsFromRecords(cache[ZoneList[i]]) : i \in DOMAIN ZoneList} =
        {endpointsFromRecords(cache[z]) : z \in Zones}
    BY DEF Zones
  <2> QED BY <2>1, <2>3, <2>4 DEF Reported
<1> HIDE DEF Inv
<1> QED BY <1>1, <1>2, <1>3, PTL DEF Spec

=============================================================================
