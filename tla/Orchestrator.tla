---------------------------- MODULE Orchestrator ----------------------------
(***************************************************************************)
(* The orchestrator (internal/orchestrator/orchestrator.go) at work: the   *)
(* goroutines of concurrent GET /records and POST /records requests, the   *)
(* state they share (transfer cache, zone pins, zone locks, axfrMu and the *)
(* circuit breaker), and the DCs they talk to.                             *)
(*                                                                         *)
(* A step is what a goroutine does between two points where another one    *)
(* can see or change shared state: one acquisition of a lock, one call of  *)
(* the breaker, one access to cache or pins, one exchange with a DC.       *)
(*                                                                         *)
(* Environment: the DCs serve one replicated zone content (replication is  *)
(* not modelled), lose replies, refuse, or process an UPDATE after the     *)
(* client stopped waiting; clients disconnect; an administrator edits the  *)
(* zone; the sidecar restarts.                                             *)
(***************************************************************************)
EXTENDS DCBreaker, Ownership

CONSTANTS
    Threads,       \* request goroutines
    HostList,      \* RFC2136_HOSTS, in the configured order
    DryRun,        \* RFC2136_DRY_RUN
    Owners,        \* the owner labels of the operators
    Requests,      \* the POST /records payloads operators may send
    AdminRecords,  \* records an administrator may add by hand
    InitialZone,   \* the content of each zone at the start
    Faults,        \* which failures of exchanges can happen
    MaxRequests,   \* bound: requests started
    MaxEdits,      \* bound: edits of the administrator
    MaxLate,       \* bound: UPDATEs waiting to be processed late
    MaxCancels,    \* bound: clients that disconnect
    MaxCrashes     \* bound: restarts

ASSUME HostAssumption ==
    HostList \in Seq(DCs) /\ DCs = {HostList[i] : i \in DOMAIN HostList}

ASSUME OrchestratorBoundsAssumption ==
    /\ DryRun \in BOOLEAN
    /\ {MaxRequests, MaxEdits, MaxLate, MaxCancels, MaxCrashes} \subseteq Nat

ASSUME RequestAssumption ==
    NoOwner \notin Owners /\ \A q \in Requests : q.owner \in Owners /\ WellFormed(q)

\* An administrator adds ordinary records, not ownership markers, and nobody
\* has left a marker with two labels.
ASSUME ZoneContentAssumption ==
    /\ \A r \in AdminRecords : r.type # "TXT" /\ r.name \in Names
    /\ InitialZone = [z \in Zones |-> InitialZone[z]]
    /\ \A z \in Zones :
        (\A r \in InitialZone[z] : r.name \in Names) /\ OneLabelPerMarker(InitialZone[z])

VARIABLES
    pc,            \* where every goroutine is
    req,           \* the payload it applies
    sending,       \* the change set it is sending
    th,            \* its other local variables
    pins, cache,   \* ZonePins and AXFRCache (an absent entry reads as {})
    axfrMu, zlock, \* who holds ListRecords' mutex and each zone's mutex
    rrs,           \* what the DCs serve for each zone
    late,          \* UPDATEs a DC will process although the client gave up
    actor,         \* history: whose request, or which outsider, wrote last
    used           \* how much of each bound has been used

breaker == <<fails, opens, openUntil, now>>
work == <<req, sending>>
shared == <<pins, cache, axfrMu, zlock>>
server == <<rrs, late, actor>>
vars == <<breaker, pc, work, th, shared, server, used>>

NoDC == "no DC"
Nobody == "nobody"
Admin == "administrator"

\* No goroutine is called what a free mutex is marked with.
ASSUME ThreadAssumption == Nobody \notin Threads

NoRequest == [owner |-> NoOwner, create |-> <<>>, updateOld |-> <<>>,
              updateNew |-> <<>>, delete |-> <<>>]
NoChangeSet == [zone |-> NoZone, owner |-> NoOwner, prereqs |-> {}, changes |-> <<>>]

Fresh == [todo |-> {},          \* zones an apply has not looked at yet
         zi |-> 1,             \* which zone a list is at
         at |-> 1,             \* next host to probe
         avail |-> <<>>,       \* availableDCs
         walk |-> <<>>,        \* DCs of the failover walk still to try
         tried |-> {}, won |-> {},  \* dcsTried, dcsSucceeded
         got |-> {},           \* records of the last transfer
         res |-> NoResult,     \* result of the last UPDATE
         out |-> {},           \* endpoints a list will report
         err |-> FALSE,        \* the request will answer 500
         gone |-> FALSE,       \* ctx is cancelled
         owed |-> {}]          \* history: zones with changes no DC applied

Zone(t) == sending[t].zone
Goto(t, label) == pc' = [pc EXCEPT ![t] = label]

Init ==
    /\ BreakerInit
    /\ pc = [t \in Threads |-> "idle"]
    /\ req = [t \in Threads |-> NoRequest]
    /\ sending = [t \in Threads |-> NoChangeSet]
    /\ th = [t \in Threads |-> Fresh]
    /\ pins = [z \in Zones |-> NoDC]
    /\ cache = [z \in Zones |-> {}]
    /\ axfrMu = Nobody
    /\ zlock = [z \in Zones |-> Nobody]
    /\ rrs = InitialZone
    /\ late = {}
    /\ actor = Nobody
    /\ used = [requests |-> 0, edits |-> 0, cancels |-> 0, crashes |-> 0]

-----------------------------------------------------------------------------
(* Probing the breaker and ordering the walk *)

\* The pin first if it is available, then the rest.  The loop skips the first
\* element of the order only while the order has no second one.
dcOrderForZone(pin, avail) ==
    IF avail = <<>>
    THEN <<>>
    ELSE LET first == IF \E i \in DOMAIN avail : avail[i] = pin THEN pin ELSE avail[1]
             rest == {i \in DOMAIN avail : avail[i] # first}
         IN  IF rest = {}
             THEN <<first>>
             ELSE <<first>> \o SubSeq(avail, CHOOSE i \in rest : \A j \in rest : i <= j, Len(avail))

\* availableDCs: one call of the breaker per host.
ProbeHost(t) ==
    /\ pc[t] \in {"listProbe", "applyProbe"}
    /\ th[t].at \in DOMAIN HostList
    /\ LET dc == HostList[th[t].at]
       IN  /\ IsAvailable(dc)
           /\ th' = [th EXCEPT ![t].at = @ + 1,
                               ![t].avail = IF Available(dc) THEN Append(@, dc) ELSE @]
    /\ UNCHANGED <<now, pc, work, shared, server, used>>

-----------------------------------------------------------------------------
(* GET /records: ListRecords *)

\* The handler calls ListRecords.
BeginList(t) ==
    /\ pc[t] = "idle"
    /\ Goto(t, "listLock")
    /\ UNCHANGED <<breaker, work, th, shared, server>>

StartList(t) ==
    /\ BeginList(t)
    /\ used.requests < MaxRequests
    /\ used' = [used EXCEPT !.requests = @ + 1]

\* With AXFR disabled the answer is empty.
ListLock(t) ==
    /\ pc[t] = "listLock"
    /\ axfrMu = Nobody
    /\ axfrMu' = t
    /\ Goto(t, IF AxfrEnabled THEN "listProbe" ELSE "listUnlock")
    /\ UNCHANGED <<breaker, work, th, pins, cache, zlock, server, used>>

\* Mutant of ListNoDC: waits for a circuit to close instead of answering.
ListNoDCRetries(t) ==
    /\ pc[t] = "listProbe"
    /\ th[t].at \notin DOMAIN HostList
    /\ th[t].avail = <<>>
    /\ th' = [th EXCEPT ![t].at = 1]
    /\ UNCHANGED <<breaker, pc, work, shared, server, used>>

\* All circuits are open.
ListNoDC(t) ==
    /\ pc[t] = "listProbe"
    /\ th[t].at \notin DOMAIN HostList
    /\ th[t].avail = <<>>
    /\ Goto(t, "listUnlock")
    /\ th' = [th EXCEPT ![t].err = TRUE]
    /\ UNCHANGED <<breaker, work, shared, server, used>>

\* The next zone's walk, or the bookkeeping once every zone is done.
ListZone(t) ==
    /\ \/ pc[t] = "listProbe" /\ th[t].at \notin DOMAIN HostList /\ th[t].avail # <<>>
       \/ pc[t] = "listZone"
    /\ IF th[t].zi \in DOMAIN ZoneList
       THEN /\ Goto(t, "axfr")
            /\ th' = [th EXCEPT ![t].walk =
                        dcOrderForZone(pins[ZoneList[th[t].zi]], th[t].avail)]
       ELSE Goto(t, "listCharge") /\ UNCHANGED th
    /\ UNCHANGED <<breaker, work, shared, server, used>>

\* One transfer; a failed one moves the walk on.
AxfrCall(t) ==
    /\ pc[t] = "axfr"
    /\ ~th[t].gone
    /\ th[t].walk # <<>>
    /\ LET dc == Head(th[t].walk)
       IN  \/ /\ Goto(t, "listPin")
              /\ th' = [th EXCEPT ![t].tried = @ \cup {dc},
                                  ![t].got = AxfrRecords(rrs[ZoneList[th[t].zi]])]
           \/ /\ "axfr" \in Faults
              /\ th' = [th EXCEPT ![t].tried = @ \cup {dc}, ![t].walk = Tail(@)]
              /\ UNCHANGED pc
    /\ UNCHANGED <<breaker, work, shared, server, used>>

\* Mutant of AxfrZoneFailed: the old transfer stays in the cache.
AxfrZoneFailedKeeps(t) ==
    /\ pc[t] = "axfr"
    /\ th[t].gone \/ th[t].walk = <<>>
    /\ Goto(t, "listZone")
    /\ th' = [th EXCEPT ![t].zi = @ + 1]
    /\ UNCHANGED <<breaker, work, shared, server, used>>

\* Every DC failed, or ctx is cancelled: the cached zone is dropped, the zone
\* is left out of the answer and the answer is still a success.
AxfrZoneFailed(t) ==
    /\ pc[t] = "axfr"
    /\ th[t].gone \/ th[t].walk = <<>>
    /\ cache' = [cache EXCEPT ![ZoneList[th[t].zi]] = {}]
    /\ Goto(t, "listZone")
    /\ th' = [th EXCEPT ![t].zi = @ + 1]
    /\ UNCHANGED <<breaker, work, pins, axfrMu, zlock, server, used>>

ListPin(t) ==
    /\ pc[t] = "listPin"
    /\ pins' = [pins EXCEPT ![ZoneList[th[t].zi]] = Head(th[t].walk)]
    /\ Goto(t, "listStore")
    /\ th' = [th EXCEPT ![t].won = @ \cup {Head(th[t].walk)}]
    /\ UNCHANGED <<breaker, work, cache, axfrMu, zlock, server, used>>

\* Mutant of ListStore: the zone index moves on twice.
ListStoreSkips(t) ==
    /\ pc[t] = "listStore"
    /\ cache' = [cache EXCEPT ![ZoneList[th[t].zi]] = th[t].got]
    /\ Goto(t, "listZone")
    /\ th' = [th EXCEPT ![t].zi = @ + 2, ![t].got = {},
                        ![t].out = @ \cup endpointsFromRecords(th[t].got)]
    /\ UNCHANGED <<breaker, work, pins, axfrMu, zlock, server, used>>

ListStore(t) ==
    /\ pc[t] = "listStore"
    /\ cache' = [cache EXCEPT ![ZoneList[th[t].zi]] = th[t].got]
    /\ Goto(t, "listZone")
    /\ th' = [th EXCEPT ![t].zi = @ + 1, ![t].got = {},
                        ![t].out = @ \cup endpointsFromRecords(th[t].got)]
    /\ UNCHANGED <<breaker, work, pins, axfrMu, zlock, server, used>>

\* The breaker bookkeeping walks a Go map: any order.
ListCharge(t) ==
    /\ pc[t] = "listCharge"
    /\ \E dc \in th[t].tried :
        /\ IF dc \in th[t].won THEN RecordSuccess(dc) ELSE RecordFailure(dc)
        /\ th' = [th EXCEPT ![t].tried = @ \ {dc}]
    /\ UNCHANGED <<now, pc, work, shared, server, used>>

ListUnlock(t) ==
    /\ \/ pc[t] = "listUnlock"
       \/ pc[t] = "listCharge" /\ th[t].tried = {}
    /\ axfrMu' = Nobody
    /\ Goto(t, "return")
    /\ UNCHANGED <<breaker, work, th, pins, cache, zlock, server, used>>

-----------------------------------------------------------------------------
(* POST /records: ApplyChanges and applyZone *)

\* The handler calls ApplyChanges with the payload q.
BeginApply(t, q) ==
    /\ pc[t] = "idle"
    /\ Goto(t, "apply")
    /\ req' = [req EXCEPT ![t] = q]
    /\ th' = [th EXCEPT ![t].todo = ZonesOf(q)]
    /\ UNCHANGED <<breaker, sending, shared, server>>

StartApply(t) ==
    /\ \E q \in Requests : BeginApply(t, q)
    /\ used.requests < MaxRequests
    /\ used' = [used EXCEPT !.requests = @ + 1]

\* The next zone (a Go map: any order).  The cache is read here, before the
\* zone's lock is taken.
ApplyBuild(t) ==
    /\ pc[t] = "apply"
    /\ \E z \in th[t].todo :
        LET cs == buildZoneChangeSet(z, cache[z], req[t])
        IN  IF HasChanges(cs) /\ ~DryRun
            THEN /\ Goto(t, "applyLock")
                 /\ sending' = [sending EXCEPT ![t] = cs]
                 /\ th' = [th EXCEPT ![t].todo = @ \ {z}, ![t].owed = @ \cup {z}]
            ELSE /\ th' = [th EXCEPT ![t].todo = @ \ {z}]
                 /\ UNCHANGED <<pc, sending>>
    /\ UNCHANGED <<breaker, req, shared, server, used>>

ApplyDone(t) ==
    /\ pc[t] = "apply"
    /\ th[t].todo = {}
    /\ Goto(t, "return")
    /\ UNCHANGED <<breaker, work, th, shared, server, used>>

ZoneLock(t) ==
    /\ pc[t] = "applyLock"
    /\ zlock[Zone(t)] = Nobody
    /\ zlock' = [zlock EXCEPT ![Zone(t)] = t]
    /\ Goto(t, "applyProbe")
    /\ UNCHANGED <<breaker, work, th, pins, cache, axfrMu, server, used>>

\* Mutants of ZoneReturn: a failed zone keeps its lock; the last zone's
\* outcome replaces firstErr; a failed zone ends the request.
ZoneReturnAborts(t, failed) ==
    /\ zlock' = [zlock EXCEPT ![Zone(t)] = Nobody]
    /\ Goto(t, "apply")
    /\ sending' = [sending EXCEPT ![t] = NoChangeSet]
    /\ th' = [th EXCEPT ![t] = [Fresh EXCEPT !.todo = IF failed THEN {} ELSE th[t].todo,
                                  !.gone = th[t].gone, !.owed = th[t].owed,
                                  !.err = th[t].err \/ failed]]
    /\ UNCHANGED req
ZoneReturnKeepsLock(t, failed) ==
    /\ zlock' = IF failed THEN zlock ELSE [zlock EXCEPT ![Zone(t)] = Nobody]
    /\ Goto(t, "apply")
    /\ sending' = [sending EXCEPT ![t] = NoChangeSet]
    /\ th' = [th EXCEPT ![t] = [Fresh EXCEPT !.todo = th[t].todo, !.gone = th[t].gone,
                                  !.owed = th[t].owed, !.err = th[t].err \/ failed]]
    /\ UNCHANGED req
ZoneReturnLastErr(t, failed) ==
    /\ zlock' = [zlock EXCEPT ![Zone(t)] = Nobody]
    /\ Goto(t, "apply")
    /\ sending' = [sending EXCEPT ![t] = NoChangeSet]
    /\ th' = [th EXCEPT ![t] = [Fresh EXCEPT !.todo = th[t].todo, !.gone = th[t].gone,
                                  !.owed = th[t].owed, !.err = failed]]
    /\ UNCHANGED req

\* applyZone returns: the deferred unlock, and firstErr if it failed; its
\* locals end with it.
ZoneReturn(t, failed) ==
    /\ zlock' = [zlock EXCEPT ![Zone(t)] = Nobody]
    /\ Goto(t, "apply")
    /\ sending' = [sending EXCEPT ![t] = NoChangeSet]
    /\ th' = [th EXCEPT ![t] = [Fresh EXCEPT !.todo = th[t].todo, !.gone = th[t].gone,
                                  !.owed = th[t].owed, !.err = th[t].err \/ failed]]
    /\ UNCHANGED req

ApplyNoDC(t) ==
    /\ pc[t] = "applyProbe"
    /\ th[t].at \notin DOMAIN HostList
    /\ th[t].avail = <<>>
    /\ ZoneReturn(t, TRUE)
    /\ UNCHANGED <<breaker, pins, cache, axfrMu, server, used>>

ApplyOrder(t) ==
    /\ pc[t] = "applyProbe"
    /\ th[t].at \notin DOMAIN HostList
    /\ th[t].avail # <<>>
    /\ Goto(t, "update")
    /\ th' = [th EXCEPT ![t].walk = dcOrderForZone(pins[Zone(t)], th[t].avail)]
    /\ UNCHANGED <<breaker, work, shared, server, used>>

\* What one client.Update can do: its result, and what becomes of the UPDATE.
Exchanges(R, cs) ==
    LET Result(resp, err, effect) ==
            [res |-> classifyExchangeResult(resp, err), effect |-> effect]
        processed ==
            IF PrereqsHold(R, cs.prereqs)
            THEN {Result("NOERROR", NoError, "applied")}
                 \cup (IF "unsigned" \in Faults
                       THEN {Result("NOERROR", "unverified", "applied")} ELSE {})
                 \cup (IF "lost" \in Faults
                       THEN {Result(NoResponse, "timeout", "applied")} ELSE {})
            ELSE {Result(rcode, NoError, "none") : rcode \in PrereqRcodes(R, cs.prereqs)}
    IN  (IF "unsent" \in Faults THEN {Result(NoResponse, "dial", "none")} ELSE {})
        \cup IF BuildUpdateMsgFails(cs.changes)
             THEN {[res |-> BuildFailure, effect |-> "none"]}
             ELSE processed
                  \cup {Result(rcode, NoError, "none") : rcode \in RefusalRcodes \cap Faults}
                  \cup {Result(NoResponse, err, "none") : err \in TSIGErrors \cap Faults}
                  \cup (IF "late" \in Faults
                        THEN {Result(NoResponse, "timeout", "late")} ELSE {})

\* A DC processes a change set: all of it or, if a prerequisite fails, nothing.
Process(cs) ==
    /\ rrs' = [rrs EXCEPT ![cs.zone] = ServerApply(@, cs.changes)]
    /\ actor' = cs.owner

UpdateCall(t) ==
    /\ pc[t] = "update"
    /\ ~th[t].gone
    /\ th[t].walk # <<>>
    /\ Goto(t, "updated")
    /\ \E x \in Exchanges(rrs[Zone(t)], sending[t]) :
        /\ th' = [th EXCEPT ![t].res = x.res,
                            ![t].owed = IF x.effect = "applied" THEN @ \ {Zone(t)} ELSE @]
        /\ IF x.effect = "applied"
           THEN PrereqsHold(rrs[Zone(t)], sending[t].prereqs) /\ Process(sending[t])
           ELSE UNCHANGED <<rrs, actor>>
        /\ IF x.effect = "late"
           THEN Cardinality(late) < MaxLate /\ late' = late \cup {sending[t]}
           ELSE UNCHANGED late
    /\ UNCHANGED <<breaker, work, shared, used>>

\* The walk is exhausted, or ctx is cancelled.
ApplyGiveUp(t) ==
    /\ pc[t] = "update"
    /\ th[t].gone \/ th[t].walk = <<>>
    /\ ZoneReturn(t, TRUE)
    /\ UNCHANGED <<breaker, pins, cache, axfrMu, server, used>>

UpdateOK(t) ==
    /\ pc[t] = "updated"
    /\ th[t].res.ok
    /\ pins' = [pins EXCEPT ![Zone(t)] = Head(th[t].walk)]
    /\ Goto(t, "credit")
    /\ UNCHANGED <<breaker, work, th, cache, axfrMu, zlock, server, used>>

UpdateCredit(t) ==
    /\ pc[t] = "credit"
    /\ RecordSuccess(Head(th[t].walk))
    /\ ZoneReturn(t, FALSE)
    /\ UNCHANGED <<now, pins, cache, axfrMu, server, used>>

isFailoverEligible(res) ==
    res.retryable \/ res.rcode \in {"SERVFAIL", "REFUSED", "NOTAUTH"}

UpdateFailed(t) ==
    /\ pc[t] = "updated"
    /\ ~th[t].res.ok
    /\ ~isFailoverEligible(th[t].res)
    /\ ZoneReturn(t, TRUE)
    /\ UNCHANGED <<breaker, pins, cache, axfrMu, server, used>>

UpdateFailover(t) ==
    /\ pc[t] = "updated"
    /\ ~th[t].res.ok
    /\ isFailoverEligible(th[t].res)
    /\ RecordFailure(Head(th[t].walk))
    /\ Goto(t, "update")
    /\ th' = [th EXCEPT ![t].walk = Tail(@), ![t].res = NoResult]
    /\ UNCHANGED <<now, work, shared, server, used>>

\* The handler answers (200 or 204, or 500 if err) and the goroutine ends.
Return(t) ==
    /\ pc[t] = "return"
    /\ Goto(t, "idle")
    /\ req' = [req EXCEPT ![t] = NoRequest]
    /\ th' = [th EXCEPT ![t] = Fresh]
    /\ UNCHANGED <<breaker, sending, shared, server, used>>

-----------------------------------------------------------------------------
(* The environment *)

\* The client of a running request disconnects: its ctx is cancelled.
ClientGone(t) ==
    /\ pc[t] # "idle"
    /\ ~th[t].gone
    /\ used.cancels < MaxCancels
    /\ th' = [th EXCEPT ![t].gone = TRUE]
    /\ used' = [used EXCEPT !.cancels = @ + 1]
    /\ UNCHANGED <<breaker, pc, work, shared, server>>

\* A DC gets round to an UPDATE whose client has stopped waiting.
LateArrival ==
    \E cs \in late :
        /\ late' = late \ {cs}
        /\ IF PrereqsHold(rrs[cs.zone], cs.prereqs)
           THEN Process(cs)
           ELSE UNCHANGED <<rrs, actor>>
        /\ UNCHANGED <<breaker, pc, work, th, shared, used>>

AdminEdit ==
    /\ used.edits < MaxEdits
    /\ \E z \in Zones :
        \/ \E r \in AdminRecords \ rrs[z] : rrs' = [rrs EXCEPT ![z] = @ \cup {r}]
        \/ \E r \in rrs[z] : rrs' = [rrs EXCEPT ![z] = @ \ {r}]
    /\ actor' = Admin
    /\ used' = [used EXCEPT !.edits = @ + 1]
    /\ UNCHANGED <<breaker, pc, work, th, shared, late>>

\* The sidecar keeps nothing on disk: a restart starts from New.
Restart ==
    /\ used.crashes < MaxCrashes
    /\ used' = [used EXCEPT !.crashes = @ + 1]
    /\ pc' = [t \in Threads |-> "idle"]
    /\ req' = [t \in Threads |-> NoRequest]
    /\ sending' = [t \in Threads |-> NoChangeSet]
    /\ th' = [t \in Threads |-> Fresh]
    /\ pins' = [z \in Zones |-> NoDC]
    /\ cache' = [z \in Zones |-> {}]
    /\ axfrMu' = Nobody
    /\ zlock' = [z \in Zones |-> Nobody]
    /\ fails' = [dc \in DCs |-> 0]
    /\ opens' = [dc \in DCs |-> 0]
    /\ openUntil' = [dc \in DCs |-> NotSet]
    /\ UNCHANGED <<now, server>>

TimePasses == Tick /\ UNCHANGED <<pc, work, th, shared, server, used>>

\* Nothing is left to do within the bounds.
Quiescent ==
    /\ \A t \in Threads : pc[t] = "idle"
    /\ used.requests = MaxRequests
    /\ UNCHANGED vars

ListStep(t) ==
    \/ ListLock(t) \/ ListNoDC(t) \/ ListZone(t) \/ AxfrCall(t) \/ AxfrZoneFailed(t)
    \/ ListPin(t) \/ ListStore(t) \/ ListCharge(t) \/ ListUnlock(t)

ApplyStep(t) ==
    \/ ApplyBuild(t) \/ ApplyDone(t) \/ ZoneLock(t) \/ ApplyNoDC(t) \/ ApplyOrder(t) \/ UpdateCall(t)
    \/ ApplyGiveUp(t) \/ UpdateOK(t) \/ UpdateCredit(t) \/ UpdateFailed(t)
    \/ UpdateFailover(t)

Step(t) == ProbeHost(t) \/ ListStep(t) \/ ApplyStep(t) \/ Return(t)

Next ==
    \/ \E t \in Threads : Step(t) \/ StartList(t) \/ StartApply(t) \/ ClientGone(t)
    \/ LateArrival \/ AdminEdit \/ Restart \/ TimePasses \/ Quiescent

\* A goroutine that can go on does: every exchange ends, by its timeout at the
\* latest.  Nothing makes requests, disconnects, late UPDATEs, edits, restarts
\* or the clock happen.
Fairness == \A t \in Threads : WF_vars(Step(t))

Spec == Init /\ [][Next]_vars /\ Fairness

-----------------------------------------------------------------------------
(* Properties *)

ListPCs == {"listProbe", "listZone", "axfr", "listPin", "listStore", "listCharge", "listUnlock"}
ApplyPCs == {"applyProbe", "update", "updated", "credit"}
PCs == {"idle", "listLock", "apply", "applyLock", "return"} \cup ListPCs \cup ApplyPCs

\* The types of the goroutines' and the shared state.
TypeOK ==
    /\ BreakerTypeOK
    /\ \A t \in Threads :
        /\ pc[t] \in PCs
        /\ req[t] \in Requests \cup {NoRequest}
        /\ th[t].todo \subseteq Zones /\ th[t].owed \subseteq Zones
        /\ th[t].zi \in 1..(Len(ZoneList) + 1) /\ th[t].at \in 1..(Len(HostList) + 1)
        /\ th[t].tried \subseteq DCs /\ th[t].won \subseteq DCs
    /\ pins \in [Zones -> DCs \cup {NoDC}]
    /\ axfrMu \in Threads \cup {Nobody}
    /\ zlock \in [Zones -> Threads \cup {Nobody}]
    /\ actor \in Owners \cup {Nobody, Admin}

\* The mutexes are held exactly by the goroutines inside the sections they
\* protect: axfrMu for the whole of ListRecords, a zone's mutex for the whole
\* of applyZone, on every return path.  So two UPDATEs of the sidecar for one
\* zone never overlap, and no error path keeps a lock.
LocksHeldExactly ==
    /\ \A t \in Threads :
        /\ pc[t] \in ListPCs <=> axfrMu = t
        /\ \A z \in Zones : pc[t] \in ApplyPCs /\ Zone(t) = z <=> zlock[z] = t

\* A marker name never carries two ownership labels, whatever the order in
\* which creates, retries, late UPDATEs and stale caches meet.  With two, the
\* value-dependent YXRRSET of updates and deletes could never hold again.
SingleOwner == \A z \in Zones : OneLabelPerMarker(rrs[z])

\* The data and marker records of one name and type.
KeyRecords(R, name, type) ==
    RRset(R, name, type) \cup RRset(R, ownershipNameFor(type, name), "TXT")

ManagedBy(R, name, type, o) ==
    /\ HasData(R, name, type)
    /\ {m.value : m \in RRset(R, ownershipNameFor(type, name), "TXT")} = {encodeOwnership(o)}

OnlyOwnerWrites ==
    \A z \in Zones : \A r \in rrs[z] : \A o \in Owners :
        /\ r.type \in DataTypes /\ ManagedBy(rrs[z], r.name, r.type, o)
        /\ KeyRecords(rrs'[z], r.name, r.type) # KeyRecords(rrs[z], r.name, r.type)
        => actor' \in {o, Admin}

\* A record that exists and is marked as owned by one operator is changed,
\* marker included, only by that operator's requests (or by hand): no stale
\* cache, failover, retry, late UPDATE or restart lets another operator's
\* request touch it.
ForeignWritesRejected == [][OnlyOwnerWrites]_vars

\* A zone as a registry: per name and type the sidecar writes, the data and
\* the labels at its marker.
KeysOf(R) ==
    {[name |-> r.name, type |-> r.type] : r \in {r \in R : r.type \in DataTypes}}
    \cup {k \in {decodeOwnershipName(r.name) :
                  r \in {r \in R : r.type = "TXT" /\ IsMarkerName(r.name) /\ IsOwnership(r.value)}} :
            k.type \in DataTypes}

EntriesOf(R) ==
    {[name |-> k.name, type |-> k.type,
      values |-> {r.value : r \in RRset(R, k.name, k.type)},
      labels |-> OwnersAt(R, ownershipNameFor(k.type, k.name))] : k \in KeysOf(R)}

Contract == INSTANCE Registry
    WITH entries <- [z \in Zones |-> EntriesOf(rrs[z])], writer <- actor, Outsider <- Admin

\* The goroutines, caches, DCs and late UPDATEs together implement the
\* registry: whatever they do to a zone is one write of one operator, leaves
\* alone what another operator holds, and files under nobody else's label.
ImplementsRegistry == Contract!RegistrySpec

\* A POST /records answered 204 had every zone's change set applied by a DC:
\* no early return, failover or later zone hides a failure.
AckedMeansApplied ==
    \A t \in Threads : pc[t] = "return" /\ ~th[t].err => th[t].owed = {}

\* When ListRecords is about to answer, the cache that later creates are
\* checked against says the same as the answer: a zone left out of the answer
\* is not in the cache either.
AnswerMatchesCache ==
    \A t \in Threads : pc[t] = "listCharge" =>
        th[t].out = UNION {endpointsFromRecords(cache[z]) : z \in Zones}

\* Every request is answered: no lock, walk or bookkeeping loop can hang.
RequestsReturn == \A t \in Threads : pc[t] # "idle" ~> pc[t] = "idle"

\* What the comment of dcOrderForZone says of the walk: no DC twice.
WalkHasNoDuplicates ==
    \A t \in Threads : \A i, j \in DOMAIN th[t].walk :
        th[t].walk[i] = th[t].walk[j] => i = j

=============================================================================
