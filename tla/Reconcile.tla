----------------------------- MODULE Reconcile -----------------------------
(***************************************************************************)
(* The sidecar with the operators that use it (external): each one keeps   *)
(* reading GET /records, compares what carries its label with what it      *)
(* wants, and sends the difference as one POST /records.  It waits for     *)
(* each answer, starts over after an error, and changes its mind.  Nobody  *)
(* else edits the zones.                                                   *)
(*                                                                         *)
(* An operator is named after its label and has one request at a time, so  *)
(* its label also names the goroutine that serves it (Threads = Owners).   *)
(***************************************************************************)
EXTENDS Orchestrator, SequencesExt

CONSTANTS
    Goals,         \* what an operator may want: sets of [name, type, targets]
    MaxChanges,    \* bound: how often operators change their minds
    MaxFaults      \* bound: exchanges that fail

ASSUME ReconcileAssumption ==
    Threads = Owners /\ Goals = [o \in Owners |-> Goals[o]] /\ {MaxChanges, MaxFaults} \subseteq Nat

\* An operator wants finitely many records with finitely many targets each, and
\* the zones it finds are finite and hold no record without rdata.
ASSUME GoalAssumption ==
    /\ \A o \in Owners : \A G \in Goals[o] :
        IsFiniteSet(G) /\ \A g \in G : g.name \in Names /\ IsFiniteSet(g.targets)
    /\ \A z \in Zones : IsFiniteSet(InitialZone[z]) /\ \A r \in InitialZone[z] : r.value # NoRdata

VARIABLES
    goal,          \* what each operator wants
    view,          \* its records in the last answer
    cycle,         \* where it is: "list", "listing", "plan" or "posting"
    spent          \* how much of the two bounds has been used

operatorVars == <<goal, view, cycle, spent>>
reconcileVars == <<vars, operatorVars>>

-----------------------------------------------------------------------------
(* The operator's plan *)

EndpointFor(o, g) ==
    [dnsName |-> [form |-> "plain", labels |-> g.name], type |-> g.type,
     targets |-> SetToSeq(g.targets), owner |-> o]
Rdata(g) == {canonicalRdata(g.type, t) : t \in g.targets}
SameKey(a, b) == a.name = b.name /\ a.type = b.type

\* A record as it was listed, and as it is wanted.
Seen(o, l) == EndpointFor(o, [l EXCEPT !.targets = {[kind |-> "plain", value |-> v] : v \in @}])
Wanted(o, g) == [name |-> g.name, type |-> g.type, owner |-> o, targets |-> Rdata(g)]

\* What the operator sends, given what it wants and what it has seen.
Plan(o) ==
    LET new == {g \in goal[o] : ~\E l \in view[o] : SameKey(g, l)}
        old == {l \in view[o] : ~\E g \in goal[o] : SameKey(g, l)}
        pairs == SetToSeq({p \in view[o] \X goal[o] : SameKey(p[1], p[2]) /\ p[1] # Wanted(o, p[2])})
    IN  [owner |-> o,
         create |-> SetToSeq({EndpointFor(o, g) : g \in new}),
         updateOld |-> [i \in DOMAIN pairs |-> Seen(o, pairs[i][1])],
         updateNew |-> [i \in DOMAIN pairs |-> EndpointFor(o, pairs[i][2])],
         delete |-> SetToSeq({Seen(o, l) : l \in old})]

-----------------------------------------------------------------------------
Enter(o, next) == cycle' = [cycle EXCEPT ![o] = next]

ReconcileInit ==
    /\ Init
    /\ goal \in [Owners -> UNION {Goals[o] : o \in Owners}] /\ \A o \in Owners : goal[o] \in Goals[o]
    /\ view = [o \in Owners |-> {}]
    /\ cycle = [o \in Owners |-> "list"]
    /\ spent = [changes |-> 0, faults |-> 0]

AskForRecords(o) ==
    /\ cycle[o] = "list"
    /\ Enter(o, "listing")
    /\ BeginList(o)
    /\ UNCHANGED <<used, goal, view, spent>>

SendPlan(o) ==
    /\ cycle[o] = "plan"
    /\ IF view[o] = {Wanted(o, g) : g \in goal[o]}
       THEN Enter(o, "list") /\ UNCHANGED vars
       ELSE Enter(o, "posting") /\ BeginApply(o, Plan(o)) /\ UNCHANGED used
    /\ UNCHANGED <<goal, view, spent>>

\* The answer to the request that is returning.
Answer(o) ==
    IF pc[o] # "return"
    THEN UNCHANGED <<cycle, view>>
    ELSE IF cycle[o] = "listing" /\ ~th[o].err
         THEN Enter(o, "plan") /\ view' = [view EXCEPT ![o] = {l \in th[o].out : l.owner = o}]
         ELSE Enter(o, "list") /\ view' = [view EXCEPT ![o] = {}]

\* An exchange failed in this step of the sidecar.
ExchangeFails(o) ==
    \/ pc[o] = "axfr" /\ Len(th'[o].walk) < Len(th[o].walk)
    \/ pc[o] = "update" /\ pc'[o] = "updated" /\ th'[o].res.retryable

Serve(o) ==
    /\ Step(o)
    /\ Answer(o)
    /\ IF ExchangeFails(o)
       THEN spent.faults < MaxFaults /\ spent' = [spent EXCEPT !.faults = @ + 1]
       ELSE UNCHANGED spent
    /\ UNCHANGED goal

ChangeMind(o) ==
    /\ spent.changes < MaxChanges
    /\ \E g \in Goals[o] \ {goal[o]} : goal' = [goal EXCEPT ![o] = g]
    /\ spent' = [spent EXCEPT !.changes = @ + 1]
    /\ UNCHANGED <<vars, view, cycle>>

\* The sidecar is restarted; the operators see their requests fail.
SidecarRestarts ==
    /\ Restart
    /\ view' = [o \in Owners |-> {}]
    /\ cycle' = [o \in Owners |-> "list"]
    /\ UNCHANGED <<goal, spent>>

\* The clock only matters to a circuit that is open.
CooldownPasses == (\E dc \in DCs : ~Available(dc)) /\ TimePasses

Outside == (LateArrival \/ CooldownPasses) /\ UNCHANGED operatorVars

ReconcileNext ==
    \/ \E o \in Owners : AskForRecords(o) \/ SendPlan(o) \/ Serve(o) \/ ChangeMind(o)
    \/ SidecarRestarts \/ Outside

\* Operators poll, goroutines go on and are not starved at a mutex (sync.Mutex
\* hands itself over to a goroutine that has waited for long), a DC processes
\* what it has received, and time passes.  That only MaxFaults exchanges fail
\* is the assumption that outages end.
ReconcileFairness ==
    /\ \A o \in Owners :
        WF_reconcileVars(AskForRecords(o) \/ SendPlan(o)) /\ SF_reconcileVars(Serve(o))
    /\ WF_reconcileVars(LateArrival /\ UNCHANGED operatorVars)
    /\ WF_reconcileVars(CooldownPasses /\ UNCHANGED operatorVars)

ReconcileSpec == ReconcileInit /\ [][ReconcileNext]_reconcileVars /\ ReconcileFairness

-----------------------------------------------------------------------------
(* Properties *)

\* A goal that cannot be sent: one of its targets does not parse.
Unsendable(g) == MalformedRdata \in Rdata(g)
ZoneHasUnsendable(o, z) == \E g \in goal[o] : zoneFor(g.name) = z /\ Unsendable(g)

\* What the zone holds under the operator's label, and what it should hold.
Has(o, z) == {l \in endpointsFromRecords(AxfrRecords(rrs[z])) : l.owner = o}
ShouldHave(o, z) == {Wanted(o, g) : g \in {g \in goal[o] : zoneFor(g.name) = z}}

\* Every zone ends up holding exactly what each operator wants in it and stays
\* that way, although transfers fail and leave zones out of an answer, circuits
\* open, replies are lost and the sidecar is restarted in the middle of
\* requests: a prerequisite that fails or a marker left behind never blocks an
\* operator for good.  A record that cannot be sent holds up its own zone only.
\* (UPDATEs processed after their client has given up are among the failures as
\* long as no record that changes is deleted meanwhile: see MarkerMaintained.)
Converges ==
    <>[](\A o \in Owners, z \in Zones : ~ZoneHasUnsendable(o, z) => Has(o, z) = ShouldHave(o, z))

\* What the README says of the marker: the sidecar maintains it for each data
\* record it writes.  After an UPDATE of an operator every record it has written,
\* and every record that was the operator's and stays, has the operator's marker.
MarkerMaintained ==
    [][\A o \in Owners, z \in Zones : \A r \in rrs'[z] :
          /\ r.type \in DataTypes /\ actor' = o
          /\ r \notin rrs[z] \/ ManagedBy(rrs[z], r.name, r.type, o)
          => ManagedBy(rrs'[z], r.name, r.type, o)]_reconcileVars

=============================================================================
