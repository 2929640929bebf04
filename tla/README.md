# Verification of ddo-rfc2136

ddo-rfc2136 is an external-dns webhook sidecar. It lists and changes DNS records
on Active Directory domain controllers (DCs) with zone transfers (AXFR) and RFC
2136 UPDATEs. Every data record it writes has a sibling TXT record, the marker,
that names the operator it belongs to. The sidecar keeps nothing on disk.

This directory models it in TLA+, checks it with TLC on small instances, and
proves with TLAPS, for every size, every invariant and action property that the
passing runs check and the refinement of the abstract specification.

## The system

| Part | State | Operations | Hard parts |
|---|---|---|---|
| Orchestrator (`internal/orchestrator`) | per request: change set, failover walk, result; shared: `axfrMu` | `ListRecords`, `ApplyChanges`, `applyZone` | concurrent requests, lost and late answers, cancelled clients, partial failure |
| Ownership bridge (same file) | none; reads the cached transfer | `buildZoneChangeSet`, `collisionReason`, `orphanOwnership`, `endpointsFromRecords`, marker names | stale cache, orphaned markers, wildcards, CNAME rule |
| Circuit breaker (`internal/state/dcbreaker.go`) | `fails`, `opens`, `openUntil` per DC | `IsAvailable`, `RecordSuccess`, `RecordFailure` | a query with a side effect, exponential backoff with a cap |
| Cache, pins, locks (`internal/state/zones.go`) | last transfer, last good DC and mutex per zone | `Put`/`Get`/`Drop`, `Get`/`Set`, `For` | lock coverage, what is read outside of it |
| DNS layer (`internal/dnsop`) | none | `AXFR`, `Update`, classification of results | timeouts, unverifiable replies, truncated streams |
| HTTP handlers (`internal/api`) | none | `GET /`, `GET`/`POST /records`, `/adjustendpoints`, `/healthz` | context cancellation |
| Kerberos refresh (`internal/kerberos`, `state/kerberos.go`) | ticket in the credential cache, timer, health | `Run`, `refreshOnce`, `TGTEndTime`, `MarkReady`/`MarkExpired` | expiry against sleep, clock skew, a KDC that comes back in the middle of a kinit |
| Configuration (`internal/config`) | none | `Load` and what it calls | settings that are read by nobody, two sources of one secret |
| `main` | where it is; the signal context | start, `setupAuth`, serve, shut down | a signal at any time, three goroutines |
| Operators (external) | goals, last answer | list, plan, post | retries, stale views, requests half done |

A request is a goroutine of the HTTP server. `GET /records` takes `axfrMu`, asks
the breaker for every host, transfers every zone with failover, replaces the
cached zone and pin, and charges the breaker. `POST /records` groups the payload
by zone; for each zone it reads the cache, builds prerequisites and changes,
takes the zone's mutex, asks the breaker, and sends the UPDATE along the
failover walk. The DC decides: if a prerequisite fails nothing is changed.

What makes the parts correct:

* orchestrator: a 204 means that every zone's changes were applied; every request
  is answered; no error path keeps a lock; answer and cache agree;
* ownership: no operator changes another's record; a marker has one label;
  creating, listing and deleting are consistent; records and markers can be told
  apart and stay in one zone;
* breaker: the backoff follows its formula, is bounded, and ends;
* transfers: a part of a zone never passes for the whole one, and both goroutines
  of a transfer end;
* credential: the health state never hides a ticket that ran out, and a KDC that
  is back is used after a backoff;
* configuration: what is accepted is used, and is one mode's credential;
* process: a signal ends it whenever it comes, nothing else ends it quietly, and what
  the KDC does neither ends it nor its refresh loop;
* with the operators: every zone ends up as each of them wants it.

## Modules

| Module | Models |
|---|---|
| `DCBreaker` | the breaker; each method, which the code runs under a mutex, is one action |
| `Dnsop` | what an exchange returns to the orchestrator; and, external, how a DC evaluates prerequisites and updates |
| `Ownership` (extends `Dnsop`) | the bridge as operators on names, records, endpoints and a cached zone, up to `buildZoneChangeSet` |
| `Bridge` (extends `Ownership`) | one create and one delete of an endpoint against any zone content, without interference |
| `Orchestrator` (extends `DCBreaker`, `Ownership`) | concurrent requests, shared state, DCs, and everything that goes wrong |
| `Registry` | the abstract specification of what operators that share a zone are promised; `Orchestrator` implements it |
| `Reconcile` (extends `Orchestrator`) | the sidecar together with the operators' loops |
| `Transfer` (extends `Dnsop`) | one transfer: the library's goroutine, the channel, `ParseAXFRStream` |
| `KerberosRefresh` | the refresh loop, its ticket and the health state, against a KDC and a clock |
| `Config` | `Load` as operators on an environment |
| `Process` (extends `KerberosRefresh`, `Config`) | `main`: configuration, first ticket, serving, shutdown |
| `DCBreakerProofs`, `TransferProofs`, `OwnershipProofs` | theorems about the module each is named after |
| `BridgeProofs` (extends `OwnershipProofs`), `OrchestratorProofs` (extends it too) | the bridge; who may write what |
| `RequestProofs` (extends `OrchestratorProofs`, `DCBreakerProofs`) | types, locks and answers of concurrent requests |
| `RegistryProofs` (extends `RequestProofs`, `Reconcile`) | `Orchestrator` implements `Registry`, and so does `Reconcile`; what holds of sidecar and operators together |
| `ProcessProofs` | `Process` with its refresh loop and its configuration |
| `MCDCBreaker`, `MCBridge`, `MCOwnership`, `MCFailover`, `MCReconcile`, `MCTransfer`, `MCConfig`, `MCProcess` | instances for TLC |

### Correspondence with the code

*Names* are sequences of labels and a label is a tuple of words, so `ddo-a-wildcard`
is `<<"ddo", "A", "wildcard">>`. A name in a request also has a form (a trailing
dot, upper case) that `normalizeName` removes; a target has a form that
`canonicalRdata` removes. A payload's record types are taken in upper case. TTLs
are left out: a DC ignores them when it compares records, and no decision
depends on them.

*Change sets.* The code emits records in slices; the model keeps the order of
endpoints (a sequence of add and delete blocks) and makes the records of one
endpoint a set. Prerequisites are a set: a DC checks them together.

*Steps.* A step of a goroutine ends where another one can see or change shared
state: a lock, one breaker call, one access to cache or pins, one exchange. In
particular the cache is read (`ApplyBuild`) before the zone lock is taken
(`ZoneLock`), the pin is set before the breaker is credited, and `availableDCs`
is one breaker call per host (`ProbeHost`). `th[t]` holds a goroutine's local
variables. `owed` and `actor` are history variables: the zones whose changes no
DC has applied, and whose request wrote last.

*Exchanges.* `Exchanges` lists everything `client.Update` can do: the request is
not sent, cannot be built, is refused, fails a prerequisite, is applied with a
good, an unverifiable or a lost reply, or is left to be processed later
(`LateArrival`), after which the client has moved on. The constant `Faults`
selects which of these occur in a run.

*The DC* follows RFC 2136 3.2 and 3.4.2: value-dependent prerequisites compare
whole RRsets; a CNAME beside other data, or other data beside a CNAME, is
ignored without an error; a second CNAME replaces the first. `ServerApply` is
not a fold over the changes but says for each record which block decides; it
agrees with processing one block after another unless one UPDATE itself adds,
alternately, a CNAME and other types at one name.

*Transfers.* `Orchestrator` takes a transfer as one step that delivers
`AxfrRecords` of the zone or fails. `Transfer` justifies the step: the library
(external) reads any number of records into a message, reports a lost one and
stops or goes on, or is cut off without a word; the parser takes envelopes until
the channel is closed. A wire record keeps its spelling, which `rrToRecord`
removes. Which replies are verified depends on the mode, which are signed on the
server.

*Registry.* `EntriesOf` reads a zone as a set of entries, one per name and type,
with its values and the labels found at its marker; `actor` is the writer. Every
step of `Orchestrator` that changes a zone is then one write of one operator (or
of the administrator): entries another operator holds are still there, labels
are added only by their owner, and no entry has two.

*Operators.* external-dns and docker-dns-operator behave alike as far as the
handlers can see: `GET /records`, keep what carries the own label, compare with
the goal, send creates, updates and deletes in one `POST /records`, start over.
An operator waits for its answer, so its label names its goroutine. `BeginList` and
`BeginApply` are the handlers' calls of the orchestrator: `Orchestrator` makes them
with any payload of a given set, `Reconcile` with the operator's plan.

*Time in the refresh loop* is relative: how long the ticket is good, how long
until the timer fires, how long the KDC has been reachable; `ccache` is what the
last kinit left. A kinit takes up to
`MaxKinit` ticks and fails if the KDC was away meanwhile, which also stands for a
keytab that is refused. Times are whole ticks and half a life is rounded down, as the
code does with nanoseconds: with a tick of one nanosecond, which the theorems
include, the arithmetic is the code's. With the coarse tick of an instance a life of
one tick is too short to halve, where the code would sleep for half of it. The retry backoff is the constant
`retryBackoffMin`; the code has no use of `retryBackoffMax`.

*Configuration.* A variable's value is one representative of what the parsers
tell apart (not set, white space, junk, zero, the default spelt out, a good value, a
path, a keytab that cannot be stored). Case, padding and final dots, which every parser removes, are not represented. All
errors are one: `Load` returns at the first.

*Process.* A step of `main` is what it does between two points where a signal,
the Shutdown goroutine or the refresh loop can interfere. Exit status 1 stands
for every abnormal end. `ListenAndServe` ends in three ways: with `ErrServerClosed`
after Shutdown (`ServeReturns`), with a bind that fails, or with a listener that
fails while it is served (`ListenFails` for both, `ListenerBreaks` for the cause of
the latter). When `main` returns, requests end wherever they are:
`Orchestrator`'s `Restart`, `Reconcile`'s `SidecarRestarts`.

### Assumptions

* The DCs serve the same content (replication is instantaneous).
* An operator stamps its own label on everything it sends, or none; the old and
  new endpoint of an update have the same name and type, and the old one has
  records if the new one has (`WellFormed`). external-dns does this; the code
  relies on it without checking.
* Administrators add and delete ordinary records and may delete markers, but do
  not write markers.
* A reply comes from the DC that was asked.
* In `Bridge` (`BridgeAssumption`) transfers are enabled, since otherwise there is
  no report to compare; an asterisk is a name's leftmost label only, as the code
  remarks at `ownershipNameFor`; a CNAME endpoint has one target; what is updated
  once had records.
* A label is a marker's type label only if it is `ddo-<type>` or
  `ddo-<type>-wildcard` (`IsMarkerName`). The code also decodes `ddo-a-x`, as a
  record of type `A-X`, which no record has. For the same reason `KeysOf` counts
  only markers of data types.
* An environment gives every variable a value and each list a sequence of entries
  (`EnvAssumption`). An operator wants finitely many records with finitely many
  targets each, and the zones the sidecar finds are finite and have no empty rdata
  (`GoalAssumption`).
* Three theorems have a hypothesis of their own. `DistinctZones`: no zone is
  configured twice, which `parseZones` does not check (`config.go:532`). With a
  repeated zone the second transfer can fail and empty the cache behind the
  answer. `PlainZones`: no zone is itself called like a marker or a wildcard.
  `PowersOfTwo`: 2^0 is 1 and 2^(n+1) is twice 2^n, which is how `^` is defined and
  which the provers do not know.

## Runs

| Run | What is checked | Instance |
|---|---|---|
| `breaker` | `BreakerTypeOK`, `CircuitMatchesStreak`, `ExclusionBounded`, `BackoffSchedule`, `ExclusionEnds` | 2 DCs, threshold 2, cooldowns 1, 2, 4 and the cap 5 (the cap is not a power of two, so the cut is seen), clock up to 13 |
| `bridge` | `CreateIsListed`, `DeleteUndoesCreate`, `OthersUntouched`, `MarkerInZone`, `MarkerRoundTrip`, `OnlyOwnedUpdated` | 10 endpoints, created and deleted or updated, against 960 contents drawn from 11 records: nested zones, a wildcard and an apex, a target that cannot be sent, a name outside the filter, orphans, foreign and unmanaged records, text beside a marker, a CNAME at a marker's name, a type that transfers leave out |
| `ownership` | `SingleOwner`, `ForeignWritesRejected`, and the refinement `ImplementsRegistry` | 2 operators, 8 payloads on `app`/A and `app`/CNAME, 2 goroutines, 3 requests, one late UPDATE, one edit |
| `failover` | `TypeOK`, `LocksHeldExactly`, `AckedMeansApplied`, `AnswerMatchesCache` | 2 DCs, 2 nested zones, 2 goroutines, threshold 2, one restart, lost, unverifiable, refused and unsent UPDATEs, failed transfers |
| `answers` | `RequestsReturn` | threshold 1, so the first failure opens a circuit; one disconnect |
| `transfer` | `TransferTypeOK`, `AllOrNothing`, `CleanTransferSucceeds`, `TransferEnds` | 3 modes, 3 kinds of server, zones of 0 to 4 records in several spellings and orders, every split into messages |
| `config` | `NoSettingIgnored`, `CredentialOfMode` | four right environments (both Kerberos forms, TSIG, insecure) changed in any two variables, or in their lists |
| `process` | `KrbTypeOK`, `NeverSilentlyStale`, `RecoversInTime`, `CleanEndOnlyOnSignal`, `KinitsApart`, `KeepsServing`, `SignalStops` | one environment per mode and one that is refused; ceiling 16 ticks, backoff 2, kinit up to 2, first tickets of 40 and 19 ticks, later ones of -3 to 40, readable or not, with other tickets beside |
| `reconcile` | `Converges` | 1 operator, 2 nested zones, 3 goals (one with a record that cannot be sent), an orphan, 1 change of mind, 1 restart, 2 failed exchanges: transfers, lost replies, unsent UPDATEs and one that is processed late |
| `walk_order`, `stale_delete`, `kerberos_short` | a sentence of the documentation each, violated | see below |

The bounds are the smallest with which the interesting cases happen: two
goroutines (the code has no state that needs three of them to interact), three
requests for list-create-create and create-delete-create with a stale cache, two
DCs for one failover, one restart. Goroutines are interchangeable, hence the
symmetry in the safety runs; the liveness runs have none. Four records make a
transfer with a first, a middle and a last message. Ticket lives lie on both
sides of twice the ceiling, of one kinit and of zero. One operator is enough for
convergence, since what two of them do to each other is the matter of
`ownership`; threshold 1 lets one failure close off the only DC. Two changed variables are what it
takes to set two sources of one secret or a foreign setting beside a right one.

*Fairness.* `Fairness` is weak fairness of each goroutine's own steps: Go runs
every runnable goroutine, every exchange ends by its dial, read or write timeout,
and a mutex is handed on. Nothing forces requests, disconnects, late UPDATEs,
restarts or the clock. The breaker alone assumes that time passes and that every
host is asked again, which every request does.

In `Transfer` both goroutines go on when they can, because dialling and every
read have a deadline. In `Process` `main` and the goroutine that calls Shutdown
go on; a kinit ends; nothing makes the listener fail. In `Reconcile` operators poll (weak fairness); a goroutine
is not starved at a mutex others keep taking (strong fairness: `sync.Mutex` hands
itself to a waiter after a millisecond); a DC processes what it has received, and
time passes. Outages end: `MaxFaults` exchanges fail, at any time. Without that
nothing converges, and with it convergence is not built in: an orphan, a failed
prerequisite or a marker left over could still block an operator for ever.

### Disagreements found

With a run that shows them:

* `walk_order`: `dcOrderForZone` lists a pinned DC twice if it is not the first
  available one: `[dc2, dc1, dc2]`. A failing DC is asked, and charged, twice.
* `stale_delete`: an update and a delete of the same operator, one of them
  processed after its client gave up: the delete takes the marker and the values
  it knows, the new value stays and nobody manages it. Hence the goals of
  `reconcile` never drop a record whose values change.
* `kerberos_short`: the first sleep is the ceiling; a first ticket that is shorter
  runs out under a state of ready.

Seen while modelling, without a run of their own:

* A create takes up an orphaned marker of any owner and leaves its label, so the
  record belongs to the other operator (`orchestrator.go:313`). `Registry` permits
  it: an entry without values is held by nobody. If the orphan was seen in an old
  transfer and is gone, the data is written with no marker at all, which
  `MarkerMaintained` would also reject.
* A CNAME create beside a TXT record is sent; the DC ignores the CNAME and adds
  the marker, and the operator gets 204 (`orchestrator.go:655`). The other way
  round, a CNAME that someone has put at the marker's name keeps the marker out
  and the data is written unmarked. `CreateIsListed` and `DeleteUndoesCreate`
  exclude both as `Clash`.
* A text of someone else's beside an orphaned marker makes the later delete fail
  for ever: its prerequisite is on the whole TXT set of the marker's name
  (`orchestrator.go:365`). `DeleteUndoesCreate` excludes it. The attempt to prove
  the property showed this case and the CNAME at a marker's name; the instance has
  had both since.
* An update whose old endpoint has only blank targets carries no prerequisite and
  adds its records whoever owns the name (`orchestrator.go:346`). `WellFormed` and
  the instance of `OnlyOwnedUpdated` exclude it.
* `dcbreaker.go:15` says that the backoff survives a successful trial;
  `RecordSuccess` resets it, as the next item of the comment says.
  `BackoffSchedule` is about the openings since the last success.
* Failed UPDATEs count towards the threshold, which `config.go:101` describes as a
  number of failing transfer cycles. A ticket that ran out fails every GSS
  negotiation, so it closes off healthy DCs.
* In the TSIG modes `/healthz` says `kerberos: ready` (`Healthz`), which the comment
  at `main.go:71` says is avoided.

## Proofs

Every theorem is for all values of the constants that satisfy the named
assumptions of the modules: any number of goroutines, DCs, zones, operators,
records and requests, any durations.

*Breaker* (`DCBreakerProofs`). `BreakerCorrect`, with `BreakerTypeOKHolds` and
`ExclusionBoundedHolds`: types, `CircuitMatchesStreak` and `ExclusionBounded`
together are inductive, for every threshold (also below 1) and all cooldowns with
base <= cap <= 64 * base. They need each other: the bound on a cooldown follows
from the type of `opens`, and the equivalence of open circuit and full streak from
the side effect of `IsAvailable`. `OpensForCooldownHolds` says that a circuit that
opens was closed and opens for `Cooldown(opens)`, and `CooldownDoubles` that
`Cooldown` starts with the base and doubles up to the cap: a fact about the code's
loop of at most six doublings, which are always enough. `BackoffScheduleHolds` is
the closed form of the code's comment, min(base * 2^n, cap). A recurrence and a
closed form agree by induction, which is not available; instead the least number
at which they would differ is taken (`LeastNatural`) and refuted
(`DoublingIsCooldown`, `CooldownIsMin`).

*Ownership* (`OwnershipProofs`). `MarkerReadsBack`: `decodeOwnershipName` inverts
`ownershipNameFor` for every name and type. `BuildGuarded`: for every record in a
change set built from a well-formed request, the prerequisites demand that the
record's name and type are absent, or that its marker carries the sender's label;
and a marker is added only with a prerequisite that there is none. The cache is a
parameter without any assumption: however stale it is, the UPDATE is guarded.

*Bridge* (`BridgeProofs`), for every zone content. `OthersUntouchedHolds`: a change
set of one endpoint is confined to the endpoint's name and type and to its marker
(`RequestConfined`), and what `/records` reports of a name and type depends on
nothing else (`ReportFrame`), because markers read back. `OnlyOwnedUpdatedHolds`:
an old endpoint with records puts a prerequisite on its marker into every update
(`UpdateDemandsMarker`). `MarkerInZoneHolds`: a zone is a suffix of the marker's
name exactly if it is one of the record's (`MarkerSuffix`), so the longest match
is the same. `CreateIsListedHolds` and `DeleteUndoesCreateHolds` need `BridgeInv`:
after an accepted create the zone is exactly what the DC makes of the one block
that was sent, and the zone before it had no data of that name and type
(`CreatedZone`). From there the report is computed (`CreatedReport`), and the delete
is shown to be accepted and to remove just that block (`DeleteUndoes`).

*Owners* (`OrchestratorProofs`). The invariants of this and the next two modules
are shown to survive `OpenNext`, in which a request may carry any payload that is
`Payload`: one operator's and well formed. Every step of `Orchestrator` is such a step (`NextIsOpen`). `SingleOwnerHolds` and
`ForeignWritesRejectedHolds` are not inductive alone, since an UPDATE in flight
could do anything. The invariant `OwnershipInv` adds that every UPDATE being sent
or delayed is guarded, that payloads are ones operators send, and that zones hold
proper names. The argument: `BuildGuarded` establishes the guard, no step changes
an UPDATE once built, and a DC that accepts a guarded UPDATE cannot touch a key
whose marker carries another label (`OthersProtected`, `LabelsStaySingle`). It
uses neither locks nor program counters nor the breaker: mutual exclusion is not
what protects owners, the prerequisites are.

*Requests* (`RequestProofs`). `RequestInv` carries `TypeOKHolds`,
`LocksHeldExactlyHolds`, `AckedMeansAppliedHolds` and `SharedBreakerCorrect`. Most
of it relates a goroutine's locals to its own program counter (`LocalInv`), is
proved for the goroutine that moves and left alone by all others. Types need
facts about the control: a walk is not empty where its first DC is used, a zone
index is in range where a zone is read. `AckedMeansApplied` is about the end of a
request; `Acked` says on the way that as long as no error is noted only the
zone in hand can be owed, and not even that once a DC has answered NOERROR. The
locks relate goroutines to each other. `SharedBreakerCorrect` is the breaker's
invariant again, now with the callers the code has. `AnswerMatchesCacheHolds`
rests on `AnswerInv`: a list has collected what the cache holds of the zones
behind it. It is preserved because only the holder of `axfrMu` writes the
cache, which is `LocksHeldExactly`.

*Refinement* (`RegistryProofs`). `ImplementsRegistryHolds`: initial states map to
initial states (`RegistryStart`); a DC that processes an UPDATE, now or late, is
one write of its operator (`ProcessWrites`), an edit one of the administrator
(`AdminWrites`), and everything else a stutter (`RegistryStep`). It uses
`OwnershipInv` for what an UPDATE may touch and `RequestInv` for whose it is.

*Operators* (the second half of `RegistryProofs`). The theorems above take the
shape of requests as given. `PlansWellFormedHolds` proves it of operators that plan
from an answer of any age. `Plan` lists sets as sequences, so this needs that
nothing is ever infinite: `SolidInv` says that zones, delayed UPDATEs and what each
goroutine holds are finite sets of records with rdata, and `OperatorsInv` the same
of goals and remembered answers (`PlanPayload` concludes). Every step of `Reconcile`
is then an `OpenNext` (`ReconcileStep`), and `OperatorsSafe` (one label per marker,
locks, 204 means applied), `OperatorsKeepApart` and `OperatorsUseRegistry` follow
for operators that poll, plan, change their minds and survive restarts.

*Transfers* (`TransferProofs`), for zones of any size. `AllOrNothing`
is not inductive, since it says nothing before the end. `TransferInv` adds that
the stream is SOA, records other than SOA, SOA (`StreamOK`) and, as long as no
error has been seen, that what the parser has and what waits in the channel are
together exactly what the library has read (`PrefixSoFar`). A collection with an
SOA at both ends is then the whole stream, because a prefix that ends in a second
SOA ends with the stream (`CompleteIsWhole`). `TransferTypeOKHolds` is part of it.
`CleanTransferSucceedsHolds` adds `CleanInv`: an undisturbed library only stops at
the end of the stream, and no error is seen before.

*Process* (`ProcessProofs`), for every ceiling, backoff, duration of kinit,
environment and set of tickets. `TicketNeverStale` needs `LongFirst` (the first
ticket outlives the ceiling and a kinit): `kerberos_short` shows that it cannot be
dropped. `BootInv` says that the loop is off until `setupAuth` has started it and
later only after a signal, `LoopInv` which timers go with which phase of the loop.
`TicketInv`: while the state is ready and the ticket is one that lasts until the
next (`Outlasts`), it outlives what is left of the sleep and of the kinit after
it. `RecoveryInv`: while the state is not ready, the time the KDC has been up is
bounded by how far the loop has got with its backoff and its kinit
(`RefreshRecovers`). `KinitsAlwaysApart` and these rest on the fact that a delay is
between 1 and the ceiling, for tickets of any life. `KrbTypeOKHolds` follows from
`LoopInv`. `CleanEndOnlyOnSignalHolds` and `KeepsServingHolds` need `EndInv`: the
listener is closed by the goroutine that waits for a signal and by nobody else. The
latter also needs `BootedInv`, that with Kerberos a ticket was there before the
server listened; with `BootInv` this makes the loop one that runs as long as no
signal has come. `CredentialOfModeHolds` is about `Load` as a function of the environment: an
accepted configuration passed every test on the way (`LoadAccepts`), and no two
sources of a secret pass (`TwoAreMany`, `OneSource`). `NoSettingIgnoredHolds` goes
through the variables: each is read into a field of its own and taking it away
changes that field or breaks what `Load` demands of it. Of a list, taking away an
entry that is not blank leaves one name fewer, which is a matter of cardinality and
needs no induction. `ProcessCredential` says that
the process keeps what was loaded.

Only model-checked is liveness under fairness, which is out of the provers' reach:
`ExclusionEnds`, `RequestsReturn`, `TransferEnds`, `SignalStops` and `Converges`.

That transfers may be disabled (`AxfrEnabled` FALSE), when the prerequisites are
the only protection, is a case of the ownership, request and registry theorems
alone: no run has it.

## Not modelled

* GSS contexts: negotiation and deletion happen inside a library; a negotiation
  that fails is one of the failures of an UPDATE.
* Replication between DCs: the code has no notion of it, and what AD does is not
  described in this repository. The DCs serve one content.
* TTLs and ports: no decision depends on them. JSON: the conversions copy fields;
  a body that cannot be decoded is answered 400 before anything is done.
* `/adjustendpoints` echoes its input, `GET /` lists the zones: no state.
* The keytab script, the container and the workflows are not part of the running
  system.

## Plan

1. Done: `DCBreaker`, `Dnsop`, `Ownership`, `Bridge`, `Orchestrator`.
2. Done: `Transfer`, `KerberosRefresh`, `Config`, `Process`, `Reconcile`, and the
   abstract specification `Registry` with its refinement.
3. Done: theorems for every invariant and action property of the passing runs,
   the refinement of `Registry`, and the same for the sidecar with its operators.
4. Worth doing next: replication between DCs, once it is known what AD promises;
   the GSS context of an UPDATE, so that a ticket that ran out can be told from a
   DC that is down.
