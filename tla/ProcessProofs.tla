---------------------------- MODULE ProcessProofs ----------------------------
(***************************************************************************)
(* The process and the refresh loop inside it, for every environment,      *)
(* interval, backoff, kinit duration and ticket policy: how the process    *)
(* ends; which credential it works with; /healthz never hides a ticket     *)
(* that ran out, provided the first one outlives the ceiling (LongFirst);  *)
(* the loop recovers in time whatever tickets are granted; and two runs of *)
(* kinit are always apart.                                                 *)
(***************************************************************************)
EXTENDS Process, FiniteSetTheorems, SequenceTheorems, TLAPS

\* Types, and where the loop's clocks can be.
LoopInv ==
    /\ left \in Nat /\ timer \in Nat /\ busy \in Nat /\ up \in Int /\ up >= Down
    /\ loop \in {"off", "sleep", "kinit"}
    /\ loop # "kinit" => busy = 0
    /\ loop = "kinit" => timer = 0 /\ busy <= MaxKinit

\* While the state says ready, the ticket outlives the rest of the sleep and
\* of the kinit that follows.
TicketInv == status = "ready" /\ Outlasts(ccache) => left > timer + MaxKinit - busy

\* While it does not, the next kinit is at most a backoff away, and the KDC
\* has not been up for longer than the last failed kinit and what has passed
\* since.
RecoveryInv ==
    status # "ready" /\ loop # "off" =>
        /\ timer <= RetryBackoff
        /\ loop = "sleep" => up + timer <= RetryBackoff + MaxKinit
        /\ loop = "kinit" => up <= RetryBackoff + MaxKinit + busy

\* The loop is off before setupAuth has started it, and after a signal.
BootInv ==
    /\ main \in {"start", "auth"} => loop = "off" /\ status = "unknown"
    /\ loop = "off" => status = "unknown" \/ signalled
    /\ main \in {"start", "auth", "listen", "serve", "exited"}

\* What a step of the process does to the credential.  Once the loop has ended
\* no time is counted any more.
KrbStep ==
    \/ BootReady /\ loop = "off" /\ status = "unknown"
    \/ RefreshLoop \/ LoopEnds
    \/ Surroundings /\ (loop = "off" => status = "unknown")
    \/ UNCHANGED krbVars

\* Intervals are positive: an interval that is not set, or not positive,
\* becomes the default.
LEMMA CeilingPositive == ceiling \in Nat /\ ceiling >= 1
BY RefreshAssumption DEF ceiling

\* The end read from the cache is the end of the TGT.
LEMMA EndTimeIsTGTs ==
    ASSUME NEW g \in Grants \cup FirstGrants
    PROVE  TGTEndTime(g) = LifeOf(g) /\ LifeOf(g) \in Int
<1> DEFINE tgts == {e \in g.entries : e.tgt}
           lives == {e.life : e \in tgts}
<1>1. LifeOf(g) \in lives /\ (\A e \in tgts : e.life <= LifeOf(g)) /\ \A e \in tgts : e.life \in Int
  BY RefreshAssumption
<1>2. tgts # {}
  BY <1>1
<1>3. \A m \in lives : m <= LifeOf(g) /\ m \in Int
  BY <1>1
<1>4. TGTEndTime(g) = CHOOSE l \in lives : \A m \in lives : m <= l
  BY <1>2 DEF TGTEndTime
<1> HIDE DEF lives
<1>5. (CHOOSE l \in lives : \A m \in lives : m <= l) \in lives
      /\ \A m \in lives : m <= (CHOOSE l \in lives : \A m2 \in lives : m2 <= l)
  BY <1>1, <1>3
<1> QED BY <1>1, <1>3, <1>4, <1>5

\* The pause after a successful kinit is positive and at most the ceiling.
LEMMA PauseRange ==
    ASSUME NEW g \in Grants
    PROVE  NextRefresh(g) \in Nat /\ 1 <= NextRefresh(g) /\ NextRefresh(g) <= ceiling
<1>1. TGTEndTime(g) \in Int
  BY EndTimeIsTGTs
<1>2. TGTEndTime(g) \div 2 \in Int
  BY <1>1
<1> QED BY <1>2, CeilingPositive DEF NextRefresh

\* A ticket that should last outlives the pause and a kinit.
LEMMA LongEnough ==
    ASSUME NEW g \in Grants, Outlasts(g)
    PROVE  Life(g) \in Nat /\ Life(g) > NextRefresh(g) + MaxKinit
<1>1. TGTEndTime(g) = LifeOf(g) /\ LifeOf(g) \in Int /\ g.readable \in BOOLEAN /\ MaxKinit \in Nat
  BY EndTimeIsTGTs, RefreshAssumption
<1>2. CASE g.readable
  <2>1. LifeOf(g) >= 2 /\ LifeOf(g) > 2 * MaxKinit
    BY <1>2 DEF Outlasts
  <2> DEFINE half == LifeOf(g) \div 2
  <2>2. half \in Int /\ half >= 1 /\ 2 * half <= LifeOf(g)
    BY <1>1, <2>1
  <2>3. NextRefresh(g) = (IF half < ceiling THEN half ELSE ceiling)
    BY <1>1, <1>2, <2>2 DEF NextRefresh
  <2> HIDE DEF half
  <2>4. NextRefresh(g) \in Int /\ NextRefresh(g) <= half
    BY <2>2, <2>3, CeilingPositive
  <2>5. LifeOf(g) > half + MaxKinit
    BY <1>1, <2>1, <2>2
  <2> QED BY <1>1, <2>1, <2>2, <2>4, <2>5 DEF Life
<1>3. CASE ~g.readable
  <2>1. LifeOf(g) > ceiling + MaxKinit /\ NextRefresh(g) = ceiling
    BY <1>3 DEF Outlasts, NextRefresh
  <2> QED BY <1>1, <2>1, CeilingPositive DEF Life
<1> QED BY <1>2, <1>3

\* The life of a granted ticket is a duration.
LEMMA LifeNat == ASSUME NEW g \in Grants \cup FirstGrants PROVE Life(g) \in Nat
BY EndTimeIsTGTs DEF Life

\* The order of the process's life, and with it the form of every step.
LEMMA BootInvInductive ==
    /\ ProcessInit => BootInv
    /\ BootInv /\ [ProcessNext]_allVars => BootInv' /\ KrbStep
<1>1. ProcessInit => BootInv
  BY DEF ProcessInit, KrbInit, BootInv
<1>2. ASSUME BootInv, [ProcessNext]_allVars PROVE BootInv' /\ KrbStep
  <2>1. CASE ReadConfig \/ SetupKey \/ SetupFails \/ Listen \/ ListenFails \/ ServeReturns
             \/ CloseListener \/ ListenerBreaks \/ Signal \/ Ended \/ UNCHANGED allVars
    <3>1. UNCHANGED krbVars
      BY <2>1 DEF ReadConfig, SetupKey, SetupFails, Listen, ListenFails, ServeReturns,
                  CloseListener, ListenerBreaks, Signal, Ended, allVars
    <3>2. signalled => signalled'
      BY <2>1 DEF ReadConfig, SetupKey, SetupFails, Listen, ListenFails, ServeReturns,
                  CloseListener, ListenerBreaks, Signal, Ended, allVars, processVars
    <3>3. /\ main' \in {"start", "auth"} => main \in {"start", "auth"}
          /\ main' \in {"start", "auth", "listen", "serve", "exited"}
      BY <1>2, <2>1 DEF ReadConfig, SetupKey, SetupFails, Listen, ListenFails, ServeReturns,
                  CloseListener, ListenerBreaks, Signal, Ended, allVars, processVars, Exit, BootInv
    <3> QED BY <1>2, <3>1, <3>2, <3>3 DEF BootInv, KrbStep, krbVars
  <2>2. CASE SetupKerberos
    BY <1>2, <2>2 DEF SetupKerberos, BootInv, KrbStep, BootReady
  <2>3. CASE RefreshStep
    <3>1. main' = main /\ signalled' = signalled /\ loop # "off" /\ loop' # "off" /\ RefreshLoop
      BY <2>3 DEF RefreshStep, RefreshLoop, StartKinit, KinitOK, KinitFails, processVars
    <3> QED BY <1>2, <3>1 DEF BootInv, KrbStep
  <2>4. CASE RefreshEnds
    BY <1>2, <2>4 DEF RefreshEnds, LoopEnds, BootInv, KrbStep, processVars
  <2>5. CASE TimePasses
    <3>1. /\ main' = main /\ signalled' = signalled /\ loop' = loop /\ status' = status
          /\ Surroundings /\ main # "exited" /\ (main \in {"listen", "serve"} => ~signalled)
      BY <2>5 DEF TimePasses, Surroundings, Tick, KDCFails, KDCReturns, processVars, Running
    <3> QED BY <1>2, <3>1 DEF BootInv, KrbStep
  <2> QED BY <1>2, <2>1, <2>2, <2>3, <2>4, <2>5 DEF ProcessNext, MainStep
<1> QED BY <1>1, <1>2

\* The loop's own invariant.
LEMMA LoopInvInductive ==
    /\ ProcessInit => LoopInv
    /\ LoopInv /\ KrbStep => LoopInv'
<1> USE RefreshAssumption DEF LoopInv, Down
<1>1. ProcessInit => LoopInv
  BY DEF ProcessInit, KrbInit
<1>2. ASSUME LoopInv, KrbStep PROVE LoopInv'
  <2>1. CASE StartKinit
    BY <1>2, <2>1 DEF StartKinit
  <2>2. CASE KinitOK
    <3>1. PICK g \in Grants : left' = Life(g) /\ timer' = NextRefresh(g)
      BY <2>2 DEF KinitOK
    <3>2. left' \in Nat /\ timer' \in Nat
      BY <3>1, LifeNat, PauseRange
    <3> QED BY <1>2, <2>2, <3>2 DEF KinitOK
  <2>3. CASE KinitFails
    BY <1>2, <2>3 DEF KinitFails
  <2>4. CASE Tick
    BY <1>2, <2>4 DEF Tick, Later
  <2>5. CASE KDCFails \/ KDCReturns \/ LoopEnds \/ UNCHANGED krbVars
    BY <1>2, <2>5 DEF KDCFails, KDCReturns, LoopEnds, krbVars
  <2>6. CASE BootReady /\ loop = "off"
    <3>1. PICK g \in FirstGrants : left' = Life(g)
      BY <2>6 DEF BootReady
    <3> QED BY <1>2, <2>6, <3>1, LifeNat, CeilingPositive DEF BootReady
  <2> QED BY <1>2, <2>1, <2>2, <2>3, <2>4, <2>5, <2>6 DEF KrbStep, RefreshLoop, Surroundings
<1> QED BY <1>1, <1>2

\* The ticket outlives what the loop does before it has another one.
LEMMA TicketInvInductive ==
    ASSUME LongFirst
    PROVE  /\ ProcessInit => TicketInv
           /\ LoopInv /\ TicketInv /\ KrbStep => TicketInv'
<1> USE RefreshAssumption DEF LoopInv, TicketInv, Down
<1>1. ProcessInit => TicketInv
  BY DEF ProcessInit, KrbInit
<1>2. ASSUME LoopInv, TicketInv, KrbStep PROVE TicketInv'
  <2>1. CASE StartKinit
    BY <1>2, <2>1 DEF StartKinit
  <2>2. CASE KinitOK
    <3>1. PICK g \in Grants : ccache' = g /\ left' = Life(g) /\ timer' = NextRefresh(g)
      BY <2>2 DEF KinitOK
    <3>2. Outlasts(g) => left' > timer' + MaxKinit
      BY <3>1, LongEnough
    <3>3. busy' = 0 /\ timer' \in Nat
      BY <2>2, <3>1, PauseRange DEF KinitOK
    <3> QED BY <3>1, <3>2, <3>3
  <2>3. CASE KinitFails
    BY <2>3 DEF KinitFails, MarkExpired
  <2>4. CASE Tick /\ (loop = "off" => status = "unknown")
    <3>1. ccache' = ccache /\ status' = status /\ (status = "ready" => loop # "off")
      BY <2>4 DEF Tick
    <3> QED BY <1>2, <2>4, <3>1 DEF Tick, Later
  <2>5. CASE KDCFails \/ KDCReturns \/ LoopEnds \/ UNCHANGED krbVars
    BY <1>2, <2>5 DEF KDCFails, KDCReturns, LoopEnds, krbVars
  <2>6. CASE BootReady /\ loop = "off"
    <3>1. PICK g \in FirstGrants : left' = Life(g)
      BY <2>6 DEF BootReady
    <3>2. Life(g) > ceiling + MaxKinit
      BY EndTimeIsTGTs, CeilingPositive DEF LongFirst, Life
    <3> QED BY <1>2, <2>6, <3>1, <3>2, CeilingPositive, LifeNat DEF BootReady
  <2> QED BY <1>2, <2>1, <2>2, <2>3, <2>4, <2>5, <2>6 DEF KrbStep, RefreshLoop, Surroundings
<1> QED BY <1>1, <1>2

\* If the first ticket outlives the ceiling, a 200 of /healthz means that the
\* ticket, if it was one that lasts until its successor comes, is still good.
THEOREM TicketNeverStale == LongFirst => (ProcessSpec => []NeverSilentlyStale)
<1> SUFFICES ASSUME LongFirst PROVE ProcessSpec => []NeverSilentlyStale
  OBVIOUS
<1> DEFINE Inv == BootInv /\ LoopInv /\ TicketInv
<1>1. ProcessInit => Inv
  BY BootInvInductive, LoopInvInductive, TicketInvInductive
<1>2. Inv /\ [ProcessNext]_allVars => Inv'
  BY BootInvInductive, LoopInvInductive, TicketInvInductive
<1>3. Inv => NeverSilentlyStale
  <2> SUFFICES ASSUME Inv, cfg.mode = "gss-tsig", Healthz.ok, Outlasts(ccache) PROVE left > 0
    BY DEF NeverSilentlyStale
  <2>1. Healthz = [ok |-> status = "ready", kerberos |-> status]
    BY DEF Healthz
  <2>2. Healthz.ok = (status = "ready")
    BY <2>1, Zenon
  <2>3. status = "ready"
    BY <2>2, Zenon
  <2> QED BY <2>3, RefreshAssumption DEF LoopInv, TicketInv
<1> QED BY <1>1, <1>2, <1>3, PTL DEF ProcessSpec

\* A failed refresh is retried after the backoff.
LEMMA RecoveryInvInductive ==
    /\ ProcessInit => RecoveryInv
    /\ LoopInv /\ RecoveryInv /\ KrbStep => RecoveryInv'
<1> USE RefreshAssumption DEF LoopInv, RecoveryInv, Down
<1>1. ProcessInit => RecoveryInv
  BY DEF ProcessInit, KrbInit
<1>2. ASSUME LoopInv, RecoveryInv, KrbStep PROVE RecoveryInv'
  <2>1. CASE StartKinit
    BY <1>2, <2>1 DEF StartKinit
  <2>2. CASE KinitOK \/ BootReady
    BY <2>2 DEF KinitOK, BootReady, MarkReady
  <2>3. CASE KinitFails
    BY <1>2, <2>3 DEF KinitFails, MarkExpired
  <2>4. CASE Tick
    BY <1>2, <2>4 DEF Tick, Later
  <2>5. CASE KDCFails \/ KDCReturns \/ LoopEnds \/ UNCHANGED krbVars
    BY <1>2, <2>5 DEF KDCFails, KDCReturns, LoopEnds, krbVars
  <2> QED BY <1>2, <2>1, <2>2, <2>3, <2>4, <2>5 DEF KrbStep, RefreshLoop, Surroundings
<1> QED BY <1>1, <1>2

\* Whatever tickets the KDC grants, the state is ready again within a backoff
\* and two runs of kinit after the KDC is back.
THEOREM RefreshRecovers == ProcessSpec => []RecoversInTime
<1> DEFINE Inv == BootInv /\ LoopInv /\ RecoveryInv
<1>1. ProcessInit => Inv
  BY BootInvInductive, LoopInvInductive, RecoveryInvInductive
<1>2. Inv /\ [ProcessNext]_allVars => Inv'
  BY BootInvInductive, LoopInvInductive, RecoveryInvInductive
<1>3. Inv => RecoversInTime
  BY RefreshAssumption DEF LoopInv, RecoveryInv, RecoversInTime
<1> QED BY <1>1, <1>2, <1>3, PTL DEF ProcessSpec

\* After a kinit, whatever came of it, the loop sleeps.
THEOREM KinitsAlwaysApart == ProcessSpec => KinitsApart
<1>1. BootInv /\ [ProcessNext]_allVars
      => [loop = "kinit" /\ loop' = "sleep" => timer' >= 1]_krbVars
  <2> SUFFICES ASSUME KrbStep, loop = "kinit", loop' = "sleep" PROVE timer' >= 1
    BY BootInvInductive
  <2>1. CASE KinitOK
    BY <2>1, PauseRange DEF KinitOK
  <2>2. CASE KinitFails
    BY <2>2, RefreshAssumption DEF KinitFails
  <2> QED BY <2>1, <2>2 DEF KrbStep, RefreshLoop, StartKinit, LoopEnds, Surroundings, Tick,
                            KDCFails, KDCReturns, krbVars
<1>2. ProcessInit => BootInv
  BY BootInvInductive
<1>3. BootInv /\ [ProcessNext]_allVars => BootInv'
  BY BootInvInductive
<1> QED BY <1>1, <1>2, <1>3, PTL DEF ProcessSpec, KinitsApart

\* The clocks of the loop never run below zero, the KDC's uptime not above its
\* bound, and the state is one that /healthz knows.
THEOREM KrbTypeOKHolds == ProcessSpec => []KrbTypeOK
<1> DEFINE Inv == BootInv /\ LoopInv /\ status \in {"unknown", "ready", "expired"} /\ up <= MaxUp
<1>1. ProcessInit => Inv
  <2>1. ProcessInit => status \in {"unknown", "ready", "expired"} /\ up <= MaxUp
    BY RefreshAssumption DEF ProcessInit, KrbInit, Down
  <2> QED BY <2>1, BootInvInductive, LoopInvInductive
<1>2. Inv /\ [ProcessNext]_allVars => Inv'
  <2> SUFFICES ASSUME Inv, KrbStep
               PROVE  (status \in {"unknown", "ready", "expired"} /\ up <= MaxUp)'
    BY BootInvInductive, LoopInvInductive
  <2>1. CASE BootReady \/ RefreshLoop \/ LoopEnds \/ UNCHANGED krbVars
    BY <2>1 DEF BootReady, RefreshLoop, StartKinit, KinitOK, KinitFails, LoopEnds, MarkReady,
                MarkExpired, krbVars
  <2>2. CASE Surroundings
    BY <2>2, RefreshAssumption DEF Surroundings, Tick, KDCFails, KDCReturns, LoopInv, Down
  <2> QED BY <2>1, <2>2 DEF KrbStep
<1>3. Inv => KrbTypeOK
  BY RefreshAssumption DEF LoopInv, KrbTypeOK, Down
<1> QED BY <1>1, <1>2, <1>3, PTL DEF ProcessSpec

-----------------------------------------------------------------------------
(* How the process ends *)

\* The listener is closed by the goroutine that waits for a signal only.
EndInv ==
    /\ closed => signalled
    /\ CleanEndOnlyOnSignal

LEMMA EndInvInductive ==
    /\ ProcessInit => EndInv
    /\ EndInv /\ [ProcessNext]_allVars => EndInv'
<1> USE DEF EndInv, CleanEndOnlyOnSignal, Running
<1>1. ProcessInit => EndInv
  BY DEF ProcessInit
<1>2. ASSUME EndInv, [ProcessNext]_allVars PROVE EndInv'
  <2>1. CASE ReadConfig \/ SetupKey \/ SetupKerberos \/ SetupFails
    BY <1>2, <2>1 DEF ReadConfig, SetupKey, SetupKerberos, SetupFails, Exit
  <2>2. CASE Listen \/ ListenFails \/ ServeReturns
    BY <1>2, <2>2 DEF Listen, ListenFails, ServeReturns, Exit
  <2>3. CASE CloseListener \/ ListenerBreaks \/ Signal
    BY <1>2, <2>3 DEF CloseListener, ListenerBreaks, Signal, Exit
  <2>4. CASE RefreshStep \/ RefreshEnds \/ TimePasses \/ Ended \/ UNCHANGED allVars
    <3>1. UNCHANGED processVars
      BY <2>4 DEF RefreshStep, RefreshEnds, TimePasses, Ended, allVars
    <3> QED BY <1>2, <3>1 DEF processVars
  <2> QED BY <1>2, <2>1, <2>2, <2>3, <2>4 DEF ProcessNext, MainStep
<1> QED BY <1>1, <1>2

\* In every environment the process ends with status 0 only after a signal:
\* configuration, first kinit, client and listener failures show in the status.
THEOREM CleanEndOnlyOnSignalHolds == ProcessSpec => []CleanEndOnlyOnSignal
<1>1. EndInv => CleanEndOnlyOnSignal
  BY DEF EndInv
<1> QED BY <1>1, EndInvInductive, PTL DEF ProcessSpec

\* With Kerberos the first ticket has been there before the server listens.
BootedInv == main \in {"listen", "serve"} /\ cfg.mode = "gss-tsig" => status # "unknown"

LEMMA BootedInvInductive ==
    /\ ProcessInit => BootedInv
    /\ BootedInv /\ [ProcessNext]_allVars => BootedInv'
<1>1. ProcessInit => BootedInv
  BY DEF ProcessInit, BootedInv
<1>2. ASSUME BootedInv, [ProcessNext]_allVars PROVE BootedInv'
  <2>1. CASE ReadConfig \/ SetupKey \/ SetupFails \/ ListenFails \/ ServeReturns
    BY <2>1 DEF ReadConfig, SetupKey, SetupFails, ListenFails, ServeReturns, Exit, BootedInv
  <2>2. CASE SetupKerberos
    BY <2>2 DEF SetupKerberos, BootReady, MarkReady, BootedInv
  <2>3. CASE Listen \/ CloseListener \/ ListenerBreaks \/ Signal \/ Ended \/ UNCHANGED allVars
    BY <1>2, <2>3 DEF Listen, CloseListener, ListenerBreaks, Signal, Ended, Exit, BootedInv,
                      allVars, krbVars, processVars
  <2>4. CASE RefreshStep
    <3>1. cfg' = cfg /\ main' = main /\ (status' = status \/ status' \in {"ready", "expired"})
      BY <2>4 DEF RefreshStep, RefreshLoop, StartKinit, KinitOK, KinitFails, MarkReady, MarkExpired,
                  processVars
    <3> QED BY <1>2, <3>1 DEF BootedInv
  <2>5. CASE RefreshEnds \/ TimePasses
    <3>1. cfg' = cfg /\ main' = main /\ status' = status
      BY <2>5 DEF RefreshEnds, TimePasses, LoopEnds, Surroundings, Tick, KDCFails, KDCReturns,
                  processVars
    <3> QED BY <1>2, <3>1 DEF BootedInv
  <2> QED BY <1>2, <2>1, <2>2, <2>3, <2>4, <2>5 DEF ProcessNext, MainStep
<1> QED BY <1>1, <1>2

\* Whatever the KDC does and whatever tickets it grants, a process that serves
\* goes on serving and its refresh loop goes on running, until a signal comes or
\* the listener fails.
THEOREM KeepsServingHolds == ProcessSpec => KeepsServing
<1> DEFINE Inv == BootInv /\ EndInv /\ BootedInv
<1>1. ProcessInit => Inv
  BY BootInvInductive, EndInvInductive, BootedInvInductive
<1>2. Inv /\ [ProcessNext]_allVars => Inv'
  BY BootInvInductive, EndInvInductive, BootedInvInductive
<1>3. Inv /\ [ProcessNext]_allVars
      => [main = "serve" /\ ~signalled /\ ~broken
          => main' = "serve" /\ (cfg.mode = "gss-tsig" => loop' # "off")]_allVars
  <2> SUFFICES ASSUME Inv, ProcessNext, main = "serve", ~signalled, ~broken
               PROVE  main' = "serve" /\ (cfg.mode = "gss-tsig" => loop' # "off")
    OBVIOUS
  <2>1. ~closed /\ (cfg.mode = "gss-tsig" => loop # "off")
    BY DEF BootInv, EndInv, BootedInv
  <2>2. ~MainStep /\ ~CloseListener /\ ~RefreshEnds /\ ~Ended
    BY <2>1 DEF MainStep, ReadConfig, SetupKey, SetupKerberos, SetupFails, Listen, ListenFails,
                ServeReturns, CloseListener, RefreshEnds, Ended, Running
  <2>3. CASE ListenerBreaks \/ Signal
    BY <2>1, <2>3 DEF ListenerBreaks, Signal, krbVars
  <2>4. CASE RefreshStep
    BY <2>4 DEF RefreshStep, RefreshLoop, StartKinit, KinitOK, KinitFails, processVars
  <2>5. CASE TimePasses
    BY <2>1, <2>5 DEF TimePasses, Surroundings, Tick, KDCFails, KDCReturns, processVars
  <2> QED BY <2>2, <2>3, <2>4, <2>5 DEF ProcessNext
<1> QED BY <1>1, <1>2, <1>3, PTL DEF ProcessSpec, KeepsServing

-----------------------------------------------------------------------------
(* The credential *)

\* CredentialOfMode of one configuration.
CredentialFits(c) ==
    LET kerberos == {c.realm, c.principal, c.keytab, c.password}
        key == {c.tsig.name, c.tsig.secret, c.tsig.alg}
    IN  CASE c.mode = "gss-tsig" ->
                /\ (c.keytab = "") # (c.password = "")
                /\ HasRealm(c.principal) /\ key = {""}
          [] c.mode = "hmac-tsig" ->
                /\ kerberos = {""} /\ "" \notin key
                /\ c.tsig.name # "blank" /\ c.tsig.alg \in tsigAlgs
          [] c.mode = "insecure" -> kerberos \cup key = {""}

\* Two settings are more than one.
LEMMA TwoAreMany ==
    ASSUME NEW e, NEW j \in SecretSources, NEW k \in SecretSources, j # k, IsSet(e, j), IsSet(e, k)
    PROVE  Cardinality(Chosen(e, SecretSources)) > 1
<1> DEFINE set == Chosen(e, SecretSources)
<1>1. IsFiniteSet(SecretSources)
  <2>1. IsFiniteSet({"KEYTAB_FILE"}) /\ IsFiniteSet({"KEYTAB_BASE64"})
        /\ IsFiniteSet({"KEYTAB_BASE64_FILE"}) /\ IsFiniteSet({"AD_PASSWORD"})
        /\ IsFiniteSet({"AD_PASSWORD_FILE"})
    BY FS_Singleton
  <2>2. IsFiniteSet({"KEYTAB_FILE"} \cup {"KEYTAB_BASE64"})
    BY <2>1, FS_Union
  <2>3. IsFiniteSet({"KEYTAB_FILE"} \cup {"KEYTAB_BASE64"} \cup {"KEYTAB_BASE64_FILE"})
    BY <2>1, <2>2, FS_Union
  <2>4. IsFiniteSet({"KEYTAB_FILE"} \cup {"KEYTAB_BASE64"} \cup {"KEYTAB_BASE64_FILE"}
                    \cup {"AD_PASSWORD"})
    BY <2>1, <2>3, FS_Union
  <2>5. IsFiniteSet({"KEYTAB_FILE"} \cup {"KEYTAB_BASE64"} \cup {"KEYTAB_BASE64_FILE"}
                    \cup {"AD_PASSWORD"} \cup {"AD_PASSWORD_FILE"})
    BY <2>1, <2>4, FS_Union
  <2>6. SecretSources = {"KEYTAB_FILE"} \cup {"KEYTAB_BASE64"} \cup {"KEYTAB_BASE64_FILE"}
                        \cup {"AD_PASSWORD"} \cup {"AD_PASSWORD_FILE"}
    BY DEF SecretSources
  <2> QED BY <2>5, <2>6
<1>2. IsFiniteSet(set)
  BY <1>1, FS_Subset DEF Chosen
<1>3. j \in set /\ k \in set \ {j}
  BY DEF Chosen
<1>4. /\ IsFiniteSet(set \ {j}) /\ Cardinality(set \ {j}) = Cardinality(set) - 1
      /\ Cardinality(set) \in Nat
  BY <1>2, <1>3, FS_RemoveElement, FS_CardinalityType
<1>5. Cardinality(set \ {j}) \in Nat /\ Cardinality(set \ {j}) # 0
  BY <1>3, <1>4, FS_CardinalityType, FS_EmptySet
<1> QED BY <1>4, <1>5

\* resolveAuth fails, or gives a keytab, or a password, or nothing.
LEMMA OneSource ==
    ASSUME NEW e
    PROVE  \/ Err \in {resolveAuth(e).keytab, resolveAuth(e).password}
           \/ resolveAuth(e).keytab = "" \/ resolveAuth(e).password = ""
<1> DEFINE set == Chosen(e, SecretSources)
<1>1. CASE Cardinality(set) > 1
  BY <1>1 DEF resolveAuth
<1>2. CASE ~(Cardinality(set) > 1) /\ set = {}
  BY <1>2 DEF resolveAuth
<1>3. CASE ~(Cardinality(set) > 1) /\ set # {}
  <2>1. PICK k \in SecretSources : set = {k}
    <3>1. PICK k \in set : TRUE
      BY <1>3
    <3>2. \A j \in set : j = k
      BY <1>3, <3>1, TwoAreMany DEF Chosen
    <3> QED BY <3>1, <3>2 DEF Chosen
  <2>2. /\ k = "KEYTAB_FILE" \/ k = "KEYTAB_BASE64" \/ k = "KEYTAB_BASE64_FILE"
           \/ k = "AD_PASSWORD" \/ k = "AD_PASSWORD_FILE"
    BY DEF SecretSources
  <2> HIDE DEF set
  <2>3. resolveAuth(e).password = "" \/ resolveAuth(e).keytab = ""
    BY <1>3, <2>1, <2>2 DEF resolveAuth, set
  <2> QED BY <2>3
<1> QED BY <1>1, <1>2, <1>3

\* The fields of the settings.
LEMMA SettingsFields ==
    ASSUME NEW e, NEW c, c = Settings(e)
    PROVE  /\ c.ok = TRUE /\ c.mode = authMode(e) /\ c.tsig = tsigKey(e)
           /\ c.realm = e.vars["KERBEROS_REALM"]
           /\ c.principal = envOrFile(e, "KERBEROS_PRINCIPAL", "KERBEROS_PRINCIPAL_FILE")
           /\ c.keytab = credential(e).keytab /\ c.password = credential(e).password
           /\ c.krb5Conf = envOr(e, "KRB5_CONF", "default")
           /\ c.numbers = [k \in Numbers \cup {"KINIT_REFRESH_INTERVAL"} |-> parsePositive(e, k)]
           /\ c.dryRun = parseBool(e, "DRY_RUN", "false")
           /\ c.axfrEnabled = parseBool(e, "AXFR_ENABLED", "true")
           /\ c.listen = envOr(e, "WEBHOOK_LISTEN", "default")
           /\ c.hosts = parseHosts(e.hosts, authMode(e)) /\ c.zones = parseZones(e.zones)
           /\ c.filter = parseDomainFilter(e.filter)
BY Zenon DEF Settings

\* What Load accepts are the settings, and they have passed its checks.
LEMMA LoadAccepts ==
    ASSUME NEW e, Load(e).ok
    PROVE  /\ Load(e) = Settings(e)
           /\ authMode(e) # Err /\ ~rejectForeignEnv(e, authMode(e))
           /\ Err \notin {credential(e).keytab, credential(e).password, tsigKey(e).secret,
                         tsigKey(e).alg, envOrFile(e, "KERBEROS_PRINCIPAL", "KERBEROS_PRINCIPAL_FILE")}
           /\ Settings(e).hosts # <<>> /\ Settings(e).zones # <<>>
           /\ validate(Settings(e))
<1>1. ~NoConfig.ok
  BY DEF NoConfig
<1>2. PICK c : c = Settings(e)
  OBVIOUS
<1> DEFINE refused == \/ c.mode = Err \/ rejectForeignEnv(e, c.mode)
                      \/ Err \in {c.keytab, c.password, c.tsig.secret, c.tsig.alg, c.principal}
                      \/ \E k \in DOMAIN c.numbers : c.numbers[k] = Err
                      \/ c.hosts = <<>> \/ c.zones = <<>>
                      \/ ~validate(c)
<1>3. Load(e) = IF refused THEN NoConfig ELSE c
  BY <1>2, Zenon DEF Load
<1>4. ~refused /\ Load(e) = c
  <2> HIDE DEF refused
  <2> QED BY <1>1, <1>3, Zenon
<1>5. /\ c.mode = authMode(e) /\ c.tsig = tsigKey(e)
      /\ c.principal = envOrFile(e, "KERBEROS_PRINCIPAL", "KERBEROS_PRINCIPAL_FILE")
      /\ c.keytab = credential(e).keytab /\ c.password = credential(e).password
  BY <1>2, SettingsFields, Zenon
<1>6. /\ c.mode # Err /\ ~rejectForeignEnv(e, c.mode)
      /\ Err \notin {c.keytab, c.password, c.tsig.secret, c.tsig.alg, c.principal}
      /\ c.hosts # <<>> /\ c.zones # <<>> /\ validate(c)
  BY <1>4, Zenon
<1> HIDE DEF refused
<1> QED BY <1>2, <1>4, <1>5, <1>6, Zenon

\* The key of a mode that has none.
LEMMA NoKey ==
    ASSUME NEW t, t = [name |-> "", secret |-> "", alg |-> ""]
    PROVE  {t.name, t.secret, t.alg} = {""}
<1>1. t.name = ""
  OBVIOUS
<1>2. t.secret = ""
  OBVIOUS
<1>3. t.alg = ""
  OBVIOUS
<1> QED BY <1>1, <1>2, <1>3

\* Every configuration that Load accepts has the credential of its mode.
LEMMA LoadFits ==
    ASSUME NEW e, Load(e).ok
    PROVE  CredentialFits(Load(e))
<1> DEFINE mode == authMode(e)
<1>1. PICK c : c = Load(e)
  OBVIOUS
<1>2. /\ c.mode = mode /\ c.tsig = tsigKey(e) /\ c.realm = e.vars["KERBEROS_REALM"]
      /\ c.principal = envOrFile(e, "KERBEROS_PRINCIPAL", "KERBEROS_PRINCIPAL_FILE")
      /\ c.keytab = credential(e).keytab /\ c.password = credential(e).password
      /\ mode # Err /\ ~rejectForeignEnv(e, mode)
      /\ Err \notin {credential(e).keytab, credential(e).password, tsigKey(e).secret, tsigKey(e).alg}
      /\ validate(c)
  <2>1. c = Settings(e) /\ validate(c)
    BY <1>1, LoadAccepts
  <2>2. /\ c.mode = mode /\ c.tsig = tsigKey(e) /\ c.realm = e.vars["KERBEROS_REALM"]
        /\ c.principal = envOrFile(e, "KERBEROS_PRINCIPAL", "KERBEROS_PRINCIPAL_FILE")
        /\ c.keytab = credential(e).keytab /\ c.password = credential(e).password
    BY <2>1, SettingsFields
  <2>3. Err \notin {credential(e).keytab, credential(e).password, tsigKey(e).secret, tsigKey(e).alg}
    BY LoadAccepts
  <2> QED BY <2>1, <2>2, <2>3, LoadAccepts
<1>3. mode \in AuthModes
  BY <1>2 DEF authMode, parseAuthMode, AuthModes
<1>4. ASSUME \A k \in gssEnvVars : ~IsSet(e, k), mode # "gss-tsig"
      PROVE  {c.realm, c.principal, c.keytab, c.password} = {""}
  <2>1. c.realm = "" /\ c.principal = ""
    BY <1>2, <1>4 DEF gssEnvVars, IsSet, envOrFile
  <2>2. c.keytab = "" /\ c.password = ""
    BY <1>2, <1>4 DEF credential
  <2> QED BY <2>1, <2>2
<1>5. CASE mode = "gss-tsig"
  <2>1. c.keytab = resolveAuth(e).keytab /\ c.password = resolveAuth(e).password
    BY <1>2, <1>5 DEF credential
  <2>2. Err \notin {resolveAuth(e).keytab, resolveAuth(e).password}
    BY <1>2, <1>5 DEF credential
  <2>3. c.keytab = "" \/ c.password = ""
    BY <2>1, <2>2, OneSource
  <2>4. HasRealm(c.principal) /\ (c.keytab # "" \/ c.password # "")
    BY <1>2, <1>5 DEF validate
  <2>5. {c.tsig.name, c.tsig.secret, c.tsig.alg} = {""}
    <3>1. c.tsig = [name |-> "", secret |-> "", alg |-> ""]
      BY <1>2, <1>5 DEF tsigKey
    <3> QED BY <3>1, NoKey
  <2> QED BY <1>1, <1>2, <1>5, <2>3, <2>4, <2>5 DEF CredentialFits
<1>6. CASE mode = "hmac-tsig"
  <2>1. \A k \in gssEnvVars : ~IsSet(e, k)
    BY <1>2, <1>6 DEF rejectForeignEnv, Chosen
  <2>2. c.tsig = resolveTSIG(e) /\ c.tsig.alg # Err
    BY <1>2, <1>6 DEF tsigKey
  <2>3. c.tsig.name # "" /\ c.tsig.secret # ""
    BY <1>2, <1>6 DEF validate
  <2>4. c.tsig.name # "blank" /\ c.tsig.alg \in tsigAlgs
    <3> DEFINE alg == envOr(e, "TSIG_ALGORITHM", "hmac-sha256")
               name == e.vars["TSIG_KEY_NAME"]
    <3>1. /\ resolveTSIG(e).name = IF name = "blank" THEN "" ELSE name
          /\ resolveTSIG(e).alg = IF alg \in tsigAlgs THEN alg ELSE Err
      BY Zenon DEF resolveTSIG
    <3> HIDE DEF alg, name
    <3>2. c.tsig.name = IF name = "blank" THEN "" ELSE name
      BY <2>2, <3>1, Zenon
    <3>3. c.tsig.alg = IF alg \in tsigAlgs THEN alg ELSE Err
      BY <2>2, <3>1, Zenon
    <3> QED BY <2>2, <2>3, <3>2, <3>3
  <2>5. "" \notin tsigAlgs
    BY DEF tsigAlgs
  <2>6. {c.realm, c.principal, c.keytab, c.password} = {""}
    BY <1>4, <1>6, <2>1
  <2> QED BY <1>1, <1>2, <1>6, <2>3, <2>4, <2>5, <2>6 DEF CredentialFits
<1>7. CASE mode = "insecure"
  <2>1. \A k \in gssEnvVars : ~IsSet(e, k)
    BY <1>2, <1>7 DEF rejectForeignEnv, Chosen
  <2>2. {c.tsig.name, c.tsig.secret, c.tsig.alg} = {""}
    <3>1. c.tsig = [name |-> "", secret |-> "", alg |-> ""]
      BY <1>2, <1>7 DEF tsigKey
    <3> QED BY <3>1, NoKey
  <2>3. {c.realm, c.principal, c.keytab, c.password} = {""}
    BY <1>4, <1>7, <2>1
  <2> QED BY <1>1, <1>2, <1>7, <2>2, <2>3 DEF CredentialFits
<1> QED BY <1>3, <1>5, <1>6, <1>7 DEF AuthModes

\* What there is of a configuration is Load's.
LoadedInv == cfg = NotLoaded \/ cfg = Load(env)

LEMMA LoadedFits == LoadedInv => CredentialOfMode
<1>1. ~NotLoaded.ok
  BY DEF NotLoaded
<1>2. cfg.ok /\ CredentialFits(cfg) => CredentialOfMode
  BY Zenon DEF CredentialFits, CredentialOfMode
<1>3. ~cfg.ok => CredentialOfMode
  BY Zenon DEF CredentialOfMode
<1> QED BY <1>1, <1>2, <1>3, LoadFits DEF LoadedInv

\* In every environment, what Load accepts holds the whole credential of its
\* own mode and nothing of another's: a keytab or a password but not both, a
\* key with a name and a secret, or nothing at all.
THEOREM CredentialOfModeHolds == ConfigSpec => []CredentialOfMode
<1>1. ConfigInit => LoadedInv
  BY DEF ConfigInit, LoadedInv
<1>2. LoadedInv /\ [LoadConfig]_<<env, cfg>> => LoadedInv'
  BY DEF LoadConfig, LoadedInv
<1> QED BY <1>1, <1>2, LoadedFits, PTL DEF ConfigSpec

-----------------------------------------------------------------------------
(* Nothing that is set is dropped *)

Environment == [vars : [EnvVars -> STRING],
                hosts : Seq(Entry), zones : Seq(Entry), filter : Seq(Entry)]

\* Other settings, another outcome.
LEMMA LoadDiffers ==
    ASSUME NEW e, NEW d, Load(e).ok, Settings(d) # Settings(e)
    PROVE  Load(d) # Load(e)
<1>1. CASE Load(d).ok
  BY <1>1, LoadAccepts
<1>2. CASE ~Load(d).ok
  BY <1>2
<1> QED BY <1>1, <1>2

\* What the mode of an accepted environment says of its settings.
LEMMA ModeSettings ==
    ASSUME NEW e, Load(e).ok, NEW k \in gssEnvVars \cup tsigEnvVars, IsSet(e, k)
    PROVE  /\ k \in gssEnvVars => authMode(e) = "gss-tsig"
           /\ k \in tsigEnvVars => authMode(e) = "hmac-tsig"
<1>1. ~rejectForeignEnv(e, authMode(e)) /\ authMode(e) # Err
  BY LoadAccepts
<1>2. authMode(e) \in {"gss-tsig", "hmac-tsig", "insecure"}
  BY <1>1 DEF authMode, parseAuthMode, AuthModes
<1>3. CASE authMode(e) = "gss-tsig"
  <2>1. Chosen(e, tsigEnvVars) = {}
    BY <1>1, <1>3 DEF rejectForeignEnv
  <2> QED BY <1>3, <2>1 DEF Chosen
<1>4. CASE authMode(e) = "hmac-tsig"
  <2>1. Chosen(e, gssEnvVars) = {}
    BY <1>1, <1>4 DEF rejectForeignEnv
  <2> QED BY <1>4, <2>1 DEF Chosen
<1>5. CASE authMode(e) = "insecure"
  <2>1. Chosen(e, gssEnvVars \cup tsigEnvVars) = {}
    BY <1>1, <1>5 DEF rejectForeignEnv
  <2> QED BY <2>1 DEF Chosen
<1> QED BY <1>2, <1>3, <1>4, <1>5

LEMMA NoneIsFew == ASSUME NEW n, n = 0 PROVE ~(n > 1)
OBVIOUS

\* Without its only source there is no secret.
LEMMA SourceTaken ==
    ASSUME NEW e, NEW d, NEW k \in SecretSources, IsSet(e, k),
           \A j \in SecretSources : d.vars[j] = IF j = k THEN "" ELSE e.vars[j],
           Err \notin {resolveAuth(e).keytab, resolveAuth(e).password}
    PROVE  resolveAuth(d).keytab = "" /\ resolveAuth(d).password = ""
<1>1. ASSUME NEW j \in SecretSources \ {k}, IsSet(e, j) PROVE FALSE
  <2>1. Cardinality(Chosen(e, SecretSources)) > 1
    BY <1>1, TwoAreMany
  <2>2. resolveAuth(e).keytab = Err
    BY <2>1 DEF resolveAuth
  <2> QED BY <2>2
<1>2. Chosen(d, SecretSources) = {}
  BY <1>1 DEF Chosen, IsSet
<1>3. Cardinality(Chosen(d, SecretSources)) = 0
  BY <1>2, FS_EmptySet, Zenon
<1> DEFINE set == Chosen(d, SecretSources)
<1>4. ~(Cardinality(set) > 1) /\ set = {}
  BY <1>2, <1>3, NoneIsFew, Zenon
<1> QED BY <1>4 DEF resolveAuth

\* The fields of a key.
LEMMA KeyFields ==
    ASSUME NEW e, NEW t, t = resolveTSIG(e)
    PROVE  /\ t.name = IF e.vars["TSIG_KEY_NAME"] = "blank" THEN "" ELSE e.vars["TSIG_KEY_NAME"]
           /\ t.secret = envOrFile(e, "TSIG_SECRET", "TSIG_SECRET_FILE")
           /\ t.alg = IF envOr(e, "TSIG_ALGORITHM", "hmac-sha256") \in tsigAlgs
                      THEN envOr(e, "TSIG_ALGORITHM", "hmac-sha256") ELSE Err
BY Zenon DEF resolveTSIG

\* Every setting that says something makes a difference.
LEMMA VarMatters ==
    ASSUME NEW e, Load(e).ok, NEW k \in EnvVars, IsSet(e, k), ~SaysNothing(e, k),
           NEW d, \A j \in EnvVars : d.vars[j] = IF j = k THEN "" ELSE e.vars[j]
    PROVE  Settings(d) # Settings(e)
<1>1. /\ \A j \in EnvVars : d.vars[j] = IF j = k THEN "" ELSE e.vars[j]
      /\ e.vars[k] # ""
  BY DEF IsSet
<1>2. PICK c : c = Settings(e)
  OBVIOUS
<1>3. PICK b : b = Settings(d)
  OBVIOUS
<1>4. validate(c)
  BY <1>2, LoadAccepts
<1>7. /\ c.mode = authMode(e) /\ c.tsig = tsigKey(e)
      /\ c.realm = e.vars["KERBEROS_REALM"]
      /\ c.principal = envOrFile(e, "KERBEROS_PRINCIPAL", "KERBEROS_PRINCIPAL_FILE")
      /\ c.krb5Conf = envOr(e, "KRB5_CONF", "default")
      /\ c.numbers = [j \in Numbers \cup {"KINIT_REFRESH_INTERVAL"} |-> parsePositive(e, j)]
      /\ c.dryRun = parseBool(e, "DRY_RUN", "false")
      /\ c.axfrEnabled = parseBool(e, "AXFR_ENABLED", "true")
      /\ c.listen = envOr(e, "WEBHOOK_LISTEN", "default")
  BY <1>2, SettingsFields, ZenonT(40)
<1>8. /\ b.mode = authMode(d) /\ b.tsig = tsigKey(d)
      /\ b.realm = d.vars["KERBEROS_REALM"]
      /\ b.principal = envOrFile(d, "KERBEROS_PRINCIPAL", "KERBEROS_PRINCIPAL_FILE")
      /\ b.keytab = credential(d).keytab /\ b.password = credential(d).password
      /\ b.krb5Conf = envOr(d, "KRB5_CONF", "default")
      /\ b.numbers = [j \in Numbers \cup {"KINIT_REFRESH_INTERVAL"} |-> parsePositive(d, j)]
      /\ b.dryRun = parseBool(d, "DRY_RUN", "false")
      /\ b.axfrEnabled = parseBool(d, "AXFR_ENABLED", "true")
      /\ b.listen = envOr(d, "WEBHOOK_LISTEN", "default")
  BY <1>3, SettingsFields, ZenonT(40)
<1>5. CASE k = "AUTH_MODE"
  <2>1. authMode(d) = "gss-tsig"
    BY <1>1, <1>5 DEF authMode, parseAuthMode, EnvVars
  <2>2. authMode(e) # "gss-tsig"
    BY <1>1, <1>5, LoadAccepts DEF authMode, parseAuthMode, SaysNothing, AuthModes, Err
  <2>3. c.mode # b.mode
    BY <1>7, <1>8, <2>1, <2>2
  <2> QED BY <1>2, <1>3, <2>3
<1>6. CASE k # "AUTH_MODE"
  <2>1. authMode(d) = authMode(e)
    BY <1>1, <1>6 DEF authMode, EnvVars
  <2>2. CASE k \in Numbers \cup {"KINIT_REFRESH_INTERVAL"}
    <3>1. c.numbers[k] = parsePositive(e, k) /\ b.numbers[k] = parsePositive(d, k)
      <4>1. c.numbers = [j \in Numbers \cup {"KINIT_REFRESH_INTERVAL"} |-> parsePositive(e, j)]
        BY <1>7, Zenon
      <4>2. b.numbers = [j \in Numbers \cup {"KINIT_REFRESH_INTERVAL"} |-> parsePositive(d, j)]
        BY <1>8, Zenon
      <4>3. c.numbers[k] = parsePositive(e, k)
        BY <2>2, <4>1, Zenon
      <4>4. b.numbers[k] = parsePositive(d, k)
        BY <2>2, <4>2, Zenon
      <4> QED BY <4>3, <4>4
    <3>2. parsePositive(d, k) = "default"
      BY <1>1 DEF parsePositive, envOr, IsSet
    <3>3. parsePositive(e, k) # "default"
      BY <1>1, <2>2 DEF parsePositive, envOr, IsSet, SaysNothing, Err
    <3>4. c.numbers # b.numbers
      BY <3>1, <3>2, <3>3
    <3> QED BY <1>2, <1>3, <3>4
  <2>3. CASE k = "DRY_RUN"
    <3>1. c.dryRun = "true" /\ b.dryRun = "false"
      BY <1>1, <1>7, <1>8, <2>3 DEF parseBool, SaysNothing, EnvVars
    <3> QED BY <1>2, <1>3, <3>1
  <2>4. CASE k = "AXFR_ENABLED"
    <3>1. c.axfrEnabled = "false" /\ b.axfrEnabled = "true"
      BY <1>1, <1>7, <1>8, <2>4 DEF parseBool, SaysNothing, EnvVars
    <3> QED BY <1>2, <1>3, <3>1
  <2>5. CASE k = "WEBHOOK_LISTEN"
    <3>1. c.listen # "default" /\ b.listen = "default"
      BY <1>1, <1>7, <1>8, <2>5 DEF envOr, IsSet, SaysNothing, EnvVars
    <3> QED BY <1>2, <1>3, <3>1
  <2>6. CASE k = "KRB5_CONF"
    <3>1. c.krb5Conf # "default" /\ b.krb5Conf = "default"
      BY <1>1, <1>7, <1>8, <2>6 DEF envOr, IsSet, SaysNothing, EnvVars, gssEnvVars
    <3> QED BY <1>2, <1>3, <3>1
  <2>7. CASE k = "KERBEROS_REALM"
    <3>1. c.realm # "" /\ b.realm = ""
      BY <1>1, <1>7, <1>8, <2>7
    <3> QED BY <1>2, <1>3, <3>1
  <2>8. CASE k \in {"KERBEROS_PRINCIPAL", "KERBEROS_PRINCIPAL_FILE"}
    <3>0. authMode(e) = "gss-tsig"
      BY <2>8, ModeSettings DEF gssEnvVars
    <3>1. c.mode = "gss-tsig"
      BY <1>7, <3>0
    <3>2. c.principal # ""
      BY <1>4, <3>1 DEF validate
    <3>3. c.principal = envOrFile(e, "KERBEROS_PRINCIPAL", "KERBEROS_PRINCIPAL_FILE")
          /\ b.principal = envOrFile(d, "KERBEROS_PRINCIPAL", "KERBEROS_PRINCIPAL_FILE")
      BY <1>7, <1>8
    <3>4. envOrFile(e, "KERBEROS_PRINCIPAL", "KERBEROS_PRINCIPAL_FILE") # Err
      BY LoadAccepts
    <3>5. "KERBEROS_PRINCIPAL" \in EnvVars /\ "KERBEROS_PRINCIPAL_FILE" \in EnvVars
      BY DEF EnvVars, gssEnvVars
    <3>6. b.principal = ""
      BY <1>1, <2>8, <3>3, <3>4, <3>5 DEF envOrFile, IsSet
    <3> QED BY <1>2, <1>3, <3>2, <3>6
  <2>9. CASE k \in SecretSources
    <3>0. authMode(e) = "gss-tsig"
      BY <2>9, ModeSettings DEF gssEnvVars, SecretSources
    <3>1. c.mode = "gss-tsig"
      BY <1>7, <3>0
    <3>2. c.keytab # "" \/ c.password # ""
      BY <1>4, <3>1 DEF validate
    <3>3. credential(e) = resolveAuth(e) /\ credential(d) = resolveAuth(d)
      BY <2>1, <3>0 DEF credential
    <3>4. Err \notin {resolveAuth(e).keytab, resolveAuth(e).password}
      BY <3>3, LoadAccepts
    <3>5. \A j \in SecretSources : d.vars[j] = IF j = k THEN "" ELSE e.vars[j]
      BY <1>1 DEF SecretSources, EnvVars, gssEnvVars
    <3>6. resolveAuth(d).keytab = "" /\ resolveAuth(d).password = ""
      BY <2>9, <3>4, <3>5, SourceTaken
    <3>7. b.keytab = "" /\ b.password = ""
      BY <1>8, <3>3, <3>6
    <3> QED BY <1>2, <1>3, <3>2, <3>7
  <2>10. CASE k \in tsigEnvVars
    <3>0. authMode(e) = "hmac-tsig"
      BY <2>10, ModeSettings
    <3>1. c.mode = "hmac-tsig" /\ c.tsig = resolveTSIG(e) /\ b.tsig = resolveTSIG(d)
      BY <1>7, <1>8, <2>1, <3>0 DEF tsigKey
    <3>2. c.tsig.name # "" /\ c.tsig.secret # ""
      BY <1>4, <3>1 DEF validate
    <3>3. tsigEnvVars \subseteq EnvVars
      BY DEF EnvVars
    <3>4. CASE k = "TSIG_KEY_NAME"
      <4>1. b.tsig.name = ""
        BY <1>1, <3>1, <3>4, KeyFields
      <4> QED BY <1>2, <1>3, <3>2, <4>1
    <3>5. CASE k \in {"TSIG_SECRET", "TSIG_SECRET_FILE"}
      <4>1. tsigKey(e) = resolveTSIG(e)
        BY <3>0 DEF tsigKey
      <4>2. envOrFile(e, "TSIG_SECRET", "TSIG_SECRET_FILE") # Err
        BY <4>1, LoadAccepts, KeyFields, ZenonT(40)
      <4>3. b.tsig.secret = envOrFile(d, "TSIG_SECRET", "TSIG_SECRET_FILE")
        BY <3>1, KeyFields
      <4>4. b.tsig.secret = ""
        BY <1>1, <3>3, <3>5, <4>2, <4>3 DEF envOrFile, IsSet, tsigEnvVars
      <4> QED BY <1>2, <1>3, <3>2, <4>4
    <3>6. CASE k = "TSIG_ALGORITHM"
      <4>1. tsigKey(e) = resolveTSIG(e)
        BY <3>0 DEF tsigKey
      <4>2. resolveTSIG(e).alg # Err
        BY <4>1, LoadAccepts
      <4>3. resolveTSIG(e).alg = e.vars["TSIG_ALGORITHM"]
        BY <1>1, <3>6, <4>2, KeyFields DEF envOr, IsSet
      <4>4. resolveTSIG(d).alg = "hmac-sha256"
        BY <1>1, <3>6, KeyFields DEF envOr, IsSet, tsigAlgs
      <4>5. c.tsig.alg # b.tsig.alg
        BY <3>1, <3>6, <4>3, <4>4 DEF SaysNothing
      <4> QED BY <1>2, <1>3, <4>5
    <3> QED BY <2>10, <3>4, <3>5, <3>6 DEF tsigEnvVars
  <2> QED BY <1>6, <2>2, <2>3, <2>4, <2>5, <2>6, <2>7, <2>8, <2>9, <2>10
          DEF EnvVars, gssEnvVars, SecretSources
<1> QED BY <1>5, <1>6

\* An entry of a list that is taken away leaves one name less.
LEMMA EntryMatters ==
    ASSUME NEW list \in Seq(Entry), NEW i \in Kept(list)
    PROVE  SelectNames(Without(list, i)) # SelectNames(list)
<1> DEFINE n == Len(list)
           less == Without(list, i)
           Skip == [j \in Kept(less) |-> IF j < i THEN j ELSE j + 1]
<1>1. n \in Nat /\ DOMAIN list = 1..n /\ i \in 1..n
  BY LenProperties DEF Kept
<1>2. /\ less \in Seq(Entry) /\ Len(less) = n - 1 /\ DOMAIN less = 1..(n - 1)
      /\ \A j \in 1..(n - 1) : less[j] = IF j < i THEN list[j] ELSE list[j + 1]
  <2>0. \A j \in 1..n : list[j] \in Entry
    BY <1>1, ElementOfSeq
  <2>1. PICK u : u = SubSeq(list, 1, i - 1)
    OBVIOUS
  <2>2. PICK v : v = SubSeq(list, i + 1, n)
    OBVIOUS
  <2>3. u \in Seq(Entry) /\ Len(u) = i - 1 /\ \A j \in 1..(i - 1) : u[j] = list[j]
    BY <1>1, <2>0, <2>1, SubSeqProperties
  <2>4. /\ v \in Seq(Entry) /\ Len(v) = n - i
        /\ \A j \in 1..(n - i) : v[j] = list[i + 1 + j - 1]
    <3>1. i + 1 \in Int /\ n \in Int /\ \A j \in (i + 1)..n : list[j] \in Entry
      BY <1>1, <2>0
    <3>2. /\ v \in Seq(Entry) /\ Len(v) = IF i + 1 <= n THEN n - (i + 1) + 1 ELSE 0
          /\ \A j \in 1..(n - (i + 1) + 1) : v[j] = list[i + 1 + j - 1]
      BY <2>2, <3>1, SubSeqProperties
    <3> HIDE DEF n
    <3>3. n \in Nat /\ i \in 1..n
      BY <1>1
    <3>4. n - (i + 1) + 1 = n - i /\ (~(i + 1 <= n) => n - i = 0)
      BY <3>3
    <3> QED BY <3>2, <3>4
  <2>5. less = u \o v
    BY <2>1, <2>2 DEF Without
  <2>6. /\ less \in Seq(Entry) /\ Len(less) = n - 1
        /\ \A j \in 1..Len(less) : less[j] = IF j <= Len(u) THEN u[j] ELSE v[j - Len(u)]
    <3>1. /\ u \o v \in Seq(Entry) /\ Len(u \o v) = Len(u) + Len(v)
          /\ \A j \in 1..(Len(u) + Len(v)) :
                (u \o v)[j] = IF j <= Len(u) THEN u[j] ELSE v[j - Len(u)]
      BY <2>3, <2>4, ConcatProperties
    <3>2. Len(u) + Len(v) = n - 1
      BY <1>1, <2>3, <2>4
    <3> HIDE DEF less, n
    <3> QED BY <2>5, <3>1, <3>2
  <2>7. DOMAIN less = 1..(n - 1)
    <3> HIDE DEF less
    <3> QED BY <2>6, LenProperties
  <2>8. ASSUME NEW j \in 1..(n - 1)
        PROVE  less[j] = IF j < i THEN list[j] ELSE list[j + 1]
    <3> HIDE DEF less
    <3>1. CASE j < i
      BY <1>1, <2>3, <2>6, <3>1
    <3>2. CASE ~(j < i)
      <4>1. j - Len(u) \in 1..(n - i) /\ i + 1 + (j - Len(u)) - 1 = j + 1
        BY <1>1, <2>3, <3>2
      <4>2. less[j] = v[j - Len(u)]
        <5>1. j \in 1..Len(less) /\ ~(j <= Len(u))
          BY <1>1, <2>3, <2>6, <3>2
        <5>2. \A k \in 1..Len(less) : less[k] = IF k <= Len(u) THEN u[k] ELSE v[k - Len(u)]
          BY <2>6, Zenon
        <5> QED BY <5>1, <5>2, Zenon
      <4> QED BY <2>4, <3>2, <4>1, <4>2
    <3> QED BY <3>1, <3>2
  <2> QED BY <2>6, <2>7, <2>8
<1>3. IsFiniteSet(Kept(list)) /\ IsFiniteSet(Kept(less))
  <2>1. Kept(list) \in SUBSET (1..n) /\ Kept(less) \in SUBSET (1..(n - 1))
    BY <1>1, <1>2 DEF Kept
  <2>2. IsFiniteSet(1..n) /\ IsFiniteSet(1..(n - 1))
    BY <1>1, FS_Interval
  <2> QED BY <2>1, <2>2, FS_Subset
<1>4. Skip \in Bijection(Kept(less), Kept(list) \ {i})
  <2>1. \A j \in Kept(less) : Skip[j] \in Kept(list) \ {i}
    BY <1>1, <1>2 DEF Kept
  <2>2. \A j, h \in Kept(less) : Skip[j] = Skip[h] => j = h
    BY <1>1, <1>2 DEF Kept
  <2>3. \A j \in Kept(list) \ {i} : \E h \in Kept(less) : Skip[h] = j
    <3> SUFFICES ASSUME NEW j \in Kept(list) \ {i} PROVE \E h \in Kept(less) : Skip[h] = j
      OBVIOUS
    <3>1. CASE j < i
      BY <1>1, <1>2, <3>1 DEF Kept
    <3>2. CASE j > i
      <4>1. j - 1 \in Kept(less) /\ Skip[j - 1] = j
        BY <1>1, <1>2, <3>2 DEF Kept
      <4> QED BY <4>1
    <3> QED BY <1>1, <3>1, <3>2 DEF Kept
  <2>4. Skip \in [Kept(less) -> Kept(list) \ {i}]
    BY <2>1
  <2> HIDE DEF Skip
  <2> QED BY <2>2, <2>3, <2>4 DEF Bijection, Injection, Surjection, IsInjective
<1>5. Cardinality(Kept(less)) = Cardinality(Kept(list)) - 1
  <2>1. ExistsBijection(Kept(less), Kept(list) \ {i})
    BY <1>4 DEF ExistsBijection
  <2>2. Cardinality(Kept(list) \ {i}) = Cardinality(Kept(less))
    BY <1>3, <2>1, FS_Bijection
  <2> QED BY <1>3, <2>2, FS_RemoveElement
<1>6. Cardinality(Kept(list)) \in Nat
  BY <1>3, FS_CardinalityType
<1>7. /\ DOMAIN SelectNames(list) = 1..Cardinality(Kept(list))
      /\ DOMAIN SelectNames(less) = 1..Cardinality(Kept(less))
  BY DEF SelectNames
<1>8. Cardinality(Kept(list)) \in 1..Cardinality(Kept(list))
  <2>1. Cardinality(Kept(list)) # 0
    BY <1>3, FS_EmptySet
  <2> QED BY <1>6, <2>1
<1>9. Cardinality(Kept(list)) \notin 1..Cardinality(Kept(less))
  BY <1>5, <1>6
<1> QED BY <1>7, <1>8, <1>9

\* So every list changes, or is refused.
LEMMA ListMatters ==
    ASSUME NEW list \in Seq(Entry), NEW i \in DOMAIN list, NotBlank(list[i]), NEW mode
    PROVE  LET less == Without(list, i)
           IN  /\ parseHosts(list, mode) # <<>> => parseHosts(less, mode) # parseHosts(list, mode)
               /\ parseZones(list) # <<>> => parseZones(less) # parseZones(list)
               /\ parseDomainFilter(less) # parseDomainFilter(list)
<1>1. SelectNames(Without(list, i)) # SelectNames(list)
  BY EntryMatters DEF Kept
<1> QED BY <1>1 DEF parseHosts, parseZones, parseDomainFilter

\* NoSettingIgnored of one environment and its configuration.
LEMMA NothingIgnored ==
    ASSUME NEW e \in Environment, NEW c, c = Load(e), c.ok
    PROVE  /\ \A k \in Chosen(e, EnvVars) :
                SaysNothing(e, k) \/ Load([e EXCEPT !.vars[k] = ""]) # c
           /\ \A i \in DOMAIN e.hosts :
                NotBlank(e.hosts[i]) => Load([e EXCEPT !.hosts = Without(@, i)]) # c
           /\ \A i \in DOMAIN e.zones :
                NotBlank(e.zones[i]) => Load([e EXCEPT !.zones = Without(@, i)]) # c
           /\ \A i \in DOMAIN e.filter :
                NotBlank(e.filter[i]) => Load([e EXCEPT !.filter = Without(@, i)]) # c
<1>1. Load(e).ok
  OBVIOUS
<1>2. ASSUME NEW k \in Chosen(e, EnvVars), ~SaysNothing(e, k)
      PROVE  Load([e EXCEPT !.vars[k] = ""]) # c
  <2>1. PICK d : d = [e EXCEPT !.vars[k] = ""]
    OBVIOUS
  <2>2. k \in EnvVars /\ IsSet(e, k)
    BY <1>2 DEF Chosen
  <2>3. \A j \in EnvVars : d.vars[j] = IF j = k THEN "" ELSE e.vars[j]
    BY <2>1, <2>2 DEF Environment
  <2>4. Settings(d) # Settings(e)
    BY <1>1, <1>2, <2>2, <2>3, VarMatters
  <2> QED BY <1>1, <2>1, <2>4, LoadDiffers
<1>3. PICK s : s = Settings(e)
  OBVIOUS
<1>4. /\ s.hosts = parseHosts(e.hosts, authMode(e)) /\ s.zones = parseZones(e.zones)
      /\ s.filter = parseDomainFilter(e.filter) /\ s.hosts # <<>> /\ s.zones # <<>>
  BY <1>1, <1>3, LoadAccepts, SettingsFields
<1>5. ASSUME NEW i \in DOMAIN e.hosts, NotBlank(e.hosts[i])
      PROVE  Load([e EXCEPT !.hosts = Without(@, i)]) # c
  <2>1. PICK d : d = [e EXCEPT !.hosts = Without(@, i)]
    OBVIOUS
  <2>2. d.hosts = Without(e.hosts, i) /\ d.vars = e.vars /\ e.hosts \in Seq(Entry)
    BY <2>1 DEF Environment
  <2>3. authMode(d) = authMode(e)
    BY <2>2 DEF authMode
  <2>4. PICK b : b = Settings(d)
    OBVIOUS
  <2>5. b.hosts = parseHosts(d.hosts, authMode(d))
    BY <2>4, SettingsFields, Zenon
  <2>6. b.hosts # s.hosts
    BY <1>4, <1>5, <2>2, <2>3, <2>5, ListMatters
  <2> QED BY <1>1, <1>3, <2>1, <2>4, <2>6, LoadDiffers
<1>6. ASSUME NEW i \in DOMAIN e.zones, NotBlank(e.zones[i])
      PROVE  Load([e EXCEPT !.zones = Without(@, i)]) # c
  <2>1. PICK d : d = [e EXCEPT !.zones = Without(@, i)]
    OBVIOUS
  <2>2. d.zones = Without(e.zones, i) /\ e.zones \in Seq(Entry)
    BY <2>1 DEF Environment
  <2>3. PICK b : b = Settings(d)
    OBVIOUS
  <2>4. b.zones = parseZones(d.zones)
    BY <2>3, SettingsFields, Zenon
  <2>5. b.zones # s.zones
    BY <1>4, <1>6, <2>2, <2>4, ListMatters
  <2> QED BY <1>1, <1>3, <2>1, <2>3, <2>5, LoadDiffers
<1>7. ASSUME NEW i \in DOMAIN e.filter, NotBlank(e.filter[i])
      PROVE  Load([e EXCEPT !.filter = Without(@, i)]) # c
  <2>1. PICK d : d = [e EXCEPT !.filter = Without(@, i)]
    OBVIOUS
  <2>2. d.filter = Without(e.filter, i) /\ e.filter \in Seq(Entry)
    BY <2>1 DEF Environment
  <2>3. PICK b : b = Settings(d)
    OBVIOUS
  <2>4. b.filter = parseDomainFilter(d.filter)
    BY <2>3, SettingsFields, Zenon
  <2>5. b.filter # s.filter
    BY <1>4, <1>7, <2>2, <2>4, ListMatters
  <2> QED BY <1>1, <1>3, <2>1, <2>3, <2>5, LoadDiffers
<1> QED BY <1>2, <1>5, <1>6, <1>7

\* In every environment that Load accepts, whatever variable that says
\* something, or entry of a list, is taken away, Load comes to something else:
\* nothing that is set is read and dropped.
THEOREM NoSettingIgnoredHolds == ConfigSpec => []NoSettingIgnored
<1> DEFINE Inv == env \in Environment /\ LoadedInv
<1>1. ConfigInit => Inv
  BY EnvAssumption DEF ConfigInit, LoadedInv, Environment
<1>2. Inv /\ [LoadConfig]_<<env, cfg>> => Inv'
  BY DEF LoadConfig, LoadedInv
<1>3. Inv => NoSettingIgnored
  <2> SUFFICES ASSUME env \in Environment, LoadedInv, cfg.ok PROVE NoSettingIgnored
    BY DEF NoSettingIgnored
  <2>1. cfg = Load(env)
    BY DEF LoadedInv, NotLoaded
  <2> QED BY <2>1, NothingIgnored DEF NoSettingIgnored
<1> QED BY <1>1, <1>2, <1>3, PTL DEF ConfigSpec

\* The process keeps that credential: no step after Load changes it.
THEOREM ProcessCredential == ProcessSpec => []CredentialOfMode
<1>1. ProcessInit => LoadedInv
  BY DEF ProcessInit, ConfigInit, LoadedInv
<1>2. LoadedInv /\ [ProcessNext]_allVars => LoadedInv'
  <2> SUFFICES ASSUME LoadedInv, [ProcessNext]_allVars PROVE LoadedInv'
    OBVIOUS
  <2>1. CASE ReadConfig
    BY <2>1 DEF ReadConfig, LoadConfig, LoadedInv
  <2>2. UNCHANGED <<env, cfg>> => LoadedInv'
    BY DEF LoadedInv
  <2>3. CASE SetupKey \/ SetupKerberos \/ SetupFails \/ Listen \/ ListenFails \/ ServeReturns
    BY <2>2, <2>3 DEF SetupKey, SetupKerberos, SetupFails, Listen, ListenFails, ServeReturns
  <2>4. CASE CloseListener \/ ListenerBreaks \/ Signal \/ RefreshStep \/ RefreshEnds \/ TimePasses
             \/ Ended \/ UNCHANGED allVars
    BY <2>2, <2>4 DEF CloseListener, ListenerBreaks, Signal, RefreshStep, RefreshEnds, TimePasses,
                      Ended, allVars
  <2> QED BY <2>1, <2>3, <2>4 DEF ProcessNext, MainStep
<1> QED BY <1>1, <1>2, LoadedFits, PTL DEF ProcessSpec

=============================================================================
