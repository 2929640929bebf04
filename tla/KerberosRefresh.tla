--------------------------- MODULE KerberosRefresh ---------------------------
(***************************************************************************)
(* The credential of gss-tsig mode: the background loop that re-runs kinit *)
(* (internal/kerberos/refresh.go), the credential cache it reads the       *)
(* ticket's end from (krb.go) and the state /healthz reports               *)
(* (internal/state/kerberos.go).                                           *)
(*                                                                         *)
(* Times are relative, in ticks: how long the ticket is still good, how    *)
(* long until the timer fires.  A ticket of negative or zero life is one   *)
(* whose end lies in the past of the local clock, which is not the KDC's.  *)
(* The KDC (external) grants what it likes, is down when it likes, and a   *)
(* kinit takes up to MaxKinit ticks.  Process puts the loop to work.       *)
(***************************************************************************)
EXTENDS Integers

CONSTANTS
    Interval,         \* RFC2136_KINIT_REFRESH_INTERVAL, 0 if not set
    DefaultInterval,  \* DefaultRefreshInterval
    RetryBackoff,     \* retryBackoffMin
    FirstGrants,      \* tickets the KDC may grant to the kinit at boot
    Grants,           \* tickets it may grant later
    MaxKinit,         \* bound: how long a kinit runs
    MaxUp             \* bound: how far the KDC's uptime is counted

\* A ticket is [entries, readable]: what kinit leaves in the credential cache,
\* entries [tgt, life] for the TGT and other tickets, and whether LoadCCache
\* can read it.
LifeOf(g) == CHOOSE l \in {e.life : e \in {e \in g.entries : e.tgt}} :
                \A e \in g.entries : e.tgt => e.life <= l

ASSUME RefreshAssumption ==
    /\ Interval \in Int /\ {DefaultInterval, RetryBackoff} \subseteq Nat \ {0}
    /\ {MaxKinit, MaxUp} \subseteq Nat
    /\ \A g \in Grants \cup FirstGrants :
        /\ \A e \in g.entries : e.tgt \in BOOLEAN /\ e.life \in Int
        /\ LifeOf(g) \in {e.life : e \in {e \in g.entries : e.tgt}}
        /\ \A e \in g.entries : e.tgt => e.life <= LifeOf(g)
        /\ g.readable \in BOOLEAN

VARIABLES
    ccache,        \* the credential cache: the ticket of the last kinit
    left,          \* how long the cached TGT is still good
    timer,         \* time until the loop's timer fires
    busy,          \* how long the current kinit has been running
    loop,          \* the refresh goroutine: "off", "sleep" or "kinit"
    status,        \* state.Kerberos: "unknown", "ready" or "expired"
    up             \* how long the KDC has been reachable; Down when it is not

krbVars == <<ccache, left, timer, busy, loop, status, up>>

Down == -1
NoTicket == [entries |-> {}, readable |-> FALSE]

-----------------------------------------------------------------------------
ceiling == IF Interval > 0 THEN Interval ELSE DefaultInterval

\* The end of the TGT, or of the longest ticket if the cache has no TGT.
TGTEndTime(g) == LET tgts == {e \in g.entries : e.tgt}
                     lives == {e.life : e \in IF tgts # {} THEN tgts ELSE g.entries}
                 IN  CHOOSE l \in lives : \A m \in lives : m <= l

\* Mutants of NextRefresh: the whole remaining life; no check for a life that
\* is over; no check for a half that is nothing.
NextRefreshWhole(g) ==
    IF g.readable /\ TGTEndTime(g) > 0 /\ TGTEndTime(g) < ceiling THEN TGTEndTime(g) ELSE ceiling
NextRefreshUnchecked(g) ==
    IF g.readable /\ TGTEndTime(g) \div 2 < ceiling THEN TGTEndTime(g) \div 2 ELSE ceiling

NextRefreshZero(g) ==
    LET half == TGTEndTime(g) \div 2
    IN  IF g.readable /\ half >= 0 /\ half < ceiling THEN half ELSE ceiling

\* The delay after a successful kinit: half of the remaining life if that is
\* positive and below the ceiling.
NextRefresh(g) ==
    LET half == TGTEndTime(g) \div 2
    IN  IF g.readable /\ half > 0 /\ half < ceiling THEN half ELSE ceiling

Life(g) == IF LifeOf(g) > 0 THEN LifeOf(g) ELSE 0

MarkReady == status' = "ready"
MarkExpired == status' = "expired"

-----------------------------------------------------------------------------
\* Before main runs setupAuth there is no ticket.
KrbInit ==
    /\ ccache = NoTicket
    /\ left = 0 /\ timer = 0 /\ busy = 0
    /\ loop = "off"
    /\ status = "unknown"
    /\ up \in {Down, 0}

\* setupAuth's kinit succeeded: the loop starts, and sleeps for the ceiling.
BootReady ==
    /\ up # Down
    /\ \E g \in FirstGrants : ccache' = g /\ left' = Life(g)
    /\ loop' = "sleep"
    /\ timer' = ceiling
    /\ MarkReady
    /\ UNCHANGED <<busy, up>>

\* The timer fires and refreshOnce runs kinit.
StartKinit ==
    /\ loop = "sleep" /\ timer = 0
    /\ loop' = "kinit"
    /\ busy' = 0
    /\ UNCHANGED <<ccache, left, timer, status, up>>

\* refreshOnce after a kinit that succeeded ...
KinitOK ==
    /\ loop = "kinit" /\ up # Down
    /\ \E g \in Grants : ccache' = g /\ left' = Life(g) /\ timer' = NextRefresh(g)
    /\ loop' = "sleep"
    /\ MarkReady
    /\ busy' = 0
    /\ UNCHANGED up

\* Mutant of KinitFails: the loop waits for the ceiling.
KinitFailsSlow ==
    /\ loop = "kinit" /\ up < busy
    /\ timer' = ceiling
    /\ loop' = "sleep" /\ busy' = 0
    /\ MarkExpired
    /\ UNCHANGED <<ccache, left, up>>

\* ... and after one that failed, because the KDC was down meanwhile.  The old
\* ticket stays in the cache.
KinitFails ==
    /\ loop = "kinit" /\ up < busy
    /\ timer' = RetryBackoff
    /\ loop' = "sleep" /\ busy' = 0
    /\ MarkExpired
    /\ UNCHANGED <<ccache, left, up>>

\* One tick.  A timer that is due fires first; a kinit ends in time.
Later(t) == IF t > 0 THEN t - 1 ELSE 0
Tick ==
    /\ loop = "sleep" => timer > 0
    /\ loop = "kinit" => busy < MaxKinit
    /\ left' = Later(left)
    /\ timer' = Later(timer)
    /\ busy' = IF loop = "kinit" THEN busy + 1 ELSE 0
    /\ up' = IF up = Down \/ up >= MaxUp THEN up ELSE up + 1
    /\ UNCHANGED <<ccache, loop, status>>

KDCFails == up # Down /\ up' = Down /\ UNCHANGED <<ccache, left, timer, busy, loop, status>>
KDCReturns == up = Down /\ up' = 0 /\ UNCHANGED <<ccache, left, timer, busy, loop, status>>

\* Run returns when its context is done; a running kinit is not interrupted.
LoopEnds ==
    /\ loop = "sleep"
    /\ loop' = "off"
    /\ UNCHANGED <<ccache, left, timer, busy, status, up>>

RefreshLoop == StartKinit \/ KinitOK \/ KinitFails
Surroundings == Tick \/ KDCFails \/ KDCReturns

-----------------------------------------------------------------------------
(* Properties *)

KrbTypeOK ==
    /\ {left, timer, busy} \subseteq Nat
    /\ loop \in {"off", "sleep", "kinit"}
    /\ status \in {"unknown", "ready", "expired"}
    /\ up \in -1..MaxUp

\* A ticket that lasts until its successor comes: longer than two runs of
\* kinit, or, when its end cannot be read, than the ceiling and one kinit.
Outlasts(g) ==
    IF g.readable THEN LifeOf(g) >= 2 /\ LifeOf(g) > 2 * MaxKinit
                  ELSE LifeOf(g) > ceiling + MaxKinit

\* The first ticket outlives the ceiling, which is how long the loop sleeps
\* first whatever it could read, and a kinit.
LongFirst == \A g \in FirstGrants : LifeOf(g) > ceiling + MaxKinit

\* Once the KDC has been reachable for one backoff and two runs of kinit (one
\* that had already failed to reach it, and the retry), the state is ready
\* again: a failed refresh never waits for a whole interval.
RecoversInTime ==
    up > RetryBackoff + 2 * MaxKinit /\ loop # "off" => status = "ready"

\* Two runs of kinit are never back to back, whatever ticket the first
\* one brought: one whose end is in the past of the local clock does not make
\* the loop run kinit without a pause.
KinitsApart == [][loop = "kinit" /\ loop' = "sleep" => timer' >= 1]_krbVars

=============================================================================
