----------------------------- MODULE DCBreaker -----------------------------
(***************************************************************************)
(* The per-DC circuit breaker of internal/state/dcbreaker.go.  Every       *)
(* method of the Go type runs under the breaker's mutex, so each one is a  *)
(* single action.  Absent map entries read as zero in Go; here fails and   *)
(* opens are total functions that start at zero, and an absent openUntil   *)
(* entry is NotSet.                                                        *)
(***************************************************************************)
EXTENDS Integers

CONSTANTS
    DCs,           \* the configured domain controllers
    Threshold,     \* RFC2136_CIRCUIT_BREAKER_THRESHOLD, as configured
    BaseCooldown,  \* 60 s in the code
    MaxCooldown,   \* 1 h in the code
    Horizon,       \* bound: the clock stops here
    MaxFails       \* bound: failures charged to one streak

ASSUME ThresholdAssumption == Threshold \in Int

\* 60 s * 2^6 exceeds 1 h, so six doublings always reach the cap.
ASSUME CooldownAssumption ==
    /\ BaseCooldown \in Nat \ {0}
    /\ MaxCooldown \in Nat
    /\ BaseCooldown <= MaxCooldown
    /\ MaxCooldown <= 64 * BaseCooldown

ASSUME BreakerBoundsAssumption == Horizon \in Nat /\ MaxFails \in Nat

VARIABLES
    fails,         \* consecutive failures per DC
    opens,         \* how often the circuit opened since the last success
    openUntil,     \* when the cooldown of an open circuit ends, or NotSet
    now            \* the breaker's clock

breakerVars == <<fails, opens, openUntil>>

NotSet == -1

\* NewDCBreaker raises a threshold below 1 to 1.
EffectiveThreshold == IF Threshold < 1 THEN 1 ELSE Threshold

PowerOfTwo == <<1, 2, 4, 8, 16, 32, 64>>

\* Mutants of Cooldown: one doubling short, and never capped.
CooldownOneShort(n) ==
    IF n < 7 /\ BaseCooldown * PowerOfTwo[n + 1] < MaxCooldown
    THEN IF n = 0 THEN BaseCooldown ELSE BaseCooldown * PowerOfTwo[n]
    ELSE MaxCooldown
CooldownUncapped(n) == BaseCooldown * PowerOfTwo[(n % 7) + 1]

\* The doubling loop of RecordFailure: n doublings, cut at the cap.
Cooldown(n) ==
    IF n < 7 /\ BaseCooldown * PowerOfTwo[n + 1] < MaxCooldown
    THEN BaseCooldown * PowerOfTwo[n + 1]
    ELSE MaxCooldown

NewDCBreaker ==
    /\ fails = [dc \in DCs |-> 0]
    /\ opens = [dc \in DCs |-> 0]
    /\ openUntil = [dc \in DCs |-> NotSet]

-----------------------------------------------------------------------------
IsOpen(dc) == openUntil[dc] # NotSet

\* The value IsAvailable returns.
Available(dc) == ~IsOpen(dc) \/ openUntil[dc] <= now

\* Mutants of IsAvailable: the streak survives the cooldown; the open mark does.
IsAvailableKeepsStreak(dc) ==
    /\ IF IsOpen(dc) /\ openUntil[dc] <= now
       THEN openUntil' = [openUntil EXCEPT ![dc] = NotSet]
       ELSE UNCHANGED openUntil
    /\ UNCHANGED <<fails, opens>>
IsAvailableKeepsMark(dc) ==
    /\ fails' = [fails EXCEPT ![dc] = IF Available(dc) THEN 0 ELSE @]
    /\ UNCHANGED <<openUntil, opens>>

\* The state change IsAvailable makes: an elapsed circuit is closed and the
\* DC gets a fresh streak, while opens is kept.
IsAvailable(dc) ==
    /\ IF IsOpen(dc) /\ openUntil[dc] <= now
       THEN /\ openUntil' = [openUntil EXCEPT ![dc] = NotSet]
            /\ fails' = [fails EXCEPT ![dc] = 0]
       ELSE UNCHANGED <<openUntil, fails>>
    /\ UNCHANGED opens

RecordSuccess(dc) ==
    /\ openUntil' = [openUntil EXCEPT ![dc] = NotSet]
    /\ fails' = [fails EXCEPT ![dc] = 0]
    /\ opens' = [opens EXCEPT ![dc] = 0]

\* Whether this failure makes the circuit go from closed to open.
Opens(dc) == fails[dc] + 1 >= EffectiveThreshold /\ ~IsOpen(dc)

\* Mutant of RecordFailure: the cooldown is counted back from now.
RecordFailureBackwards(dc) ==
    /\ fails' = [fails EXCEPT ![dc] = @ + 1]
    /\ IF Opens(dc)
       THEN /\ openUntil' = [openUntil EXCEPT ![dc] = now - Cooldown(opens[dc])]
            /\ opens' = [opens EXCEPT ![dc] = @ + 1]
       ELSE UNCHANGED <<openUntil, opens>>

RecordFailure(dc) ==
    /\ fails' = [fails EXCEPT ![dc] = @ + 1]
    /\ IF Opens(dc)
       THEN /\ openUntil' = [openUntil EXCEPT ![dc] = now + Cooldown(opens[dc])]
            /\ opens' = [opens EXCEPT ![dc] = @ + 1]
       ELSE UNCHANGED <<openUntil, opens>>

Tick == now < Horizon /\ now' = now + 1 /\ UNCHANGED breakerVars

-----------------------------------------------------------------------------
(***************************************************************************)
(* The breaker on its own, driven by any sequence of calls.  Failures stop *)
(* early enough for the last cooldown to end before the clock does.        *)
(***************************************************************************)
Probe(dc) == IsAvailable(dc) /\ UNCHANGED now
Succeed(dc) == RecordSuccess(dc) /\ UNCHANGED now
Fail(dc) ==
    /\ fails[dc] < MaxFails
    /\ now + MaxCooldown <= Horizon
    /\ RecordFailure(dc)
    /\ UNCHANGED now

BreakerInit == NewDCBreaker /\ now = 0

BreakerNext == Tick \/ \E dc \in DCs : Probe(dc) \/ Succeed(dc) \/ Fail(dc)

\* Time passes, and every ListRecords and applyZone asks for every host.
BreakerFairness ==
    /\ WF_<<breakerVars, now>>(Tick)
    /\ \A dc \in DCs : WF_<<breakerVars, now>>(Probe(dc))

BreakerSpec ==
    BreakerInit /\ [][BreakerNext]_<<breakerVars, now>> /\ BreakerFairness

-----------------------------------------------------------------------------
\* The types of the breaker's maps; a set openUntil is a time.
BreakerTypeOK ==
    /\ fails \in [DCs -> Nat]
    /\ opens \in [DCs -> Nat]
    /\ openUntil \in [DCs -> Nat \cup {NotSet}]
    /\ now \in Nat

\* The circuit of a DC is open exactly while its streak has reached the
\* threshold: closing it (by IsAvailable or RecordSuccess) always starts a
\* new streak, so one failed trial does not re-open it unless the threshold
\* is 1, and an open circuit always remembers that it was opened.
CircuitMatchesStreak ==
    \A dc \in DCs :
        /\ IsOpen(dc) <=> fails[dc] >= EffectiveThreshold
        /\ IsOpen(dc) => opens[dc] >= 1

\* No DC is ever shut out for longer than the cap, however many times it
\* failed and whichever callers charged it.
ExclusionBounded == \A dc \in DCs : IsOpen(dc) => openUntil[dc] <= now + MaxCooldown

\* An opening circuit stays open for min(base * 2^opens, cap), and a circuit
\* that is already open is never prolonged: the loop of RecordFailure computes
\* the formula of its comment.
BackoffSchedule ==
    [][\A dc \in DCs :
          openUntil'[dc] \notin {openUntil[dc], NotSet} =>
            /\ ~IsOpen(dc)
            /\ LET d == BaseCooldown * 2^opens[dc]
               IN  openUntil'[dc] - now = IF d < MaxCooldown THEN d ELSE MaxCooldown
      ]_<<breakerVars, now>>

\* A DC whose circuit opened is eventually offered to callers again.
ExclusionEnds == \A dc \in DCs : IsOpen(dc) ~> ~IsOpen(dc)

=============================================================================
