-------------------------- MODULE DCBreakerProofs --------------------------
(***************************************************************************)
(* The circuit breaker's invariants for every set of DCs, every configured *)
(* threshold (zero and negative ones included) and every pair of cooldowns *)
(* the assumptions of DCBreaker allow.                                     *)
(***************************************************************************)
EXTENDS DCBreaker, WellFoundedInduction, TLAPS

\* The three parts need each other only in one direction: the streak
\* invariant needs the types, the bound needs the types.
BreakerInv == BreakerTypeOK /\ CircuitMatchesStreak /\ ExclusionBounded

\* Every step of the doubling loop of RecordFailure yields a positive
\* duration no longer than the cap.
LEMMA CooldownRange ==
    ASSUME NEW n \in Nat
    PROVE  Cooldown(n) \in Nat /\ 1 <= Cooldown(n) /\ Cooldown(n) <= MaxCooldown
<1>1. CASE n < 7
  <2>1. PowerOfTwo[n + 1] \in Nat /\ PowerOfTwo[n + 1] >= 1
    BY <1>1 DEF PowerOfTwo
  <2>2. BaseCooldown * PowerOfTwo[n + 1] \in Nat
    BY <2>1, CooldownAssumption
  <2>3. BaseCooldown * PowerOfTwo[n + 1] >= 1
    <3>1. \A a, b \in Nat : a >= 1 /\ b >= 1 => a * b >= 1
      OBVIOUS
    <3> QED BY <2>1, <3>1, CooldownAssumption
  <2> QED BY <2>2, <2>3, CooldownAssumption DEF Cooldown
<1>2. CASE ~(n < 7)
  BY <1>2, CooldownAssumption DEF Cooldown
<1> QED BY <1>1, <1>2

\* A configured threshold below 1 becomes 1 (NewDCBreaker).
LEMMA ThresholdPositive == EffectiveThreshold \in Int /\ EffectiveThreshold >= 1
BY ThresholdAssumption DEF EffectiveThreshold

\* A fresh breaker satisfies the invariant.
LEMMA NewBreakerInv == NewDCBreaker /\ now \in Nat => BreakerInv
<1> SUFFICES ASSUME NewDCBreaker, now \in Nat PROVE BreakerInv
  OBVIOUS
<1> QED
  BY ThresholdPositive
  DEF NewDCBreaker, BreakerInv, BreakerTypeOK, CircuitMatchesStreak,
      ExclusionBounded, IsOpen, NotSet

\* IsAvailable keeps the invariant: an elapsed circuit closes with its streak.
LEMMA IsAvailableInv ==
    ASSUME BreakerInv, NEW dc \in DCs, IsAvailable(dc), UNCHANGED now
    PROVE  BreakerInv'
<1> USE DEF BreakerInv, BreakerTypeOK, IsOpen, NotSet
<1>1. CASE IsOpen(dc) /\ openUntil[dc] <= now
  BY <1>1, ThresholdPositive
  DEF IsAvailable, CircuitMatchesStreak, ExclusionBounded
<1>2. CASE ~(IsOpen(dc) /\ openUntil[dc] <= now)
  BY <1>2 DEF IsAvailable, CircuitMatchesStreak, ExclusionBounded
<1> QED BY <1>1, <1>2

\* RecordSuccess keeps the invariant.
LEMMA RecordSuccessInv ==
    ASSUME BreakerInv, NEW dc \in DCs, RecordSuccess(dc), UNCHANGED now
    PROVE  BreakerInv'
BY ThresholdPositive
DEF BreakerInv, BreakerTypeOK, IsOpen, NotSet, RecordSuccess,
    CircuitMatchesStreak, ExclusionBounded

\* RecordFailure keeps the invariant: it opens exactly at the threshold, for
\* at most the cap.
LEMMA RecordFailureInv ==
    ASSUME BreakerInv, NEW dc \in DCs, RecordFailure(dc), UNCHANGED now
    PROVE  BreakerInv'
<1> USE DEF BreakerInv, BreakerTypeOK, IsOpen, NotSet
<1>1. /\ Cooldown(opens[dc]) \in Nat
      /\ 1 <= Cooldown(opens[dc])
      /\ Cooldown(opens[dc]) <= MaxCooldown
  BY CooldownRange
<1>2. CASE Opens(dc)
  <2>1. /\ fails' = [fails EXCEPT ![dc] = @ + 1]
        /\ openUntil' = [openUntil EXCEPT ![dc] = now + Cooldown(opens[dc])]
        /\ opens' = [opens EXCEPT ![dc] = @ + 1]
    BY <1>2 DEF RecordFailure
  <2> QED
    BY <1>1, <1>2, <2>1, ThresholdPositive, CooldownAssumption
    DEF Opens, CircuitMatchesStreak, ExclusionBounded
<1>3. CASE ~Opens(dc)
  <2>1. fails' = [fails EXCEPT ![dc] = @ + 1] /\ UNCHANGED <<openUntil, opens>>
    BY <1>3 DEF RecordFailure
  <2> QED
    BY <1>3, <2>1, ThresholdPositive
    DEF Opens, CircuitMatchesStreak, ExclusionBounded
<1> QED BY <1>2, <1>3

\* The passing of time keeps the invariant.
LEMMA TickInv == BreakerInv /\ Tick => BreakerInv'
BY CooldownAssumption
DEF BreakerInv, BreakerTypeOK, CircuitMatchesStreak, ExclusionBounded, IsOpen,
    Tick, breakerVars, NotSet

\* The breaker is type correct, its circuits are open exactly while their
\* streak has reached the threshold, and no exclusion outlasts the cap.
THEOREM BreakerCorrect == BreakerSpec => [](BreakerTypeOK /\ CircuitMatchesStreak /\ ExclusionBounded)
<1>1. BreakerInit => BreakerInv
  BY NewBreakerInv DEF BreakerInit
<1>2. BreakerInv /\ [BreakerNext]_<<breakerVars, now>> => BreakerInv'
  <2> SUFFICES ASSUME BreakerInv, [BreakerNext]_<<breakerVars, now>>
               PROVE  BreakerInv'
    OBVIOUS
  <2>1. CASE Tick
    BY <2>1, TickInv
  <2>2. ASSUME NEW dc \in DCs, Probe(dc) PROVE BreakerInv'
    BY <2>2, IsAvailableInv DEF Probe
  <2>3. ASSUME NEW dc \in DCs, Succeed(dc) PROVE BreakerInv'
    BY <2>3, RecordSuccessInv DEF Succeed
  <2>4. ASSUME NEW dc \in DCs, Fail(dc) PROVE BreakerInv'
    BY <2>4, RecordFailureInv DEF Fail
  <2>5. CASE UNCHANGED <<breakerVars, now>>
    BY <2>5 DEF BreakerInv, BreakerTypeOK, CircuitMatchesStreak,
                ExclusionBounded, IsOpen, breakerVars
  <2> QED BY <2>1, <2>2, <2>3, <2>4, <2>5 DEF BreakerNext
<1>3. BreakerInv => BreakerTypeOK /\ CircuitMatchesStreak /\ ExclusionBounded
  BY DEF BreakerInv
<1> QED BY <1>1, <1>2, <1>3, PTL DEF BreakerSpec

\* The breaker's maps keep their types.
THEOREM BreakerTypeOKHolds == BreakerSpec => []BreakerTypeOK
BY BreakerCorrect, PTL

\* No DC is ever shut out for longer than the cap.
THEOREM ExclusionBoundedHolds == BreakerSpec => []ExclusionBounded
BY BreakerCorrect, PTL

-----------------------------------------------------------------------------
(* The backoff *)

\* The cooldown of n doublings, for the lengths the table has.
LEMMA CooldownTable ==
    /\ PowerOfTwo[1] = 1 /\ PowerOfTwo[2] = 2 /\ PowerOfTwo[3] = 4 /\ PowerOfTwo[4] = 8
    /\ PowerOfTwo[5] = 16 /\ PowerOfTwo[6] = 32 /\ PowerOfTwo[7] = 64
BY DEF PowerOfTwo

\* The first cooldown is the base, and every further one is twice the one
\* before, cut at the cap: with these two facts the loop of RecordFailure
\* computes min(base * 2^n, cap).
THEOREM CooldownDoubles ==
    /\ Cooldown(0) = BaseCooldown
    /\ \A n \in Nat : Cooldown(n + 1) =
          IF 2 * Cooldown(n) < MaxCooldown THEN 2 * Cooldown(n) ELSE MaxCooldown
<1> DEFINE Capped(d) == IF d < MaxCooldown THEN d ELSE MaxCooldown
<1>0. \A d \in Int : Capped(2 * Capped(d)) = Capped(2 * d)
  BY CooldownAssumption
<1>1. ASSUME NEW n \in 0..6
      PROVE  Cooldown(n) = Capped(BaseCooldown * PowerOfTwo[n + 1])
  BY <1>1 DEF Cooldown
<1>2. Cooldown(0) = BaseCooldown
  <2>1. BaseCooldown * PowerOfTwo[0 + 1] = BaseCooldown
    BY CooldownTable, CooldownAssumption
  <2> QED BY <1>1, <2>1, CooldownAssumption
<1>3. ASSUME NEW n \in 0..5
      PROVE  Cooldown(n + 1) = Capped(2 * Cooldown(n))
  <2>1. PowerOfTwo[(n + 1) + 1] = 2 * PowerOfTwo[n + 1] /\ PowerOfTwo[n + 1] \in Int
    <3>1. n = 0 \/ n = 1 \/ n = 2 \/ n = 3 \/ n = 4 \/ n = 5
      OBVIOUS
    <3> QED BY <3>1, CooldownTable
  <2>2. n \in 0..6 /\ n + 1 \in 0..6
    OBVIOUS
  <2> DEFINE d == BaseCooldown * PowerOfTwo[n + 1]
  <2>3. d \in Int /\ BaseCooldown * PowerOfTwo[(n + 1) + 1] = 2 * d
    <3>1. \A b, p \in Int : b * p \in Int /\ b * (2 * p) = 2 * (b * p)
      OBVIOUS
    <3> QED BY <2>1, <3>1, CooldownAssumption
  <2>4. Cooldown(n) = Capped(d) /\ Cooldown(n + 1) = Capped(2 * d)
    BY <1>1, <2>2, <2>3
  <2> HIDE DEF d, Capped
  <2> QED BY <1>0, <2>3, <2>4
<1>4. Cooldown(6) = MaxCooldown
  <2>1. BaseCooldown * PowerOfTwo[6 + 1] = 64 * BaseCooldown
    BY CooldownTable, CooldownAssumption
  <2> QED BY <1>1, <2>1, CooldownAssumption
<1>5. \A n \in Nat : n >= 7 => Cooldown(n) = MaxCooldown
  BY DEF Cooldown
<1>6. ASSUME NEW n \in Nat PROVE Cooldown(n + 1) = Capped(2 * Cooldown(n))
  <2>1. CASE n <= 5
    BY <1>3, <2>1
  <2>2. CASE n >= 6
    <3>1. Cooldown(n) = MaxCooldown /\ Cooldown(n + 1) = MaxCooldown
      BY <1>4, <1>5, <2>2
    <3> QED BY <3>1, CooldownAssumption
  <2> QED BY <2>1, <2>2
<1> QED BY <1>2, <1>6

\* A non-empty set of naturals has a least element.
LEMMA LeastNatural ==
    ASSUME NEW S \in SUBSET Nat, S # {}
    PROVE  \E n \in S : \A m \in S : n <= m
<1> DEFINE Less == OpToRel(<, Nat)
<1>1. IsWellFoundedOn(Less, Nat)
  BY NatLessThanWellFounded
<1>2. \A x, y \in Nat : <<y, x>> \in Less <=> y < x
  BY DEF OpToRel
<1> HIDE DEF Less
<1>3. PICK n \in S : \A m \in S : ~(<<m, n>> \in Less)
  BY <1>1, WFMin
<1>4. \A m \in S : m \in Nat /\ n \in Nat /\ ~(m < n)
  BY <1>2, <1>3
<1>5. \A m \in S : n <= m
  BY <1>4
<1> QED BY <1>5

\* A function that starts at the base and doubles up to the cap is the doubling
\* loop, whatever n: otherwise there is a least n where the two differ.
LEMMA DoublingIsCooldown ==
    ASSUME NEW f, f[0] = BaseCooldown,
           \A n \in Nat : f[n + 1] = IF 2 * f[n] < MaxCooldown THEN 2 * f[n] ELSE MaxCooldown
    PROVE  \A n \in Nat : f[n] = Cooldown(n)
<1> DEFINE Differ == {n \in Nat : f[n] # Cooldown(n)}
<1>1. SUFFICES ASSUME Differ # {} PROVE FALSE
  OBVIOUS
<1>2. PICK n \in Differ : \A m \in Differ : n <= m
  BY <1>1, LeastNatural
<1>3. n # 0
  BY CooldownDoubles
<1>4. PICK k \in Nat : n = k + 1
  BY <1>3
<1>5. f[k] = Cooldown(k)
  BY <1>2, <1>4
<1>6. f[k + 1] = Cooldown(k + 1)
  BY <1>5, CooldownDoubles
<1> QED BY <1>4, <1>6

\* The equations that define ^ in Naturals, at base 2.  The provers' arithmetic
\* has no exponentiation, so they are a hypothesis of what is said with 2^n.
PowersOfTwo == 2^0 = 1 /\ \A n \in Nat : 2^n \in Nat /\ 2^(n + 1) = 2 * 2^n

\* The loop of RecordFailure computes the formula of its comment.
LEMMA CooldownIsMin ==
    ASSUME PowersOfTwo, NEW n \in Nat
    PROVE  Cooldown(n) = IF BaseCooldown * 2^n < MaxCooldown THEN BaseCooldown * 2^n ELSE MaxCooldown
<1> DEFINE Capped(d) == IF d < MaxCooldown THEN d ELSE MaxCooldown
           f == [k \in Nat |-> Capped(BaseCooldown * 2^k)]
<1>1. \A d \in Int : Capped(2 * Capped(d)) = Capped(2 * d)
  BY CooldownAssumption
<1>2. f[0] = BaseCooldown
  <2>1. BaseCooldown * 2^0 = BaseCooldown
    BY CooldownAssumption DEF PowersOfTwo
  <2> QED BY <2>1, CooldownAssumption
<1>3. ASSUME NEW k \in Nat
      PROVE  f[k + 1] = Capped(2 * f[k])
  <2>1. \A b, p \in Int : b * p \in Int /\ b * (2 * p) = 2 * (b * p)
    OBVIOUS
  <2>2. PICK p \in Int : p = 2^k /\ 2^(k + 1) = 2 * p
    BY DEF PowersOfTwo
  <2>3. BaseCooldown * 2^(k + 1) = 2 * (BaseCooldown * p) /\ BaseCooldown * p \in Int
    BY <2>1, <2>2, CooldownAssumption
  <2>4. f[k] = Capped(BaseCooldown * p) /\ f[k + 1] = Capped(2 * (BaseCooldown * p))
    BY <2>2, <2>3
  <2> HIDE DEF f, Capped
  <2> QED BY <1>1, <2>3, <2>4
<1> HIDE DEF f
<1>4. f[n] = Cooldown(n)
  BY <1>2, <1>3, DoublingIsCooldown
<1> QED BY <1>4 DEF f

\* A circuit that opens stays open for the cooldown of its number of openings,
\* and one that is open is never prolonged, whoever charges the DC again.
OpensForCooldown ==
    [][\A dc \in DCs :
          openUntil'[dc] \notin {openUntil[dc], NotSet} =>
            ~IsOpen(dc) /\ openUntil'[dc] = now + Cooldown(opens[dc])]_<<breakerVars, now>>

\* What RecordFailure does to openUntil, in terms of its own loop.
THEOREM OpensForCooldownHolds == BreakerSpec => OpensForCooldown
<1>1. BreakerTypeOK /\ [BreakerNext]_<<breakerVars, now>>
      => [\A dc \in DCs :
             openUntil'[dc] \notin {openUntil[dc], NotSet} =>
               ~IsOpen(dc) /\ openUntil'[dc] = now + Cooldown(opens[dc])]_<<breakerVars, now>>
  <2> SUFFICES ASSUME BreakerTypeOK, BreakerNext, NEW dc \in DCs,
                      openUntil'[dc] \notin {openUntil[dc], NotSet}
               PROVE  ~IsOpen(dc) /\ openUntil'[dc] = now + Cooldown(opens[dc])
    OBVIOUS
  <2>1. openUntil' # openUntil
    OBVIOUS
  <2>2. PICK x \in DCs : Probe(x) \/ Succeed(x) \/ Fail(x)
    BY <2>1 DEF BreakerNext, Tick, breakerVars
  <2>3. \A v : [openUntil EXCEPT ![x] = v][dc] = IF dc = x THEN v ELSE openUntil[dc]
    BY DEF BreakerTypeOK
  <2>4. CASE Probe(x) \/ Succeed(x)
    <3>1. openUntil' = openUntil \/ openUntil' = [openUntil EXCEPT ![x] = NotSet]
      BY <2>4 DEF Probe, Succeed, IsAvailable, RecordSuccess
    <3> QED BY <2>3, <3>1
  <2>5. CASE Fail(x)
    <3>1. Opens(x) /\ openUntil' = [openUntil EXCEPT ![x] = now + Cooldown(opens[x])]
      BY <2>1, <2>5 DEF Fail, RecordFailure
    <3> QED BY <2>3, <3>1 DEF Opens
  <2> QED BY <2>2, <2>4, <2>5
<1> QED BY <1>1, BreakerTypeOKHolds, PTL DEF BreakerSpec, OpensForCooldown

\* An opening circuit stays open for min(base * 2^opens, cap), the formula of
\* RecordFailure's comment, and an open one is never prolonged.
THEOREM BackoffScheduleHolds == PowersOfTwo => (BreakerSpec => BackoffSchedule)
<1> SUFFICES ASSUME PowersOfTwo PROVE BreakerSpec => BackoffSchedule
  OBVIOUS
<1>1. BreakerTypeOK /\ [\A dc \in DCs :
             openUntil'[dc] \notin {openUntil[dc], NotSet} =>
               ~IsOpen(dc) /\ openUntil'[dc] = now + Cooldown(opens[dc])]_<<breakerVars, now>>
      => [\A dc \in DCs :
             openUntil'[dc] \notin {openUntil[dc], NotSet} =>
               /\ ~IsOpen(dc)
               /\ LET d == BaseCooldown * 2^opens[dc]
                  IN  openUntil'[dc] - now = IF d < MaxCooldown THEN d ELSE MaxCooldown
         ]_<<breakerVars, now>>
  <2> SUFFICES ASSUME BreakerTypeOK, NEW dc \in DCs, openUntil'[dc] = now + Cooldown(opens[dc])
               PROVE  LET d == BaseCooldown * 2^opens[dc]
                      IN  openUntil'[dc] - now = IF d < MaxCooldown THEN d ELSE MaxCooldown
    OBVIOUS
  <2>1. opens[dc] \in Nat /\ now \in Int
    BY DEF BreakerTypeOK
  <2>2. Cooldown(opens[dc]) \in Int
    BY <2>1, CooldownRange
  <2>3. openUntil'[dc] - now = Cooldown(opens[dc])
    BY <2>1, <2>2
  <2> QED BY <2>1, <2>3, CooldownIsMin
<1> QED BY <1>1, BreakerTypeOKHolds, OpensForCooldownHolds, PTL DEF OpensForCooldown, BackoffSchedule

=============================================================================
