-------------------------- MODULE RedisCacheProofs --------------------------
(***************************************************************************)
(* What holds of the cache and its breaker for every threshold, cooldown,  *)
(* number of concurrent calls, set of keys and set of bodies.  The         *)
(* inductive invariant is TypeOK /\ BreakerInv; each breaker method keeps  *)
(* its half, so that the step lemma only has to say which method every     *)
(* action of the cache calls.                                              *)
(***************************************************************************)
EXTENDS RedisCache, TLAPS

-----------------------------------------------------------------------------
(* The methods of the breaker, and the clock, keep what holds of it. The     *)
(* cache and the search client own a breaker each.                           *)

BreakerOK == BreakerTypeOK /\ BreakerInv

\* The part of BreakerOK that is arithmetic.
Counters ==
    /\ failures \in 0..Threshold
    /\ cooling \in 0..Cooldown
    /\ sinceProbe \in 0..Cooldown
    /\ BreakerInv

\* New gives a breaker in which no probe is out and none is owed.
LEMMA InitOK == BreakerInit => BreakerOK
<1>1. BreakerInit => Counters
  BY BreakerAssumption
     DEF BreakerAssumption, BreakerInit, Counters, BreakerInv, Healthy
<1>2. BreakerInit => probing \in BOOLEAN
  BY DEF BreakerInit
<1>3. QED
  BY <1>1, <1>2 DEF BreakerOK, BreakerTypeOK, Counters

\* Allow sets the flag only on an open, rested breaker.
LEMMA AllowOK == BreakerOK /\ Allow => BreakerOK'
  BY BreakerAssumption
     DEF BreakerAssumption, BreakerOK, BreakerTypeOK, BreakerInv, Allow,
         Admits, Healthy

\* Success closes the breaker, and a closed breaker owes nothing.
LEMMA SuccessOK == BreakerOK /\ Success => BreakerOK'
<1>1. BreakerOK /\ Success => Counters'
  BY BreakerAssumption
     DEF BreakerAssumption, BreakerOK, BreakerTypeOK, Counters, BreakerInv,
         Success, Healthy
<1>2. Success => probing' \in BOOLEAN
  BY DEF Success
<1>3. QED
  BY <1>1, <1>2 DEF BreakerOK, BreakerTypeOK, Counters

\* Failure either leaves the breaker closed or opens a whole new window.
LEMMA FailureOK == BreakerOK /\ Failure => BreakerOK'
<1>1. BreakerOK /\ Failure => Counters'
  BY BreakerAssumption
     DEF BreakerAssumption, BreakerOK, BreakerTypeOK, Counters, BreakerInv,
         Failure, Healthy
<1>2. Failure => probing' \in BOOLEAN
  BY DEF Failure
<1>3. QED
  BY <1>1, <1>2 DEF BreakerOK, BreakerTypeOK, Counters

\* A tick takes from cooling at most what it adds to sinceProbe.
LEMMA TickOK == BreakerOK /\ Tick => BreakerOK'
  BY BreakerAssumption
     DEF BreakerAssumption, BreakerOK, BreakerTypeOK, BreakerInv, Tick,
         Healthy

\* A step that leaves the breaker alone.
LEMMA StutterOK == BreakerOK /\ UNCHANGED breakerVars => BreakerOK'
  BY DEF BreakerAssumption, BreakerOK, BreakerTypeOK, BreakerInv, Healthy, breakerVars

\* An open breaker with BreakerInv admits a probe only after a whole Cooldown.
LEMMA AdmitsRested == BreakerOK /\ ~Healthy /\ Admits => sinceProbe = Cooldown
  BY BreakerAssumption
     DEF BreakerAssumption, BreakerOK, BreakerTypeOK, BreakerInv, Admits, Healthy

-----------------------------------------------------------------------------

\* Every step of the cache calls one method of the breaker, or none.
LEMMA BreakerSteps ==
  [Next]_vars => Allow \/ Success \/ Failure \/ Tick \/ UNCHANGED breakerVars
  BY DEF Next, vars, breakerVars, GetStart, GetAnswered, GetFailed, SetStart,
         SetOversize, SetAnswered, SetFailed, OrphanLands, OrphanLost,
         RedisForgets, RedisFlips, ClockTicks

\* Any of those steps keeps the breaker's half of the invariant.
LEMMA BreakerStepOK == BreakerOK /\ [Next]_vars => BreakerOK'
  BY BreakerSteps, AllowOK, SuccessOK, FailureOK, TickOK, StutterOK

\* The cache's own half of the type invariant.
CacheTypeOK ==
    /\ redis \in {"up", "down"}
    /\ store \in [Keys -> Bodies \cup {None}]
    /\ reading \subseteq Readers
    /\ write \in [Writers -> Entry \cup {None}]
    /\ orphans \subseteq Writers
    /\ \A w \in orphans : write[w] # None

LEMMA CacheStepOK == CacheTypeOK /\ [Next]_vars => CacheTypeOK'
<1> SUFFICES ASSUME CacheTypeOK, [Next]_vars PROVE CacheTypeOK'
  OBVIOUS
<1> USE DEF CacheTypeOK
<1>1. ASSUME NEW r \in Readers, GetStart(r) PROVE CacheTypeOK'
  BY <1>1 DEF GetStart
<1>2. ASSUME NEW r \in Readers, GetAnswered(r) PROVE CacheTypeOK'
  BY <1>2 DEF GetAnswered
<1>3. ASSUME NEW r \in Readers, GetFailed(r) PROVE CacheTypeOK'
  BY <1>3 DEF GetFailed
<1>4. ASSUME NEW w \in Writers, NEW k \in Keys, NEW b \in Bodies,
             SetStart(w, k, b)
      PROVE  CacheTypeOK'
  BY <1>4, CacheAssumption DEF CacheAssumption, SetStart, Entry
<1>5. ASSUME NEW b \in Bodies, SetOversize(b) PROVE CacheTypeOK'
  BY <1>5 DEF SetOversize, cacheVars
<1>6. ASSUME NEW w \in Writers, SetAnswered(w) PROVE CacheTypeOK'
  BY <1>6 DEF SetAnswered, Running, Entry
<1>7. ASSUME NEW w \in Writers, SetFailed(w) PROVE CacheTypeOK'
  BY <1>7 DEF SetFailed, Running
<1>8. ASSUME NEW w \in Writers, OrphanLands(w) PROVE CacheTypeOK'
  BY <1>8 DEF OrphanLands, Entry
<1>9. ASSUME NEW w \in Writers, OrphanLost(w) PROVE CacheTypeOK'
  BY <1>9 DEF OrphanLost
<1>10. ASSUME NEW K \in SUBSET Keys, RedisForgets(K) PROVE CacheTypeOK'
  BY <1>10 DEF RedisForgets
<1>11. CASE RedisFlips
  BY <1>11 DEF RedisFlips
<1>12. CASE ClockTicks
  BY <1>12 DEF ClockTicks, cacheVars
<1>13. CASE UNCHANGED vars
  BY <1>13 DEF vars, cacheVars
<1>14. QED
  BY <1>1, <1>2, <1>3, <1>4, <1>5, <1>6, <1>7, <1>8, <1>9, <1>10, <1>11,
     <1>12, <1>13 DEF Next

-----------------------------------------------------------------------------

THEOREM Invariant == Spec => [](BreakerOK /\ CacheTypeOK)
<1>1. Init => BreakerOK /\ CacheTypeOK
  BY InitOK DEF Init, CacheTypeOK
<1>2. BreakerOK /\ CacheTypeOK /\ [Next]_vars => (BreakerOK /\ CacheTypeOK)'
  BY BreakerStepOK, CacheStepOK
<1>3. QED
  BY <1>1, <1>2, PTL DEF Spec

\* Every variable of the cache and of its breaker keeps its type.
THEOREM TypeCorrect == Spec => []TypeOK
<1>1. BreakerOK /\ CacheTypeOK => TypeOK
  BY DEF BreakerOK, CacheTypeOK, TypeOK
<1>2. QED
  BY <1>1, Invariant, PTL

\* A probe is out only on an open, rested breaker, and an open breaker still
\* rests for what its last probe leaves of a cooldown.
THEOREM BreakerInvariant == Spec => []BreakerInv
<1>1. BreakerOK => BreakerInv
  BY DEF BreakerOK
<1>2. QED
  BY <1>1, Invariant, PTL

\* While the breaker is open at most one call per cooldown reaches Redis: a
\* call only goes out through Allow, and Allow on an open breaker in
\* BreakerInv has rested for a whole Cooldown.
THEOREM OneProbe == Spec => OneProbePerWindow
<1>1. CacheTypeOK /\ [Next]_vars /\ CallGoesOut => Allow
  <2> SUFFICES ASSUME CacheTypeOK, [Next]_vars, CallGoesOut PROVE Allow
    OBVIOUS
  <2>1. ASSUME UNCHANGED <<reading, write>> PROVE FALSE
    BY <2>1 DEF CallGoesOut
  <2>2. ASSUME NEW r \in Readers, reading' = reading \ {r}, write' = write
        PROVE  FALSE
    BY <2>2 DEF CallGoesOut
  <2>3. ASSUME NEW w \in Writers, reading' = reading,
               write' = [write EXCEPT ![w] = None]
        PROVE  FALSE
    <3>1. PICK v \in Writers : write[v] = None /\ write'[v] # None
      BY <2>3 DEF CallGoesOut
    <3>2. write'[v] = None
      BY <2>3, <3>1 DEF CacheTypeOK
    <3>3. QED
      BY <3>1, <3>2
  <2>4. QED
    BY <2>1, <2>2, <2>3
       DEF Next, vars, cacheVars, GetStart, GetAnswered, GetFailed, SetStart,
           SetOversize, SetAnswered, SetFailed, OrphanLands, OrphanLost,
           RedisForgets, RedisFlips, ClockTicks
<1>2. BreakerOK /\ CacheTypeOK /\ [Next]_vars
        => (~Healthy /\ CallGoesOut => sinceProbe = Cooldown)
  BY <1>1, AdmitsRested DEF Allow
<1>3. QED
  BY <1>2, Invariant, PTL DEF Spec, OneProbePerWindow

-----------------------------------------------------------------------------

\* A probe keeps a call that will report it through every step but one.
LEMMA OwnerStep ==
  ASSUME CacheTypeOK, ProbeHasOwner, [Next]_vars,
         \A b \in Oversize : ~SetOversize(b)
  PROVE  ProbeHasOwner'
<1>1. ASSUME NEW r \in Readers, GetStart(r) PROVE ProbeHasOwner'
  BY <1>1 DEF GetStart, ProbeHasOwner
<1>2. ASSUME NEW w \in Writers, NEW k \in Keys, NEW b \in Bodies,
             SetStart(w, k, b)
      PROVE  ProbeHasOwner'
  <2>1. write'[w] # None /\ w \notin orphans'
    BY <1>2, CacheAssumption
       DEF CacheAssumption, SetStart, CacheTypeOK, Entry
  <2>2. QED
    BY <2>1 DEF ProbeHasOwner, Running
<1>3. ASSUME Success \/ Failure PROVE ProbeHasOwner'
  BY <1>3 DEF Success, Failure, ProbeHasOwner
<1>4. ASSUME UNCHANGED <<probing, reading>>,
             \A w \in Writers : Running(w) => Running(w)'
      PROVE  ProbeHasOwner'
  BY <1>4 DEF ProbeHasOwner
<1>5. ASSUME NEW w \in Writers, OrphanLands(w) \/ OrphanLost(w)
      PROVE  ProbeHasOwner'
  <2>1. \A v \in Writers : Running(v) => Running(v)'
    BY <1>5 DEF OrphanLands, OrphanLost, Running, CacheTypeOK
  <2>2. UNCHANGED <<probing, reading>>
    BY <1>5 DEF OrphanLands, OrphanLost, breakerVars
  <2>3. QED
    BY <2>1, <2>2, <1>4
<1>6. CASE (\E K \in SUBSET Keys : RedisForgets(K)) \/ RedisFlips
           \/ ClockTicks \/ UNCHANGED vars
  <2>1. UNCHANGED <<probing, reading, write, orphans>>
    BY <1>6 DEF RedisForgets, RedisFlips, ClockTicks, Tick, vars, cacheVars,
                breakerVars
  <2>2. QED
    BY <2>1, <1>4 DEF Running
<1>7. \A b \in Bodies : ~SetOversize(b)
  BY DEF SetOversize
<1>8. QED
  BY <1>1, <1>2, <1>3, <1>5, <1>6, <1>7
     DEF Next, GetAnswered, GetFailed, SetAnswered, SetFailed

\* A probe is only ever lost to the oversize path of Set: timeouts, cancelled
\* requests, late commands and late reports cannot take its owner away.
THEOREM ProbeKept == Spec => ProbeLostOnlyOversize
<1> DEFINE Kept == ProbeHasOwner => ProbeHasOwner' \/ \E b \in Oversize : SetOversize(b)
<1>1. CacheTypeOK /\ [Next]_vars => [Kept]_vars
  BY OwnerStep
<1> HIDE DEF Kept
<1>2. Spec => [][Kept]_vars
  BY <1>1, Invariant, PTL DEF Spec
<1>3. QED
  BY <1>2, PTL DEF Kept, ProbeLostOnlyOversize

\* As long as no body is too large for the cache, a probe flag that is up
\* always has a call under way that will take it down.
THEOREM ProbeOwned == Oversize = {} /\ Spec => []ProbeHasOwner
<1> SUFFICES ASSUME Oversize = {} PROVE Spec => []ProbeHasOwner
  OBVIOUS
<1>1. Init => ProbeHasOwner
  BY DEF Init, BreakerInit, ProbeHasOwner
<1>2. CacheTypeOK /\ ProbeHasOwner /\ [Next]_vars => ProbeHasOwner'
  BY OwnerStep
<1>3. QED
  BY <1>1, <1>2, Invariant, PTL DEF Spec

-----------------------------------------------------------------------------

\* Redis, its expiry and its late commands together never make an entry up:
\* the cache implements LossyCache, with the same store and the same writes.
THEOREM LossyRefinement == Spec => ImplementsLossyCache
<1>1. Init => L!LossyInit
  BY DEF Init, L!LossyInit
<1>2. CacheTypeOK /\ [Next]_vars => [L!LossyNext]_L!lossyVars
  <2> SUFFICES ASSUME CacheTypeOK, [Next]_vars
               PROVE  L!LossyNext \/ UNCHANGED <<store, write>>
    BY DEF L!lossyVars
  <2> USE DEF L!LossyNext
  <2>1. ASSUME NEW w \in Writers, NEW k \in Keys, NEW b \in Bodies,
               SetStart(w, k, b)
        PROVE  L!LossyNext
    <3>1. L!Accept(w, k, b)
      BY <2>1 DEF SetStart, L!Accept
    <3>2. QED
      BY <3>1
  <2>2. ASSUME NEW w \in Writers, SetAnswered(w) \/ OrphanLands(w)
        PROVE  L!LossyNext
    <3>1. L!Land(w)
      BY <2>2 DEF SetAnswered, OrphanLands, Running, L!Land, CacheTypeOK
    <3>2. QED
      BY <3>1
  <2>3. ASSUME NEW w \in Writers, OrphanLost(w) PROVE L!LossyNext
    <3>1. L!Lose(w)
      BY <2>3 DEF OrphanLost, L!Lose, CacheTypeOK
    <3>2. QED
      BY <3>1
  <2>4. ASSUME NEW K \in SUBSET Keys, RedisForgets(K) PROVE L!LossyNext
    <3>1. L!Forget(K)
      BY <2>4 DEF RedisForgets, L!Forget
    <3>2. QED
      BY <3>1
  <2>5. ASSUME NEW r \in Readers,
               GetStart(r) \/ GetAnswered(r) \/ GetFailed(r)
        PROVE  UNCHANGED <<store, write>>
    BY <2>5 DEF GetStart, GetAnswered, GetFailed
  <2>6. ASSUME NEW b \in Bodies, SetOversize(b)
        PROVE  UNCHANGED <<store, write>>
    BY <2>6 DEF SetOversize, cacheVars
  <2>7. ASSUME NEW w \in Writers, SetFailed(w)
        PROVE  UNCHANGED <<store, write>>
    BY <2>7 DEF SetFailed
  <2>8. CASE RedisFlips \/ ClockTicks \/ UNCHANGED vars
    BY <2>8 DEF RedisFlips, ClockTicks, vars, cacheVars
  <2>9. QED
    BY <2>1, <2>2, <2>3, <2>4, <2>5, <2>6, <2>7, <2>8 DEF Next
<1>3. QED
  BY <1>1, <1>2, Invariant, PTL DEF Spec, ImplementsLossyCache, L!LossySpec

\* The counters, the deadline and the flag of the breaker implement the
\* three-state gate.
THEOREM GateRefinement == Spec => ImplementsGate
<1>1. Init => G!Init
  BY BreakerAssumption
     DEF BreakerAssumption, Init, BreakerInit, G!Init, GateMode, Healthy
<1>2. BreakerOK /\ [Next]_vars => [G!Next]_G!gateVars
  <2> SUFFICES ASSUME BreakerOK, [Next]_vars
               PROVE  G!Next \/ UNCHANGED G!gateVars
    OBVIOUS
  <2> USE BreakerAssumption
      DEF BreakerAssumption, BreakerOK, BreakerTypeOK, BreakerInv, GateMode,
          Healthy
  <2>1. ASSUME Allow PROVE G!Probe \/ UNCHANGED G!gateVars
    BY <2>1 DEF Allow, Admits, G!Probe, G!gateVars
  <2>2. ASSUME Success PROVE G!Close
    BY <2>2 DEF Success, G!Close
  <2>3. ASSUME Failure PROVE G!Trip \/ UNCHANGED G!gateVars
    BY <2>3 DEF Failure, G!Trip, G!gateVars
  <2>4. ASSUME Tick PROVE G!Rest \/ UNCHANGED G!gateVars
    BY <2>4 DEF Tick, G!Rest, G!gateVars
  <2>5. ASSUME UNCHANGED breakerVars PROVE UNCHANGED G!gateVars
    BY <2>5 DEF breakerVars, G!gateVars
  <2>6. QED
    BY <2>1, <2>2, <2>3, <2>4, <2>5, BreakerSteps DEF G!Next
<1>3. QED
  BY <1>1, <1>2, Invariant, PTL DEF Spec, ImplementsGate, G!Spec

=============================================================================
