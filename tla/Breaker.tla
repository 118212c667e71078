------------------------------ MODULE Breaker ------------------------------
(***************************************************************************)
(* The circuit breaker shared by the Redis cache and the search client     *)
(* (internal/breaker/breaker.go).  Every method runs under one mutex, so   *)
(* each is one atomic operator.  The module has no Next of its own: the    *)
(* modules that own a breaker (RedisCache, SearchClient) extend it and     *)
(* decide when its methods are called.                                     *)
(*                                                                         *)
(* Time is a countdown: `cooling` is how far openUntil lies in the future  *)
(* (0 once it has passed).  `failures` is kept at Threshold once it gets   *)
(* there, because the code only ever compares it with the threshold.       *)
(***************************************************************************)
EXTENDS Naturals

CONSTANTS
    Threshold,  \* failures in a row that open the breaker
    Cooldown    \* how long it stays open, in ticks of the clock

ASSUME BreakerAssumption == /\ Threshold \in Nat \ {0}
                            /\ Cooldown \in Nat \ {0}

VARIABLES
    failures,   \* failures since the last success
    cooling,    \* ticks until openUntil
    probing,    \* TRUE while a probe has been let through and not reported
    sinceProbe  \* history: ticks since the last probe was let through

breakerVars == <<failures, cooling, probing, sinceProbe>>

BreakerTypeOK ==
    /\ failures \in 0..Threshold
    /\ cooling \in 0..Cooldown
    /\ probing \in BOOLEAN
    /\ sinceProbe \in 0..Cooldown

\* New: the zero time is in the past, and no probe was ever sent.
BreakerInit ==
    /\ failures = 0
    /\ cooling = 0
    /\ probing = FALSE
    /\ sinceProbe = Cooldown

Healthy == failures < Threshold

\* What Allow answers.
Admits == Healthy \/ (cooling = 0 /\ ~probing)

\* Mutant of Allow: `probing` is not looked at.
AllowUnclaimed ==
    /\ Healthy \/ cooling = 0
    /\ probing' = (probing \/ ~Healthy)
    /\ sinceProbe' = IF Healthy THEN sinceProbe ELSE 0
    /\ UNCHANGED <<failures, cooling>>

\* Allow, when its answer is true.  (When it is false nothing changes.)
Allow ==
    /\ Admits
    /\ probing' = (probing \/ ~Healthy)
    /\ sinceProbe' = IF Healthy THEN sinceProbe ELSE 0
    /\ UNCHANGED <<failures, cooling>>

Success ==
    /\ failures' = 0
    /\ probing' = FALSE
    /\ UNCHANGED <<cooling, sinceProbe>>

\* Mutant of Failure: openUntil is set when the breaker opens, and not again
\* when a probe fails.
FailureOpensOnce ==
    /\ failures' = IF Healthy THEN failures + 1 ELSE failures
    /\ probing' = FALSE
    /\ cooling' = IF failures = Threshold - 1 THEN Cooldown ELSE cooling
    /\ UNCHANGED sinceProbe

\* Mutant of Failure: the cooldown is one tick too long.
FailureOpensLong ==
    /\ failures' = IF Healthy THEN failures + 1 ELSE failures
    /\ probing' = FALSE
    /\ cooling' = IF failures' >= Threshold THEN Cooldown + 1 ELSE cooling
    /\ UNCHANGED sinceProbe

Failure ==
    /\ failures' = IF Healthy THEN failures + 1 ELSE failures
    /\ probing' = FALSE
    /\ cooling' = IF failures' >= Threshold THEN Cooldown ELSE cooling
    /\ UNCHANGED sinceProbe

\* The clock that time.Now reads advances.
Tick ==
    /\ cooling' = IF cooling > 0 THEN cooling - 1 ELSE 0
    /\ sinceProbe' = IF sinceProbe < Cooldown THEN sinceProbe + 1 ELSE Cooldown
    /\ UNCHANGED <<failures, probing>>

-----------------------------------------------------------------------------

\* A probe is only ever out on an open breaker whose cooldown has passed, and
\* an open breaker without a probe still has to rest for whatever the last
\* probe leaves of a cooldown: the state from which Allow can grant no second
\* probe in one window (breaker.go:27-29).
BreakerInv ==
    /\ probing => ~Healthy /\ cooling = 0
    /\ ~Healthy /\ ~probing => cooling + sinceProbe >= Cooldown

=============================================================================
