----------------------------- MODULE RedisCache -----------------------------
(***************************************************************************)
(* internal/cache: the fail-open Redis cache behind its circuit breaker.   *)
(* Any number of request goroutines call Get and Set at once; every Set    *)
(* that is let through runs on in a goroutine of its own.  Redis is        *)
(* external: it goes down and comes back, forgets entries, and may apply a *)
(* command after the client has stopped waiting for it.                    *)
(*                                                                         *)
(* A call that the breaker refuses changes nothing and is a stutter.  What *)
(* Get returns is the business of ResponseCache; here a Get is what it     *)
(* does to the breaker.                                                    *)
(***************************************************************************)
EXTENDS Breaker

CONSTANTS
    Keys,
    Bodies,
    Oversize,  \* the bodies longer than maxEntry
    Readers,   \* Get calls that may be under way at a time
    Writers,   \* Set goroutines that may be under way at a time
    None

ASSUME CacheAssumption ==
    /\ Oversize \subseteq Bodies
    /\ None \notin [key : Keys, body : Bodies]

VARIABLES
    redis,     \* "up", or "down" (unreachable or hung)
    store,     \* what Redis holds
    reading,   \* the Get calls waiting for Redis
    write,     \* the entry each Set goroutine sent, None when idle
    orphans    \* writes whose Set has given up but whose command is still
               \* on its way

cacheVars == <<redis, store, reading, write, orphans>>
vars == <<breakerVars, cacheVars>>

Entry == [key : Keys, body : Bodies]

TypeOK ==
    /\ BreakerTypeOK
    /\ redis \in {"up", "down"}
    /\ store \in [Keys -> Bodies \cup {None}]
    /\ reading \subseteq Readers
    /\ write \in [Writers -> Entry \cup {None}]
    /\ orphans \subseteq Writers

Init ==
    /\ BreakerInit
    /\ redis = "up"
    /\ store = [k \in Keys |-> None]
    /\ reading = {}
    /\ write = [w \in Writers |-> None]
    /\ orphans = {}

-----------------------------------------------------------------------------
(* Get *)

\* Get, up to the round trip to Redis.
GetStart(r) ==
    /\ r \notin reading
    /\ Allow
    /\ reading' = reading \cup {r}
    /\ UNCHANGED <<redis, store, write, orphans>>

\* Mutant of GetAnswered: redis.Nil, a miss, is taken for an error.
GetAnsweredNilFails(r) ==
    /\ r \in reading
    /\ redis = "up"
    /\ Success \/ Failure
    /\ reading' = reading \ {r}
    /\ UNCHANGED <<redis, store, write, orphans>>

\* Redis answers with the value or with redis.Nil: a success either way.
GetAnswered(r) ==
    /\ r \in reading
    /\ redis = "up"
    /\ Success
    /\ reading' = reading \ {r}
    /\ UNCHANGED <<redis, store, write, orphans>>

\* Mutant of GetFailed: the error of a cancelled request is not reported.
GetFailedUnreported(r) ==
    /\ r \in reading
    /\ reading' = reading \ {r}
    /\ UNCHANGED <<redis, store, write, orphans, breakerVars>>

\* Any other error: Redis is unreachable, opTO ran out, or the request the
\* deadline hangs on was cancelled by its client.
GetFailed(r) ==
    /\ r \in reading
    /\ Failure
    /\ reading' = reading \ {r}
    /\ UNCHANGED <<redis, store, write, orphans>>

-----------------------------------------------------------------------------
(* Set *)

\* Set, when the body fits: the goroutine is started.
SetStart(w, k, b) ==
    /\ write[w] = None
    /\ Allow
    /\ b \notin Oversize
    /\ write' = [write EXCEPT ![w] = [key |-> k, body |-> b]]
    /\ UNCHANGED <<redis, store, reading, orphans>>

\* Set, when the body does not: Allow has been called, and Set returns.
SetOversize(b) ==
    /\ Allow
    /\ b \in Oversize
    /\ UNCHANGED cacheVars

Running(w) == write[w] # None /\ w \notin orphans

\* Mutant of SetAnswered: the goroutine's key is a variable that another Set
\* may have assigned meanwhile.
SetAnsweredSharedKey(w) ==
    /\ Running(w)
    /\ redis = "up"
    /\ Success
    /\ \E v \in Writers :
          /\ write[v] # None
          /\ store' = [store EXCEPT ![write[v].key] = write[w].body]
    /\ write' = [write EXCEPT ![w] = None]
    /\ UNCHANGED <<redis, reading, orphans>>

SetAnswered(w) ==
    /\ Running(w)
    /\ redis = "up"
    /\ Success
    /\ store' = [store EXCEPT ![write[w].key] = write[w].body]
    /\ write' = [write EXCEPT ![w] = None]
    /\ UNCHANGED <<redis, reading, orphans>>

\* The goroutine reports an error, for instance after its two seconds.  The
\* command may still be on its way to Redis.
SetFailed(w) ==
    /\ Running(w)
    /\ Failure
    /\ orphans' = orphans \cup {w}
    /\ UNCHANGED <<redis, store, reading, write>>

-----------------------------------------------------------------------------
(* Redis and the clock *)

\* A command that nobody waits for any more is applied after all, or lost.
OrphanLands(w) ==
    /\ w \in orphans
    /\ redis = "up"
    /\ store' = [store EXCEPT ![write[w].key] = write[w].body]
    /\ write' = [write EXCEPT ![w] = None]
    /\ orphans' = orphans \ {w}
    /\ UNCHANGED <<redis, reading, breakerVars>>

OrphanLost(w) ==
    /\ w \in orphans
    /\ write' = [write EXCEPT ![w] = None]
    /\ orphans' = orphans \ {w}
    /\ UNCHANGED <<redis, store, reading, breakerVars>>

\* TTL, LRU eviction, FLUSHDB, a restart without persistence.
RedisForgets(K) ==
    /\ store' = [k \in Keys |-> IF k \in K THEN None ELSE store[k]]
    /\ UNCHANGED <<redis, reading, write, orphans, breakerVars>>

RedisFlips ==
    /\ redis' = IF redis = "up" THEN "down" ELSE "up"
    /\ UNCHANGED <<store, reading, write, orphans, breakerVars>>

ClockTicks == Tick /\ UNCHANGED cacheVars

-----------------------------------------------------------------------------

GetEnds(r) == GetAnswered(r) \/ GetFailed(r)
SetEnds(w) == SetAnswered(w) \/ SetFailed(w)

Next ==
    \/ \E r \in Readers : GetStart(r) \/ GetAnswered(r) \/ GetFailed(r)
    \/ \E w \in Writers, k \in Keys, b \in Bodies : SetStart(w, k, b)
    \/ \E b \in Bodies : SetOversize(b)
    \/ \E w \in Writers : SetAnswered(w) \/ SetFailed(w)
    \/ \E w \in Writers : OrphanLands(w) \/ OrphanLost(w)
    \/ \E K \in SUBSET Keys : RedisForgets(K)
    \/ RedisFlips
    \/ ClockTicks

Spec == Init /\ [][Next]_vars

\* Get and Set end because their contexts have deadlines, and time passes.
\* Of the environment we assume traffic (some request calls Get whenever a
\* Get could go out) and that a Redis which is up time and again while a call
\* waits answers one of them before its deadline.
Fairness ==
    /\ \A r \in Readers : WF_vars(GetEnds(r))
    /\ \A w \in Writers : WF_vars(SetEnds(w)) /\ WF_vars(OrphanLost(w))
    /\ WF_vars(ClockTicks)
    /\ WF_vars(\E r \in Readers : GetStart(r))
    /\ SF_vars(\/ \E r \in Readers : GetAnswered(r)
               \/ \E w \in Writers : SetAnswered(w))

FairSpec == Spec /\ Fairness

-----------------------------------------------------------------------------
(* Properties *)

\* A call goes out to Redis in this step.
CallGoesOut ==
    \/ \E r \in Readers : r \notin reading /\ r \in reading'
    \/ \E w \in Writers : write[w] = None /\ write'[w] # None

\* breaker.go:27 - while the breaker is open at most one call per cooldown
\* goes out to Redis, whatever calls from before the outage still report.
OneProbePerWindow ==
    [][~Healthy /\ CallGoesOut => sinceProbe = Cooldown]_vars

\* A probe flag that is up has a call under way that will take it down again
\* when it reports; this is what cache.go must guarantee of its calls.
ProbeHasOwner ==
    probing => reading # {} \/ \E w \in Writers : Running(w)

\* Whatever times out, is cancelled or reports late, a probe only ever loses the
\* call that owns it in one way: Set is granted it for a body that turns out too
\* large (cache.go:128).
ProbeLostOnlyOversize ==
    [][ProbeHasOwner => ProbeHasOwner' \/ \E b \in Oversize : SetOversize(b)]_vars

\* breaker.go:27 - "a recovered backend is noticed": once Redis stays up the
\* breaker keeps coming back to closed.  The code does not keep this where
\* bodies may be too large.
RecoveryNoticed == <>[](redis = "up") => []<>Healthy

\* The part of it the code keeps: a lost probe is the only thing that can keep
\* the cache off for good.
RecoveryUnlessLost == <>[](redis = "up" /\ ProbeHasOwner) => []<>Healthy

\* The breaker is a gate: it becomes half-open only after a whole cooldown of
\* rest since the last failure, and leaves half-open only by a report.
GateMode == IF Healthy THEN "closed" ELSE IF probing THEN "halfopen" ELSE "open"

G == INSTANCE Gate WITH mode <- GateMode,
                        rest <- IF GateMode = "open" THEN cooling ELSE 0

ImplementsGate == G!Spec

\* The cache never makes an entry up, however Redis and the deadlines behave.
L == INSTANCE LossyCache

ImplementsLossyCache == L!LossySpec

=============================================================================
