---------------------------- MODULE SearchClient ----------------------------
(***************************************************************************)
(* Site search: handlers/search.go, service/search.go and the client in    *)
(* internal/search.  Each request tries Elasticsearch through the client's *)
(* breaker and falls back to a trigram search in Postgres when the client  *)
(* says ErrUnavailable.  Search and Suggest take the same path and differ   *)
(* in what they do with the size asked for; ranking and grouping are not    *)
(* modelled.                                                                *)
(*                                                                         *)
(* A size is whatever integer the request carries: strconv.Atoi's error is  *)
(* dropped, and no handler bounds it.  Elasticsearch answers a size beyond  *)
(* the index's window with a 4xx.  Elasticsearch, Postgres and the clients  *)
(* are external.                                                            *)
(***************************************************************************)
EXTENDS Breaker, Integers

CONSTANTS Searches,  \* slots for concurrent requests, reused
          Queries,   \* the queries asked, each a route and a size
          Window,    \* the largest size Elasticsearch takes
          Int32Max,  \* the largest int32, scaled down for TLC
          None

ASSUME SearchAssumption ==
    /\ Queries \subseteq [route : {"search", "suggest"}, size : Int]
    /\ None \notin Queries /\ None \notin {"elastic", "postgres"}

\* The two constants of service/search.go that end up in a LIMIT.
defaultSuggestLimit == 8
fallbackScanLimit == 500

ASSUME WidthAssumption ==
    /\ Window \in Nat /\ Window >= defaultSuggestLimit
    /\ Int32Max \in Nat /\ Int32Max >= fallbackScanLimit

VARIABLES
    enabled,  \* whether ELASTIC_URL is set; decided at boot
    elastic,  \* "up", or "down": unreachable, or slower than opTO
    postgres, \* "up", or "down": failing, or slower than the request timeout
    query,    \* the query each request is about, None when idle
    at,       \* the backend it waits for, None when idle
    answer    \* history: the answers given in the last step

searchVars == <<enabled, elastic, postgres, query, at, answer>>
envVars == <<enabled, elastic, postgres>>
vars == <<breakerVars, searchVars>>

Answers == [out : {"results"}, degraded : BOOLEAN] \cup [out : {"error", "gone"}]

TypeOK ==
    /\ BreakerTypeOK
    /\ enabled \in BOOLEAN
    /\ {elastic, postgres} \subseteq {"up", "down"}
    /\ query \in [Searches -> Queries \cup {None}]
    /\ at \in [Searches -> {"elastic", "postgres", None}]
    /\ answer \in [Searches -> Answers \cup {None}]
    /\ \A s \in Searches : at[s] = None <=> query[s] = None

Takes(q) == q.size <= Window

\* Go's conversion int32(n): the value n has in two's complement.
Int32(n) == ((n + Int32Max + 1) % (2 * Int32Max + 2)) - Int32Max - 1

\* The LIMIT of the fallback's statement.  Search scans a fixed number of rows
\* and cuts its groups afterwards; Suggest passes the size on.
Lim(q) ==
    IF q.route = "search" THEN fallbackScanLimit
    ELSE Int32(IF q.size <= 0 THEN defaultSuggestLimit ELSE q.size)

Unanswered == [s \in Searches |-> None]

Init ==
    /\ BreakerInit
    /\ enabled \in BOOLEAN
    /\ elastic = "up" /\ postgres = "up"
    /\ query = [s \in Searches |-> None]
    /\ at = [s \in Searches |-> None]
    /\ answer = Unanswered

Goes(s, q, backend) ==
    /\ query' = [query EXCEPT ![s] = q]
    /\ at' = [at EXCEPT ![s] = backend]
    /\ answer' = Unanswered

Ends(s, a) ==
    /\ query' = [query EXCEPT ![s] = None]
    /\ at' = [at EXCEPT ![s] = None]
    /\ answer' = [Unanswered EXCEPT ![s] = a]

-----------------------------------------------------------------------------
(* A request comes in *)

\* Both backends have the same first line: no results, and not degraded.
TooShort(s) ==
    /\ at[s] = None
    /\ Ends(s, [out |-> "results", degraded |-> FALSE])
    /\ UNCHANGED <<breakerVars, envVars>>

AskElastic(s, q) ==
    /\ at[s] = None
    /\ enabled
    /\ Allow
    /\ Goes(s, q, "elastic")
    /\ UNCHANGED envVars

\* The client is disabled, or its breaker refuses.
AskPostgres(s, q) ==
    /\ at[s] = None
    /\ ~(enabled /\ Admits)
    /\ Goes(s, q, "postgres")
    /\ UNCHANGED <<breakerVars, envVars>>

-----------------------------------------------------------------------------
(* Elasticsearch *)

ElasticAnswers(s) ==
    /\ at[s] = "elastic" /\ elastic = "up" /\ Takes(query[s])
    /\ Success
    /\ Ends(s, [out |-> "results", degraded |-> FALSE])
    /\ UNCHANGED envVars

\* Mutant of ElasticErrors: the error is not turned into ErrUnavailable.
ElasticErrorsFatal(s) ==
    /\ at[s] = "elastic"
    /\ Failure
    /\ Ends(s, [out |-> "error"])
    /\ UNCHANGED envVars

\* Mutant of ElasticErrors: the query is retried until it succeeds.
ElasticErrorsRetried(s) ==
    /\ at[s] = "elastic"
    /\ Failure
    /\ Goes(s, query[s], "elastic")
    /\ UNCHANGED envVars

\* Any error at all is reported to the breaker and sends the request on to
\* Postgres: an outage or a timeout, a 4xx, or the client's disconnect, which
\* cancels the context the query runs under.
ElasticErrors(s) ==
    /\ at[s] = "elastic"
    /\ Failure
    /\ Goes(s, query[s], "postgres")
    /\ UNCHANGED envVars

ElasticDown(s) == elastic = "down" /\ ElasticErrors(s)
\* Mutant of ElasticRejects: a 4xx is not reported to the breaker.
ElasticRejectsUnreported(s) ==
    /\ elastic = "up" /\ at[s] = "elastic" /\ ~Takes(query[s])
    /\ Goes(s, query[s], "postgres")
    /\ UNCHANGED <<breakerVars, envVars>>

ElasticRejects(s) ==
    /\ at[s] = "elastic" /\ elastic = "up" /\ ~Takes(query[s])
    /\ ElasticErrors(s)

\* Mutant of ClientCancels: a cancellation is not reported to the breaker.
ClientCancelsUnreported(s) ==
    /\ at[s] = "elastic"
    /\ Goes(s, query[s], "postgres")
    /\ UNCHANGED <<breakerVars, envVars>>

ClientCancels(s) == ElasticErrors(s)

-----------------------------------------------------------------------------
(* Postgres *)

PostgresAnswers(s) ==
    /\ at[s] = "postgres" /\ postgres = "up" /\ Lim(query[s]) >= 0
    /\ Ends(s, [out |-> "results", degraded |-> TRUE])
    /\ UNCHANGED <<breakerVars, envVars>>

\* Postgres is failing, or refuses the statement: its LIMIT is negative.
PostgresFails(s) ==
    /\ at[s] = "postgres"
    /\ postgres = "down" \/ Lim(query[s]) < 0
    /\ Ends(s, [out |-> "error"])
    /\ UNCHANGED <<breakerVars, envVars>>

\* The client is gone before there is an answer.
ClientGone(s) ==
    /\ at[s] = "postgres"
    /\ Ends(s, [out |-> "gone"])
    /\ UNCHANGED <<breakerVars, envVars>>

-----------------------------------------------------------------------------
(* The environment *)

ElasticFlips ==
    /\ elastic' = IF elastic = "up" THEN "down" ELSE "up"
    /\ answer' = Unanswered
    /\ UNCHANGED <<breakerVars, enabled, postgres, query, at>>

PostgresFlips ==
    /\ postgres' = IF postgres = "up" THEN "down" ELSE "up"
    /\ answer' = Unanswered
    /\ UNCHANGED <<breakerVars, enabled, elastic, query, at>>

ClockTicks ==
    /\ Tick
    /\ answer' = Unanswered
    /\ UNCHANGED <<envVars, query, at>>

-----------------------------------------------------------------------------

Next ==
    \/ \E s \in Searches : TooShort(s)
    \/ \E s \in Searches, q \in Queries : AskElastic(s, q) \/ AskPostgres(s, q)
    \/ \E s \in Searches : ElasticAnswers(s) \/ ElasticDown(s)
                              \/ ElasticRejects(s) \/ ClientCancels(s)
    \/ \E s \in Searches : PostgresAnswers(s) \/ PostgresFails(s)
                              \/ ClientGone(s)
    \/ ElasticFlips
    \/ PostgresFlips
    \/ ClockTicks

Spec == Init /\ [][Next]_vars

\* Queries end, because opTO and the request timeout bound them, and time
\* passes.  Of the environment: not every query that could be the probe is
\* one Elasticsearch rejects, and a cluster that is up time and again while
\* one it takes waits answers one.
Fairness ==
    /\ \A s \in Searches :
          /\ WF_vars(ElasticAnswers(s) \/ ElasticErrors(s))
          /\ WF_vars(PostgresAnswers(s) \/ PostgresFails(s))
    /\ WF_vars(ClockTicks)
    /\ SF_vars(\E s \in Searches, q \in Queries : Takes(q) /\ AskElastic(s, q))
    /\ SF_vars(\E s \in Searches : ElasticAnswers(s))

FairSpec == Spec /\ Fairness

-----------------------------------------------------------------------------
(* Properties *)

\* A probe flag that is up has a query under way that will take it down:
\* between Allow and the report the client has no other way out.
ProbeHasOwner == probing => \E s \in Searches : at[s] = "elastic"

\* breaker.go:27 - at most one query per cooldown goes to a cluster that the
\* breaker takes for dead.
OneProbePerWindow ==
    [][ ~Healthy /\ (\E s \in Searches : at[s] # "elastic" /\ at'[s] = "elastic")
           => sinceProbe = Cooldown ]_vars

\* search.go:2 - fail-soft: whatever happens to Elasticsearch and its breaker,
\* and whatever its route and size, a search fails only while Postgres does.
\* The exception is a suggestion of more than an int32 of hits: the size is
\* converted unchecked (service/search.go:130) and can end up negative.
FailSoft ==
    [][ \A s \in Searches :
           /\ answer'[s] # None /\ answer'[s].out = "error"
           /\ query[s].route = "suggest" => query[s].size <= Int32Max
           => postgres = "down" ]_vars

\* Every search comes to an end.
EverySearchEnds == \A s \in Searches : at[s] # None ~> at[s] = None

\* Once Elasticsearch stays up, search keeps coming back from degraded.
RecoveryNoticed == <>[](elastic = "up") => []<>Healthy

=============================================================================
