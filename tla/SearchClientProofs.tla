------------------------- MODULE SearchClientProofs -------------------------
(***************************************************************************)
(* What holds of the search client for every threshold, cooldown and       *)
(* number of concurrent searches.  The inductive invariant is TypeOK and   *)
(* BreakerInv for the breaker, with ProbeHasOwner added for the probe.     *)
(***************************************************************************)
EXTENDS SearchClient, TLAPS

-----------------------------------------------------------------------------
(* The methods of the breaker, and the clock, keep what holds of it. The     *)
(* cache and the search client own a breaker each.                           *)

BreakerOK == BreakerTypeOK /\ BreakerInv

\* The part of BreakerOK that is arithmetic.
Counters ==
    /\ failures \in 0..Threshold
    /\ cooling \in 0..Cooldown
    /\ sinceProbe \in 0..Cooldown
    /\ BreakerInv

\* New gives a breaker in which no probe is out and none is owed.
LEMMA InitOK == BreakerInit => BreakerOK
<1>1. BreakerInit => Counters
  BY BreakerAssumption
     DEF BreakerAssumption, BreakerInit, Counters, BreakerInv, Healthy
<1>2. BreakerInit => probing \in BOOLEAN
  BY DEF BreakerInit
<1>3. QED
  BY <1>1, <1>2 DEF BreakerOK, BreakerTypeOK, Counters

\* Allow sets the flag only on an open, rested breaker.
LEMMA AllowOK == BreakerOK /\ Allow => BreakerOK'
  BY BreakerAssumption
     DEF BreakerAssumption, BreakerOK, BreakerTypeOK, BreakerInv, Allow,
         Admits, Healthy

\* Success closes the breaker, and a closed breaker owes nothing.
LEMMA SuccessOK == BreakerOK /\ Success => BreakerOK'
<1>1. BreakerOK /\ Success => Counters'
  BY BreakerAssumption
     DEF BreakerAssumption, BreakerOK, BreakerTypeOK, Counters, BreakerInv,
         Success, Healthy
<1>2. Success => probing' \in BOOLEAN
  BY DEF Success
<1>3. QED
  BY <1>1, <1>2 DEF BreakerOK, BreakerTypeOK, Counters

\* Failure either leaves the breaker closed or opens a whole new window.
LEMMA FailureOK == BreakerOK /\ Failure => BreakerOK'
<1>1. BreakerOK /\ Failure => Counters'
  BY BreakerAssumption
     DEF BreakerAssumption, BreakerOK, BreakerTypeOK, Counters, BreakerInv,
         Failure, Healthy
<1>2. Failure => probing' \in BOOLEAN
  BY DEF Failure
<1>3. QED
  BY <1>1, <1>2 DEF BreakerOK, BreakerTypeOK, Counters

\* A tick takes from cooling at most what it adds to sinceProbe.
LEMMA TickOK == BreakerOK /\ Tick => BreakerOK'
  BY BreakerAssumption
     DEF BreakerAssumption, BreakerOK, BreakerTypeOK, BreakerInv, Tick,
         Healthy

\* A step that leaves the breaker alone.
LEMMA StutterOK == BreakerOK /\ UNCHANGED breakerVars => BreakerOK'
  BY DEF BreakerAssumption, BreakerOK, BreakerTypeOK, BreakerInv, Healthy, breakerVars

\* An open breaker with BreakerInv admits a probe only after a whole Cooldown.
LEMMA AdmitsRested == BreakerOK /\ ~Healthy /\ Admits => sinceProbe = Cooldown
  BY BreakerAssumption
     DEF BreakerAssumption, BreakerOK, BreakerTypeOK, BreakerInv, Admits, Healthy

-----------------------------------------------------------------------------

\* Every step of the client calls one method of the breaker, or none.
LEMMA BreakerSteps ==
  [Next]_vars => Allow \/ Success \/ Failure \/ Tick \/ UNCHANGED breakerVars
  BY DEF Next, vars, TooShort, AskElastic, AskPostgres, ElasticAnswers,
         ElasticDown, ElasticRejects, ClientCancels, ElasticErrors,
         PostgresAnswers, PostgresFails, ClientGone, ElasticFlips,
         PostgresFlips, ClockTicks

LEMMA BreakerStepOK == BreakerOK /\ [Next]_vars => BreakerOK'
  BY BreakerSteps, AllowOK, SuccessOK, FailureOK, TickOK, StutterOK

\* Where each search is, as far as the probe is concerned.
PlaceOK == at \in [Searches -> {"elastic", "postgres", None}]

\* A request only moves by Goes or Ends, or stays where it is.
LEMMA Moves ==
  [Next]_vars =>
    \/ at' = at
    \/ \E s \in Searches, p \in {"elastic", "postgres", None} :
          at' = [at EXCEPT ![s] = p]
  BY DEF Next, vars, searchVars, TooShort, AskElastic, AskPostgres,
         ElasticAnswers, ElasticDown, ElasticRejects, ClientCancels,
         ElasticErrors, PostgresAnswers, PostgresFails, ClientGone,
         ElasticFlips, PostgresFlips, ClockTicks, Goes, Ends

LEMMA PlaceStepOK == PlaceOK /\ [Next]_vars => PlaceOK'
  BY Moves DEF PlaceOK

THEOREM Invariant == Spec => [](BreakerOK /\ PlaceOK)
<1>1. Init => BreakerOK /\ PlaceOK
  BY InitOK DEF Init, PlaceOK
<1>2. BreakerOK /\ PlaceOK /\ [Next]_vars => (BreakerOK /\ PlaceOK)'
  BY BreakerStepOK, PlaceStepOK
<1>3. QED
  BY <1>1, <1>2, PTL DEF Spec

\* A probe is out only on an open, rested breaker, and an open breaker still
\* rests for what its last probe leaves of a cooldown.
THEOREM BreakerInvariant == Spec => []BreakerInv
<1>1. BreakerOK => BreakerInv
  BY DEF BreakerOK
<1>2. QED
  BY <1>1, Invariant, PTL

\* A query only goes to Elasticsearch through Allow.
LEMMA SendAllowed ==
  ASSUME [Next]_vars, PlaceOK,
         NEW s \in Searches, at[s] # "elastic", at'[s] = "elastic"
  PROVE  Allow
<1>1. \A t \in Searches, q \in Queries : AskPostgres(t, q) => at'[s] # "elastic"
  BY DEF AskPostgres, Goes, PlaceOK
<1>2. \A t \in Searches : ElasticErrors(t) => at'[s] # "elastic"
  BY DEF ElasticErrors, Goes, PlaceOK
<1>3. \A t \in Searches : \A a : Ends(t, a) => at'[s] # "elastic"
  BY SearchAssumption DEF SearchAssumption, Ends, PlaceOK
<1>4. at' # at
  OBVIOUS
<1>5. QED
  BY <1>1, <1>2, <1>3, <1>4
     DEF Next, vars, searchVars, TooShort, AskElastic, ElasticAnswers,
         ElasticDown, ElasticRejects, ClientCancels, PostgresAnswers,
         PostgresFails, ClientGone, ElasticFlips, PostgresFlips, ClockTicks

\* While the breaker is open at most one query per cooldown goes out.
THEOREM OneProbe == Spec => OneProbePerWindow
<1>1. BreakerOK /\ PlaceOK /\ [Next]_vars =>
        (~Healthy /\ (\E s \in Searches : at[s] # "elastic" /\ at'[s] = "elastic")
           => sinceProbe = Cooldown)
  BY SendAllowed, AdmitsRested DEF Allow
<1>2. QED
  BY <1>1, Invariant, PTL DEF Spec, OneProbePerWindow

\* A query under way to Elasticsearch only stops being one by reporting.
LEMMA OwnerStepOK == PlaceOK /\ ProbeHasOwner /\ [Next]_vars => ProbeHasOwner'
<1> SUFFICES ASSUME PlaceOK, ProbeHasOwner, [Next]_vars, probing'
             PROVE  \E s \in Searches : at'[s] = "elastic"
  BY DEF ProbeHasOwner
<1> USE DEF PlaceOK, ProbeHasOwner
<1>1. ASSUME NEW s \in Searches, TooShort(s)
      PROVE  \E t \in Searches : at'[t] = "elastic"
  BY <1>1, SearchAssumption
     DEF SearchAssumption, TooShort, Ends, breakerVars
<1>2. ASSUME NEW s \in Searches, NEW q \in Queries, AskElastic(s, q)
      PROVE  \E t \in Searches : at'[t] = "elastic"
  BY <1>2 DEF AskElastic, Goes
<1>3. ASSUME NEW s \in Searches, NEW q \in Queries, AskPostgres(s, q)
      PROVE  \E t \in Searches : at'[t] = "elastic"
  BY <1>3, SearchAssumption
     DEF SearchAssumption, AskPostgres, Goes, breakerVars
<1>4. ASSUME NEW s \in Searches,
             ElasticAnswers(s) \/ ElasticDown(s) \/ ElasticRejects(s) \/ ClientCancels(s)
      PROVE  FALSE
  BY <1>4 DEF ElasticAnswers, ElasticDown, ElasticRejects, ClientCancels,
              ElasticErrors, Success, Failure
<1>5. ASSUME NEW s \in Searches,
             PostgresAnswers(s) \/ PostgresFails(s) \/ ClientGone(s)
      PROVE  \E t \in Searches : at'[t] = "elastic"
  BY <1>5 DEF PostgresAnswers, PostgresFails, ClientGone, Ends, breakerVars
<1>6. CASE ElasticFlips \/ PostgresFlips \/ ClockTicks \/ UNCHANGED vars
  BY <1>6 DEF ElasticFlips, PostgresFlips, ClockTicks, Tick, breakerVars,
              vars, searchVars
<1>7. QED
  BY <1>1, <1>2, <1>3, <1>4, <1>5, <1>6 DEF Next

\* A probe that is out always has a query under way that will report it.
THEOREM ProbeOwned == Spec => []ProbeHasOwner
<1>1. Init => ProbeHasOwner
  BY DEF Init, BreakerInit, ProbeHasOwner
<1>2. BreakerOK /\ PlaceOK /\ ProbeHasOwner /\ [Next]_vars => ProbeHasOwner'
  BY OwnerStepOK
<1>3. QED
  BY <1>1, <1>2, Invariant, PTL DEF Spec

-----------------------------------------------------------------------------
(* Fail-soft                                                                 *)

\* Only one search is answered in a step, and the others are not.
LEMMA AnswersOne ==
  ASSUME NEW t \in Searches, NEW a, Ends(t, a),
         NEW s \in Searches, answer'[s] # None
  PROVE  s = t /\ answer'[s] = a
  BY DEF Ends, Unanswered

\* An integer that fits is converted to itself.
LEMMA SmallInt32 == \A n \in 0 .. Int32Max : Int32(n) = n
<1> SUFFICES ASSUME NEW n \in 0 .. Int32Max PROVE Int32(n) = n
  OBVIOUS
<1> DEFINE a == n + Int32Max + 1
           b == 2 * Int32Max + 2
<1>1. Int32Max \in Nat
  BY WidthAssumption DEF WidthAssumption
<1>2. a \in Nat /\ b \in Nat /\ 0 < b /\ a < b
  BY <1>1
<1>3. a % b = a
  <2> HIDE DEF a, b
  <2> QED
    BY <1>2
<1>4. a - Int32Max - 1 = n
  BY <1>1
<1>5. QED
  BY <1>3, <1>4 DEF Int32

\* A size the fallback refuses is a suggestion's, and beyond an int32.
LEMMA LimFits ==
  ASSUME NEW q \in Queries,
         q.route = "suggest" => q.size <= Int32Max
  PROVE  Lim(q) \in Nat
<1>1. q.route \in {"search", "suggest"} /\ q.size \in Int
  BY SearchAssumption DEF SearchAssumption
<1>2. Int32Max \in Nat /\ Int32Max >= 500
  BY WidthAssumption DEF WidthAssumption, fallbackScanLimit
<1>3. CASE q.route = "search"
  BY <1>3 DEF Lim, fallbackScanLimit
<1>4. CASE q.route = "suggest"
  <2> DEFINE n == IF q.size <= 0 THEN 8 ELSE q.size
  <2>1. n \in 0 .. Int32Max
    BY <1>1, <1>2, <1>4
  <2>2. Lim(q) = n
    BY <1>4, <2>1, SmallInt32 DEF Lim, defaultSuggestLimit
  <2>3. QED
    BY <2>1, <2>2
<1>5. QED
  BY <1>1, <1>3, <1>4

-----------------------------------------------------------------------------
(* Types *)

\* What the answers and the queries need beside the breaker and the places.
RestOK ==
    /\ enabled \in BOOLEAN
    /\ {elastic, postgres} \subseteq {"up", "down"}
    /\ query \in [Searches -> Queries \cup {None}]
    /\ answer \in [Searches -> Answers \cup {None}]
    /\ \A s \in Searches : at[s] = None <=> query[s] = None

LEMMA QuietAnswers == Unanswered \in [Searches -> Answers \cup {None}]
  BY DEF Unanswered

LEMMA AnswersOK ==
  /\ \A d \in BOOLEAN : [out |-> "results", degraded |-> d] \in Answers
  /\ \A o \in {"error", "gone"} : [out |-> o] \in Answers
  BY DEF Answers

LEMMA GoesOK ==
  ASSUME PlaceOK, RestOK, NEW s \in Searches, NEW q \in Queries,
         NEW b \in {"elastic", "postgres"}, Goes(s, q, b), UNCHANGED envVars
  PROVE  RestOK'
<1>1. query' \in [Searches -> Queries \cup {None}]
  BY DEF Goes, RestOK
<1>2. answer' \in [Searches -> Answers \cup {None}]
  BY QuietAnswers DEF Goes
<1>3. \A t \in Searches : at'[t] = None <=> query'[t] = None
  BY SearchAssumption DEF SearchAssumption, Goes, PlaceOK, RestOK
<1>4. QED
  BY <1>1, <1>2, <1>3 DEF RestOK, envVars

LEMMA EndsOK ==
  ASSUME PlaceOK, RestOK, NEW s \in Searches, NEW a \in Answers,
         Ends(s, a), UNCHANGED envVars
  PROVE  RestOK'
<1>1. query' \in [Searches -> Queries \cup {None}]
  BY DEF Ends, RestOK
<1>2. answer' \in [Searches -> Answers \cup {None}]
  BY QuietAnswers DEF Ends
<1>3. \A t \in Searches : at'[t] = None <=> query'[t] = None
  BY DEF Ends, PlaceOK, RestOK
<1>4. QED
  BY <1>1, <1>2, <1>3 DEF RestOK, envVars

LEMMA RestStepOK == PlaceOK /\ RestOK /\ [Next]_vars => RestOK'
<1> SUFFICES ASSUME PlaceOK, RestOK, [Next]_vars PROVE RestOK'
  OBVIOUS
<1>1. ASSUME NEW s \in Searches, NEW q \in Queries,
             AskElastic(s, q) \/ AskPostgres(s, q)
      PROVE  RestOK'
  BY <1>1, GoesOK DEF AskElastic, AskPostgres
<1>2. ASSUME NEW s \in Searches, ElasticErrors(s) PROVE RestOK'
  <2>1. query[s] \in Queries
    BY <1>2, SearchAssumption
       DEF SearchAssumption, ElasticErrors, PlaceOK, RestOK
  <2>2. QED
    BY <1>2, <2>1, GoesOK DEF ElasticErrors
<1>3. ASSUME NEW s \in Searches, TooShort(s) \/ ElasticAnswers(s)
      PROVE  RestOK'
  BY <1>3, EndsOK, AnswersOK DEF TooShort, ElasticAnswers
<1>4. ASSUME NEW s \in Searches,
             PostgresAnswers(s) \/ PostgresFails(s) \/ ClientGone(s)
      PROVE  RestOK'
  BY <1>4, EndsOK, AnswersOK DEF PostgresAnswers, PostgresFails, ClientGone
<1>5. CASE ElasticFlips \/ PostgresFlips \/ ClockTicks
  BY <1>5, QuietAnswers DEF ElasticFlips, PostgresFlips, ClockTicks, envVars, RestOK
<1>6. CASE UNCHANGED vars
  BY <1>6 DEF vars, searchVars, RestOK
<1>7. QED
  BY <1>1, <1>2, <1>3, <1>4, <1>5, <1>6
     DEF Next, ElasticDown, ElasticRejects, ClientCancels

\* The type invariant: among the rest, a request has a query exactly while
\* it waits for a backend.
THEOREM TypeCorrect == Spec => []TypeOK
<1>1. Init => RestOK
  BY QuietAnswers DEF Init, RestOK
<1>2. BreakerOK /\ PlaceOK /\ RestOK => TypeOK
  BY DEF BreakerOK, PlaceOK, RestOK, TypeOK
<1>3. BreakerOK /\ PlaceOK /\ RestOK /\ [Next]_vars => RestOK'
  BY RestStepOK
<1>4. QED
  BY <1>1, <1>2, <1>3, Invariant, PTL DEF Spec

-----------------------------------------------------------------------------
\* Whatever Elasticsearch and its breaker do, and whatever size is asked for,
\* a search fails only while Postgres does, unless it is a suggestion whose
\* size does not fit an int32.
THEOREM FailsSoft == Spec => FailSoft
<1> DEFINE Soft == \A s \in Searches :
                     /\ answer'[s] # None /\ answer'[s].out = "error"
                     /\ query[s].route = "suggest" => query[s].size <= Int32Max
                     => postgres = "down"
<1>1. ASSUME TypeOK, Next PROVE Soft
  <2> SUFFICES ASSUME NEW s \in Searches, answer'[s] # None, answer'[s].out = "error",
                      query[s].route = "suggest" => query[s].size <= Int32Max
               PROVE  postgres = "down"
    OBVIOUS
  <2>1. \A t \in Searches : \A a : Ends(t, a) => s = t /\ answer'[s] = a
    BY AnswersOne
  <2>2. answer' # Unanswered
    BY DEF Unanswered
  <2>3. ASSUME NEW t \in Searches,
               TooShort(t) \/ ElasticAnswers(t) \/ PostgresAnswers(t) \/ ClientGone(t)
        PROVE  FALSE
    BY <2>1, <2>3 DEF TooShort, ElasticAnswers, PostgresAnswers, ClientGone
  <2>4. ASSUME NEW t \in Searches, PostgresFails(t) PROVE postgres = "down"
    <3>1. s = t /\ at[s] = "postgres"
      BY <2>1, <2>4 DEF PostgresFails
    <3>2. query[s] \in Queries
      BY <1>1, <3>1, SearchAssumption DEF SearchAssumption, TypeOK
    <3>3. Lim(query[s]) \in Nat
      BY <3>2, LimFits
    <3>4. QED
      BY <2>4, <3>1, <3>3 DEF PostgresFails
  <2>5. ASSUME NEW t \in Searches, NEW q \in Queries, AskElastic(t, q) \/ AskPostgres(t, q)
        PROVE  FALSE
    BY <2>2, <2>5 DEF AskElastic, AskPostgres, Goes
  <2>6. ASSUME NEW t \in Searches, ElasticDown(t) \/ ElasticRejects(t) \/ ClientCancels(t)
        PROVE  FALSE
    BY <2>2, <2>6 DEF ElasticDown, ElasticRejects, ClientCancels, ElasticErrors, Goes
  <2>7. ~ElasticFlips /\ ~PostgresFlips /\ ~ClockTicks
    BY <2>2 DEF ElasticFlips, PostgresFlips, ClockTicks
  <2> QED
    BY <1>1, <2>3, <2>4, <2>5, <2>6, <2>7 DEF Next
<1>2. TypeOK /\ [Next]_vars => [Soft]_vars
  BY <1>1
<1> HIDE DEF Soft
<1>3. Spec => [][Soft]_vars
  BY <1>2, TypeCorrect, PTL DEF Spec
<1>4. QED
  BY <1>3, PTL DEF Soft, FailSoft

=============================================================================
