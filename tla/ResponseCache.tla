--------------------------- MODULE ResponseCache ---------------------------
(***************************************************************************)
(* internal/middleware/responsecache.go: the middleware that answers GETs  *)
(* from the cache, and lets concurrent misses of one key share one run of  *)
(* the handler (singleflight).  The run belongs to a goroutine of its own, *)
(* the leader, detached from the request that started it; the request and  *)
(* those that joined it are followers that may leave at any time.          *)
(*                                                                         *)
(* The cache is LossyCache, which RedisCache implements: a Get may miss    *)
(* whatever is stored, a Set may be dropped, or take effect late.  A path  *)
(* stands for everything cacheKey reads of the URL.  The Paths of a model  *)
(* are paths of one route, so that they differ in the parameters only.     *)
(*                                                                         *)
(* The router is external (chi): each request borrows a route context from *)
(* a pool, which holds the route it is matched to, and gives it back when  *)
(* it returns.  The leader still reads that context when it routes.        *)
(***************************************************************************)
EXTENDS Naturals

CONSTANTS
    Requests,        \* slots for concurrent requests, reused
    Paths,           \* keys
    Known,           \* the paths the handlers answer with 200
    Contexts,        \* chi's pool of route contexts
    Writers,         \* background writes under way
    MaxVersion,      \* bound on data
    PromptDispatch,  \* TRUE if a leader always routes before the request
                     \* that started it returns
    None

ASSUME ResponseCacheAssumption ==
    /\ Known \subseteq Paths
    /\ None \notin Paths
    /\ MaxVersion \in Nat
    /\ PromptDispatch \in BOOLEAN

VARIABLES
    data,    \* version of the data in PostgreSQL
    floor,   \* history: version at the last flush with nothing in between
    store,   \* LossyCache: what Redis holds
    write,   \* LossyCache: the background writes
    phase,   \* where each request is in its handler chain
    asked,   \* the path it asks for
    ctx,     \* the route context it has borrowed
    answer,  \* history: the answers given in the last step
    route,   \* the path each route context holds
    flight   \* singleflight: the leader of each key and its followers

reqVars == <<phase, asked, ctx, route>>
cacheVars == <<store, write>>
NoAnswer == [r \in Requests |-> None]
Silently == answer' = NoAnswer
vars == <<data, floor, store, write, phase, asked, ctx, answer, route, flight>>

Body == [out : {"body"}, path : Paths, version : 0..MaxVersion]
Outcome == Body \cup [out : {"notfound", "failed", "broken", "gone"}]

C == INSTANCE LossyCache WITH Keys <- Paths, Bodies <- Body

\* A leader has been "spawned", is "running" the handler, or is "ready".
Leader == [step : {"spawned", "running", "ready"},
           ctx : Contexts, target : Paths \cup {None},
           result : Outcome \cup {None}, followers : SUBSET Requests]

\* None is no leader and no context.
ASSUME NoneAssumption == None \notin Leader /\ None \notin Contexts

TypeOK ==
    /\ data \in 0..MaxVersion
    /\ floor \in 0..data
    /\ store \in [Paths -> Body \cup {None}]
    /\ write \in [Writers -> C!Entry \cup {None}]
    /\ phase \in [Requests -> {"idle", "routing", "lookup", "waiting"}]
    /\ asked \in [Requests -> Paths \cup {None}]
    /\ ctx \in [Requests -> Contexts \cup {None}]
    /\ answer \in [Requests -> Outcome \cup {None}]
    /\ route \in [Contexts -> Paths \cup {None}]
    /\ flight \in [Paths -> Leader \cup {None}]

Init ==
    /\ data = 0
    /\ floor = 0
    /\ C!LossyInit
    /\ phase = [r \in Requests |-> "idle"]
    /\ asked = [r \in Requests |-> None]
    /\ ctx = [r \in Requests |-> None]
    /\ answer = NoAnswer
    /\ route = [c \in Contexts |-> None]
    /\ flight = [p \in Paths |-> None]

-----------------------------------------------------------------------------
(* The router (chi) *)

\* A request comes in and takes a free context, which chi resets.
Arrive(r, p, c) ==
    /\ phase[r] = "idle"
    /\ \A q \in Requests : ctx[q] # c
    /\ phase' = [phase EXCEPT ![r] = "routing"]
    /\ asked' = [asked EXCEPT ![r] = p]
    /\ ctx' = [ctx EXCEPT ![r] = c]
    /\ route' = [route EXCEPT ![c] = None]
    /\ Silently
    /\ UNCHANGED <<data, floor, cacheVars, flight>>

\* The router matches the request and calls the middleware.
Match(r) ==
    /\ phase[r] = "routing"
    /\ route' = [route EXCEPT ![ctx[r]] = asked[r]]
    /\ phase' = [phase EXCEPT ![r] = "lookup"]
    /\ Silently
    /\ UNCHANGED <<data, floor, cacheVars, asked, ctx, flight>>

\* Requests return with the answers in the function out, and chi takes their
\* contexts back as they are.
Return(out) ==
    LET over(r) == r \in DOMAIN out IN
    /\ phase' = [r \in Requests |-> IF over(r) THEN "idle" ELSE phase[r]]
    /\ asked' = [r \in Requests |-> IF over(r) THEN None ELSE asked[r]]
    /\ ctx' = [r \in Requests |-> IF over(r) THEN None ELSE ctx[r]]
    /\ answer' = [r \in Requests |-> IF over(r) THEN out[r] ELSE None]

-----------------------------------------------------------------------------
(* The middleware: ResponseCache *)

\* The cache has the key: X-Cache HIT.
Hit(r) ==
    /\ phase[r] = "lookup"
    /\ store[asked[r]] # None
    /\ Return([q \in {r} |-> store[asked[q]]])
    /\ UNCHANGED <<data, floor, cacheVars, route, flight>>

\* It does not, or cannot say: start a leader, or join the one there is.
Miss(r) ==
    /\ phase[r] = "lookup"
    /\ phase' = [phase EXCEPT ![r] = "waiting"]
    /\ LET k == asked[r] IN
       flight' = [flight EXCEPT ![k] =
           IF flight[k] = None
           THEN [step |-> "spawned", ctx |-> ctx[r], target |-> None,
                 result |-> None, followers |-> {r}]
           ELSE [flight[k] EXCEPT !.followers = @ \cup {r}]]
    /\ Silently
    /\ UNCHANGED <<data, floor, cacheVars, asked, ctx, route>>

\* Mutant of Leave: the leader runs under the context of a request, and ends
\* with it.
LeaveWithLeader(r) ==
    /\ phase[r] = "waiting"
    /\ flight' = [flight EXCEPT ![asked[r]] = None]
    /\ Return([q \in {r} |-> [out |-> "gone"]])
    /\ UNCHANGED <<data, floor, cacheVars, route>>

\* The client of a follower disconnects, or its 30 seconds are over.
Leave(r) ==
    /\ phase[r] = "waiting"
    /\ LET f == flight[asked[r]] IN
       PromptDispatch => ~(f.step = "spawned" /\ f.ctx = ctx[r])
    /\ flight' = [flight EXCEPT ![asked[r]].followers = @ \ {r}]
    /\ Return([q \in {r} |-> [out |-> "gone"]])
    /\ UNCHANGED <<data, floor, cacheVars, route>>

-----------------------------------------------------------------------------
(* The leader: capture, on behalf of key k *)

At(k, step) == flight[k] # None /\ flight[k].step = step

Ready(k, result) ==
    /\ flight' = [flight EXCEPT ![k].step = "ready", ![k].result = result]
    /\ Silently
    /\ UNCHANGED <<data, floor, cacheVars, reqVars>>

\* The leader runs the rest of the handler chain: which handler, and with
\* which parameters, is read from the route context now.
Dispatch(k) ==
    /\ At(k, "spawned")
    /\ LET p == route[flight[k].ctx] IN
       \/ /\ p \in Known
          /\ flight' = [flight EXCEPT ![k].step = "running", ![k].target = p]
          /\ Silently
          /\ UNCHANGED <<data, floor, cacheVars, reqVars>>
       \/ /\ p \notin Known
          /\ Ready(k, [out |-> "notfound"])

\* The service reads the database.
Load(k) ==
    /\ At(k, "running")
    /\ Ready(k, [out |-> "body", path |-> flight[k].target, version |-> data])

\* The database fails, or the leader's own 30 seconds run out.
LoadFails(k) == At(k, "running") /\ Ready(k, [out |-> "failed"])

\* writeJSON could not encode the response: status 200, no valid JSON.
LoadBroken(k) == At(k, "running") /\ Ready(k, [out |-> "broken"])

\* Mutant of Cacheable: status 200, and the JSON is not looked at.
CacheableUnparsed(result) == result \in Body \cup [out : {"broken"}]

\* Status 200 and valid JSON.
Cacheable(result) == result \in Body

\* Mutant of Finish: the key is computed from the route when the leader ends.
FinishUnderRoute(k) ==
    /\ At(k, "ready")
    /\ LET f == flight[k] IN
       /\ \/ /\ Cacheable(f.result)
             /\ \E w \in Writers : C!Accept(w, route[f.ctx], f.result)
          \/ UNCHANGED cacheVars
       /\ Return([r \in f.followers |-> f.result])
    /\ flight' = [flight EXCEPT ![k] = None]
    /\ UNCHANGED <<data, floor, route>>

\* Mutant of Finish: the result goes to the request that started the leader
\* alone, and the call stays registered.
FinishForOne(k) ==
    /\ At(k, "ready")
    /\ LET f == flight[k] IN
       /\ \/ Cacheable(f.result) /\ \E w \in Writers : C!Accept(w, k, f.result)
          \/ UNCHANGED cacheVars
       /\ Return([r \in {r \in f.followers : ctx[r] = f.ctx} |-> f.result])
    /\ flight' = [flight EXCEPT ![k].followers = {}]
    /\ UNCHANGED <<data, floor, route>>

\* capture stores what may be stored (or Set drops it), and singleflight
\* forgets the key and hands the result to the followers that are left.
Finish(k) ==
    /\ At(k, "ready")
    /\ LET f == flight[k] IN
       /\ \/ Cacheable(f.result) /\ \E w \in Writers : C!Accept(w, k, f.result)
          \/ UNCHANGED cacheVars
       /\ Return([r \in f.followers |-> f.result])
    /\ flight' = [flight EXCEPT ![k] = None]
    /\ UNCHANGED <<data, floor, route>>

-----------------------------------------------------------------------------
(* The rest of the world *)

\* The pipeline changes the data.
Publish ==
    /\ data < MaxVersion
    /\ data' = data + 1
    /\ Silently
    /\ UNCHANGED <<floor, cacheVars, reqVars, flight>>

\* Nothing that was read from the database is still on its way to Redis or
\* to a client.
Quiet ==
    /\ \A k \in Paths : ~At(k, "ready")
    /\ \A w \in Writers : write[w] = None

\* make cache-flush.
Flush ==
    /\ C!Forget(Paths)
    /\ floor' = IF Quiet THEN data ELSE floor
    /\ Silently
    /\ UNCHANGED <<data, reqVars, flight>>

\* Redis applies or loses a write, or an entry expires.
RedisActs ==
    /\ \/ \E w \in Writers : C!Land(w) \/ C!Lose(w)
       \/ \E k \in Paths : C!Forget({k})
    /\ Silently
    /\ UNCHANGED <<data, floor, reqVars, flight>>

\* The API process dies (a panic in a leader is not recovered) and is started
\* again.  Commands it had sent may still reach Redis.
Restart ==
    /\ Return([q \in {r \in Requests : phase[r] # "idle"} |-> [out |-> "gone"]])
    /\ route' = [c \in Contexts |-> None]
    /\ flight' = [k \in Paths |-> None]
    /\ UNCHANGED <<data, floor, cacheVars>>

-----------------------------------------------------------------------------

Next ==
    \/ \E r \in Requests, p \in Paths, c \in Contexts : Arrive(r, p, c)
    \/ \E r \in Requests : Match(r) \/ Hit(r) \/ Miss(r) \/ Leave(r)
    \/ \E k \in Paths : Dispatch(k) \/ Load(k) \/ LoadFails(k)
                            \/ LoadBroken(k) \/ Finish(k)
    \/ Publish
    \/ Flush
    \/ RedisActs
    \/ Restart

Spec == Init /\ [][Next]_vars

\* Goroutines run, and the leader's handler ends because its context has a
\* deadline.  Nothing is assumed of clients, of Redis or of the pipeline.
Fairness ==
    /\ \A r \in Requests : WF_vars(Match(r)) /\ WF_vars(Hit(r) \/ Miss(r))
    /\ \A k \in Paths : /\ WF_vars(Dispatch(k))
                        /\ WF_vars(Load(k) \/ LoadFails(k) \/ LoadBroken(k))
                        /\ WF_vars(Finish(k))

FairSpec == Spec /\ Fairness

-----------------------------------------------------------------------------
(* Properties *)

\* routes.go:37 - a cache keyed on the path is correct: what is stored under
\* a key, and what is on its way there, is a complete body of that key.
StoreSound ==
    /\ \A k \in Paths : store[k] # None => store[k] \in Body /\ store[k].path = k
    /\ \A w \in Writers : write[w] # None
          => write[w].body \in Body /\ write[w].body.path = write[w].key

\* responsecache.go:99-102 - a follower keeps the leader it waits for, whoever
\* else leaves: there is one, and it will answer this request.
NoFollowerLost ==
    \A r \in Requests : phase[r] = "waiting"
        => flight[asked[r]] # None /\ r \in flight[asked[r]].followers

\* The cache is invisible to clients, but for answers as old as the last
\* flush that found nothing under way.
P == INSTANCE Proxy

ImplementsProxy == P!Spec

\* Every request comes to an end, answered or gone.
EveryRequestEnds ==
    \A r \in Requests : phase[r] # "idle" ~> phase[r] = "idle"

=============================================================================
