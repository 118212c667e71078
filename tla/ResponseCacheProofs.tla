------------------------ MODULE ResponseCacheProofs ------------------------
(***************************************************************************)
(* What holds of the response cache for every number of requests, paths,   *)
(* contexts, writers and changes of the data.                               *)
(***************************************************************************)
EXTENDS ResponseCache, TLAPS

USE ResponseCacheAssumption, NoneAssumption
    DEF ResponseCacheAssumption, NoneAssumption, cacheVars, reqVars, Silently

\* A request that is being served asks for a path in a context of its own,
\* and a handler that runs is one for a path there is.
Present ==
    /\ \A r \in Requests : IF phase[r] = "idle" THEN asked[r] = None
                         ELSE asked[r] \in Paths /\ ctx[r] \in Contexts
    /\ \A r, q \in Requests : ctx[r] \in Contexts /\ ctx[r] = ctx[q] => r = q

Targeted == \A k \in Paths : At(k, "running") => flight[k].target \in Known

\* The followers of a leader wait for it, and for no other; who waits has one.
Joined ==
    \A k \in Paths : flight[k] # None =>
        \A r \in flight[k].followers : phase[r] = "waiting" /\ asked[r] = k
Follows == Joined /\ NoFollowerLost

Consistent == TypeOK /\ Present /\ Targeted /\ Follows

LEMMA InitTypes == Init => TypeOK
BY DEF Init, TypeOK, C!LossyInit, NoAnswer

\* Who returns gets an outcome, whoever else stays where it is.
LEMMA ReturnTypes ==
    ASSUME TypeOK, NEW out, Return(out),
           \A r \in DOMAIN out : out[r] \in Outcome
    PROVE  /\ phase' \in [Requests -> {"idle", "routing", "lookup", "waiting"}]
           /\ asked' \in [Requests -> Paths \cup {None}]
           /\ ctx' \in [Requests -> Contexts \cup {None}]
           /\ answer' \in [Requests -> Outcome \cup {None}]
BY DEF TypeOK, Return

LEMMA AcceptTypes ==
    ASSUME TypeOK, NEW w \in Writers, NEW k \in Paths, NEW b \in Body,
           C!Accept(w, k, b)
    PROVE  /\ write' \in [Writers -> C!Entry \cup {None}]
           /\ store' \in [Paths -> Body \cup {None}]
BY DEF TypeOK, C!Accept, C!Entry

-----------------------------------------------------------------------------
(* The ways a flight changes. Each returns the flights of the other keys as  *)
(* they were, and what the leader of key k has become.                       *)

Flights == [Paths -> Leader \cup {None}]
Others(k) == \A p \in Paths \ {k} : flight'[p] = flight[p]

LEMMA FlightReady ==
    ASSUME flight \in Flights, NEW k \in Paths, flight[k] # None, NEW result \in Outcome,
           flight' = [flight EXCEPT ![k].step = "ready", ![k].result = result]
    PROVE  /\ flight' \in Flights /\ Others(k)
           /\ flight'[k] # None /\ flight'[k].step = "ready" /\ flight'[k].result = result
           /\ flight'[k].followers = flight[k].followers
BY DEF Flights, Others, Leader

LEMMA FlightRuns ==
    ASSUME flight \in Flights, NEW k \in Paths, flight[k] # None, NEW p \in Paths,
           flight' = [flight EXCEPT ![k].step = "running", ![k].target = p]
    PROVE  /\ flight' \in Flights /\ Others(k)
           /\ flight'[k] # None /\ flight'[k].step = "running" /\ flight'[k].target = p
           /\ flight'[k].followers = flight[k].followers
BY DEF Flights, Others, Leader

LEMMA FlightLeft ==
    ASSUME flight \in Flights, NEW k \in Paths, flight[k] # None, NEW r,
           flight' = [flight EXCEPT ![k].followers = @ \ {r}]
    PROVE  /\ flight' \in Flights /\ Others(k)
           /\ flight'[k] # None /\ flight'[k].followers = flight[k].followers \ {r}
           /\ flight'[k].step = flight[k].step /\ flight'[k].ctx = flight[k].ctx
           /\ flight'[k].target = flight[k].target /\ flight'[k].result = flight[k].result
BY DEF Flights, Others, Leader

LEMMA FlightJoined ==
    ASSUME flight \in Flights, NEW k \in Paths, flight[k] # None, NEW r \in Requests,
           flight' = [flight EXCEPT ![k] = [flight[k] EXCEPT !.followers = @ \cup {r}]]
    PROVE  /\ flight' \in Flights /\ Others(k)
           /\ flight'[k] # None /\ flight'[k].followers = flight[k].followers \cup {r}
           /\ flight'[k].step = flight[k].step /\ flight'[k].ctx = flight[k].ctx
           /\ flight'[k].target = flight[k].target /\ flight'[k].result = flight[k].result
BY DEF Flights, Others, Leader

LEMMA FlightStarts ==
    ASSUME flight \in Flights, NEW k \in Paths, NEW r \in Requests, NEW c \in Contexts,
           flight' = [flight EXCEPT ![k] = [step |-> "spawned", ctx |-> c, target |-> None,
                                        result |-> None, followers |-> {r}]]
    PROVE  /\ flight' \in Flights /\ Others(k)
           /\ flight'[k] # None /\ flight'[k].step = "spawned" /\ flight'[k].ctx = c
           /\ flight'[k].followers = {r}
BY DEF Flights, Others, Leader

LEMMA FlightEnds ==
    ASSUME flight \in Flights, NEW k \in Paths, flight' = [flight EXCEPT ![k] = None]
    PROVE  flight' \in Flights /\ Others(k) /\ flight'[k] = None
BY DEF Flights, Others

\* What the steps of a leader and its requests do to the flights.
LEMMA MissFlight ==
    ASSUME TypeOK, Present, NEW r \in Requests, Miss(r)
    PROVE  LET k == asked[r] IN
           /\ k \in Paths /\ flight' \in Flights /\ Others(k)
           /\ flight'[k] # None
           /\ IF flight[k] = None
              THEN /\ flight'[k].step = "spawned" /\ flight'[k].ctx = ctx[r]
                   /\ flight'[k].followers = {r}
              ELSE /\ flight'[k].followers = flight[k].followers \cup {r}
                   /\ flight'[k].step = flight[k].step /\ flight'[k].ctx = flight[k].ctx
                   /\ flight'[k].target = flight[k].target
                   /\ flight'[k].result = flight[k].result
<1> DEFINE k == asked[r]
<1>1. k \in Paths /\ ctx[r] \in Contexts /\ flight \in Flights
    BY DEF TypeOK, Present, Miss, Flights
<1>2. CASE flight[k] = None
    <2>1. flight' = [flight EXCEPT ![k] =
              [step |-> "spawned", ctx |-> ctx[r], target |-> None,
               result |-> None, followers |-> {r}]]
        BY <1>2 DEF Miss
    <2> HIDE DEF k
    <2>2. /\ flight' \in Flights /\ Others(k)
          /\ flight'[k] # None /\ flight'[k].step = "spawned"
          /\ flight'[k].ctx = ctx[r] /\ flight'[k].followers = {r}
        BY <1>1, <2>1, FlightStarts
    <2> QED BY <1>1, <1>2, <2>2 DEF k
<1>3. CASE flight[k] # None
    <2>1. flight' = [flight EXCEPT ![k] = [flight[k] EXCEPT !.followers = @ \cup {r}]]
        BY <1>3, Zenon DEF Miss
    <2> HIDE DEF k
    <2>2. /\ flight' \in Flights /\ Others(k)
          /\ flight'[k] # None /\ flight'[k].followers = flight[k].followers \cup {r}
          /\ flight'[k].step = flight[k].step /\ flight'[k].ctx = flight[k].ctx
          /\ flight'[k].target = flight[k].target /\ flight'[k].result = flight[k].result
        BY <1>1, <1>3, <2>1, FlightJoined
    <2> QED BY <1>1, <1>3, <2>2 DEF k
<1> QED BY <1>2, <1>3

LEMMA LeaveFlight ==
    ASSUME TypeOK, Present, NoFollowerLost, NEW r \in Requests, Leave(r)
    PROVE  LET k == asked[r] IN
           /\ k \in Paths /\ flight' \in Flights /\ Others(k)
           /\ flight[k] # None /\ flight'[k] # None
           /\ flight'[k].followers = flight[k].followers \ {r}
           /\ flight'[k].step = flight[k].step /\ flight'[k].ctx = flight[k].ctx
           /\ flight'[k].target = flight[k].target /\ flight'[k].result = flight[k].result
<1> DEFINE k == asked[r]
<1>1. k \in Paths /\ flight[k] # None /\ flight \in Flights
    BY DEF TypeOK, Present, NoFollowerLost, Leave, Flights
<1>2. flight' = [flight EXCEPT ![k].followers = @ \ {r}]
    BY Zenon DEF Leave
<1> HIDE DEF k
<1>3. /\ flight' \in Flights /\ Others(k)
      /\ flight'[k] # None /\ flight'[k].followers = flight[k].followers \ {r}
      /\ flight'[k].step = flight[k].step /\ flight'[k].ctx = flight[k].ctx
      /\ flight'[k].target = flight[k].target /\ flight'[k].result = flight[k].result
    BY <1>1, <1>2, FlightLeft
<1> QED BY <1>1, <1>3 DEF k

\* The results of the steps that make a leader ready.
Result(k) ==
    {[out |-> "body", path |-> flight[k].target, version |-> data],
     [out |-> "failed"], [out |-> "broken"]}

LEMMA LeaderFlight ==
    ASSUME TypeOK, Targeted, NEW k \in Paths,
           Dispatch(k) \/ Load(k) \/ LoadFails(k) \/ LoadBroken(k)
    PROVE  /\ flight' \in Flights /\ Others(k)
           /\ flight[k] # None /\ flight'[k] # None
           /\ flight'[k].followers = flight[k].followers
           /\ \/ /\ At(k, "spawned") /\ route[flight[k].ctx] \in Known
                 /\ flight'[k].step = "running" /\ flight'[k].target = route[flight[k].ctx]
              \/ /\ At(k, "spawned") /\ route[flight[k].ctx] \notin Known
                 /\ flight'[k].step = "ready" /\ flight'[k].result = [out |-> "notfound"]
              \/ /\ At(k, "running")
                 /\ flight'[k].step = "ready" /\ flight'[k].result \in Result(k)
<1>1. flight \in Flights /\ flight[k] # None
    BY DEF TypeOK, Flights, Dispatch, Load, LoadFails, LoadBroken, At
<1>2. ASSUME NEW result \in Outcome, Ready(k, result)
      PROVE  /\ flight' \in Flights /\ Others(k)
             /\ flight'[k] # None /\ flight'[k].followers = flight[k].followers
             /\ flight'[k].step = "ready" /\ flight'[k].result = result
    <2>1. flight' = [flight EXCEPT ![k].step = "ready", ![k].result = result]
        BY <1>2, Zenon DEF Ready
    <2> QED BY <1>1, <2>1, FlightReady
<1>3. CASE Dispatch(k) /\ route[flight[k].ctx] \in Known
    <2> DEFINE p == route[flight[k].ctx]
    <2>1. p \in Paths /\ flight' = [flight EXCEPT ![k].step = "running", ![k].target = p]
        BY <1>3, Zenon DEF Dispatch
    <2> HIDE DEF p
    <2>2. /\ flight' \in Flights /\ Others(k)
          /\ flight'[k] # None /\ flight'[k].step = "running" /\ flight'[k].target = p
          /\ flight'[k].followers = flight[k].followers
        BY <1>1, <2>1, FlightRuns
    <2> QED BY <1>1, <1>3, <2>2 DEF Dispatch, p
<1>4. CASE Dispatch(k) /\ route[flight[k].ctx] \notin Known
    <2>1. [out |-> "notfound"] \in Outcome /\ Ready(k, [out |-> "notfound"])
        BY <1>4 DEF Dispatch, Outcome
    <2> QED BY <1>1, <1>2, <1>4, <2>1 DEF Dispatch
<1>5. CASE Load(k) \/ LoadFails(k) \/ LoadBroken(k)
    <2>1. At(k, "running") /\ Result(k) \subseteq Outcome
        <3>1. At(k, "running")
            BY <1>5 DEF Load, LoadFails, LoadBroken
        <3>2. flight[k].target \in Paths /\ data \in 0..MaxVersion
            BY <3>1 DEF TypeOK, Targeted
        <3>3. [out |-> "body", path |-> flight[k].target, version |-> data] \in Body
            BY <3>2 DEF Body
        <3> QED BY <3>1, <3>3 DEF Result, Outcome
    <2>2. \E result \in Result(k) : Ready(k, result)
        BY <1>5 DEF Load, LoadFails, LoadBroken, Result
    <2> QED BY <1>1, <1>2, <2>1, <2>2
<1> QED BY <1>3, <1>4, <1>5

-----------------------------------------------------------------------------
(* Types, contexts, followers                                               *)

LEMMA StepTypes == Consistent /\ [Next]_vars => TypeOK'
<1> SUFFICES ASSUME Consistent, [Next]_vars PROVE TypeOK'
    OBVIOUS
<1> USE DEF Consistent, Follows
<1>1. ASSUME NEW r \in Requests, NEW p \in Paths, NEW c \in Contexts, Arrive(r, p, c)
      PROVE  TypeOK'
    BY <1>1 DEF TypeOK, Arrive, NoAnswer
<1>2. ASSUME NEW r \in Requests, Match(r) PROVE TypeOK'
    BY <1>2 DEF TypeOK, Present, Match, NoAnswer
<1>3. ASSUME NEW r \in Requests, Hit(r) PROVE TypeOK'
    <2>1. asked[r] \in Paths \cup {None} /\ store[asked[r]] \in Body
        BY <1>3 DEF TypeOK, Present, Hit
    <2> QED BY <1>3, <2>1, ReturnTypes DEF TypeOK, Hit, Outcome
<1>4. ASSUME NEW r \in Requests, Miss(r) PROVE TypeOK'
    <2>1. flight' \in Flights
        BY <1>4, MissFlight
    <2> QED BY <1>4, <2>1 DEF TypeOK, Miss, NoAnswer, Flights
<1>5. ASSUME NEW r \in Requests, Leave(r) PROVE TypeOK'
    <2>1. flight' \in Flights
        BY <1>5, LeaveFlight
    <2>2. Return([q \in {r} |-> [out |-> "gone"]])
        BY <1>5 DEF Leave
    <2> QED BY <1>5, <2>1, <2>2, ReturnTypes DEF TypeOK, Leave, Flights, Outcome
<1>6. ASSUME NEW k \in Paths, Dispatch(k) \/ Load(k) \/ LoadFails(k) \/ LoadBroken(k)
      PROVE  TypeOK'
    <2>1. flight' \in Flights
        BY <1>6, LeaderFlight
    <2>2. /\ answer' = NoAnswer
          /\ UNCHANGED <<data, floor, cacheVars, reqVars>>
        BY <1>6 DEF Dispatch, Load, LoadFails, LoadBroken, Ready
    <2> QED BY <2>1, <2>2 DEF TypeOK, NoAnswer, Flights
<1>7. ASSUME NEW k \in Paths, Finish(k) PROVE TypeOK'
    <2> DEFINE f == flight[k]
    <2>1. f \in Leader /\ flight' \in Flights
        BY <1>7, FlightEnds DEF TypeOK, Finish, At, Flights
    <2>2. /\ write' \in [Writers -> C!Entry \cup {None}]
          /\ store' \in [Paths -> Body \cup {None}]
        BY <1>7, AcceptTypes DEF TypeOK, Finish, Cacheable
    <2>3. Return([r \in f.followers |-> f.result]) /\ f.result \in Outcome \cup {None}
        BY <1>7, <2>1 DEF Finish, Leader
    <2>4. /\ phase' \in [Requests -> {"idle", "routing", "lookup", "waiting"}]
          /\ asked' \in [Requests -> Paths \cup {None}]
          /\ ctx' \in [Requests -> Contexts \cup {None}]
          /\ answer' \in [Requests -> Outcome \cup {None}]
        BY <2>3 DEF TypeOK, Return
    <2> QED BY <1>7, <2>1, <2>2, <2>4 DEF TypeOK, Finish, Flights
<1>8. CASE Publish
    BY <1>8 DEF TypeOK, Publish, NoAnswer
<1>9. CASE Flush
    BY <1>9 DEF TypeOK, Flush, C!Forget, NoAnswer
<1>10. CASE RedisActs
    BY <1>10 DEF TypeOK, RedisActs, C!Forget, C!Land, C!Lose, C!Entry, NoAnswer
<1>11. CASE Restart
    BY <1>11, ReturnTypes DEF TypeOK, Restart, Outcome
<1>12. CASE UNCHANGED vars
    BY <1>12 DEF TypeOK, vars
<1> QED BY <1>1, <1>2, <1>3, <1>4, <1>5, <1>6, <1>7, <1>8, <1>9, <1>10, <1>11, <1>12
        DEF Next

LEMMA ReturnPresent ==
    ASSUME TypeOK, Present, NEW out, Return(out) PROVE Present'
BY DEF TypeOK, Present, Return

LEMMA StepPresent == TypeOK /\ Present /\ [Next]_vars => Present'
<1> SUFFICES ASSUME TypeOK, Present, [Next]_vars PROVE Present'
    OBVIOUS
<1>1. ASSUME NEW r \in Requests, NEW p \in Paths, NEW c \in Contexts, Arrive(r, p, c)
      PROVE  Present'
    BY <1>1 DEF TypeOK, Present, Arrive
<1>2. ASSUME NEW r \in Requests, Match(r) \/ Miss(r) PROVE Present'
    BY <1>2 DEF TypeOK, Present, Match, Miss
<1>3. ASSUME NEW r \in Requests, Hit(r) \/ Leave(r) PROVE Present'
    BY <1>3, ReturnPresent DEF Hit, Leave
<1>4. ASSUME NEW k \in Paths, Dispatch(k) \/ Load(k) \/ LoadFails(k) \/ LoadBroken(k)
      PROVE  Present'
    BY <1>4 DEF Present, Dispatch, Load, LoadFails, LoadBroken, Ready
<1>5. ASSUME NEW k \in Paths, Finish(k) PROVE Present'
    BY <1>5, ReturnPresent DEF Finish
<1>6. CASE Publish \/ Flush \/ RedisActs \/ UNCHANGED vars
    BY <1>6 DEF Present, Publish, Flush, RedisActs, vars
<1>7. CASE Restart
    BY <1>7, ReturnPresent DEF Restart
<1> QED BY <1>1, <1>2, <1>3, <1>4, <1>5, <1>6, <1>7 DEF Next

LEMMA StepTargeted == Consistent /\ [Next]_vars => Targeted'
<1> SUFFICES ASSUME Consistent, [Next]_vars PROVE Targeted'
    OBVIOUS
<1> USE DEF Consistent, Follows, Targeted, At
<1>1. ASSUME NEW r \in Requests, Miss(r) PROVE Targeted'
    BY <1>1, MissFlight DEF Others
<1>2. ASSUME NEW r \in Requests, Leave(r) PROVE Targeted'
    BY <1>2, LeaveFlight DEF Others
<1>3. ASSUME NEW k \in Paths, Dispatch(k) \/ Load(k) \/ LoadFails(k) \/ LoadBroken(k)
      PROVE  Targeted'
    BY <1>3, LeaderFlight DEF Others
<1>4. ASSUME NEW k \in Paths, Finish(k) PROVE Targeted'
    BY <1>4, FlightEnds DEF TypeOK, Finish, Flights, Others
<1>5. CASE Restart
    BY <1>5 DEF Restart
<1>6. CASE UNCHANGED flight
    BY <1>6
<1>7. ASSUME NEW r \in Requests, NEW p \in Paths, NEW c \in Contexts,
             Arrive(r, p, c) \/ Match(r) \/ Hit(r)
      PROVE  UNCHANGED flight
    BY <1>7 DEF Arrive, Match, Hit
<1>8. ASSUME Publish \/ Flush \/ RedisActs \/ UNCHANGED vars PROVE UNCHANGED flight
    BY <1>8 DEF Publish, Flush, RedisActs, vars
<1> QED BY <1>1, <1>2, <1>3, <1>4, <1>5, <1>6, <1>7, <1>8 DEF Next, Arrive, Match, Hit

LEMMA StepFollows == Consistent /\ [Next]_vars => Follows'
<1> SUFFICES ASSUME Consistent, [Next]_vars PROVE Follows'
    OBVIOUS
<1> USE DEF Consistent, Follows, Joined, NoFollowerLost
<1>1. ASSUME NEW r \in Requests, NEW p \in Paths, NEW c \in Contexts, Arrive(r, p, c)
      PROVE  Follows'
    BY <1>1 DEF TypeOK, Arrive, Leader
<1>2. ASSUME NEW r \in Requests, Match(r) PROVE Follows'
    BY <1>2 DEF TypeOK, Match, Leader
<1>3. ASSUME NEW r \in Requests, Hit(r) PROVE Follows'
    BY <1>3 DEF TypeOK, Hit, Return, Leader
<1>4. ASSUME NEW r \in Requests, Miss(r) PROVE Follows'
    <2> DEFINE k == asked[r]
    <2>1. /\ k \in Paths /\ \A p \in Paths \ {k} : flight'[p] = flight[p]
          /\ flight'[k] # None
          /\ flight'[k].followers =
                 {r} \cup (IF flight[k] = None THEN {} ELSE flight[k].followers)
        BY <1>4, MissFlight DEF Others
    <2>2. phase' = [phase EXCEPT ![r] = "waiting"] /\ asked' = asked
        BY <1>4 DEF Miss
    <2> QED BY <1>4, <2>1, <2>2 DEF TypeOK, Present, Leader, Miss
<1>5. ASSUME NEW r \in Requests, Leave(r) PROVE Follows'
    <2> DEFINE k == asked[r]
    <2>1. /\ k \in Paths /\ \A p \in Paths \ {k} : flight'[p] = flight[p]
          /\ flight[k] # None /\ flight'[k] # None
          /\ flight'[k].followers = flight[k].followers \ {r}
        BY <1>5, LeaveFlight DEF Others
    <2>2. /\ \A q \in Requests \ {r} : phase'[q] = phase[q] /\ asked'[q] = asked[q]
          /\ phase'[r] = "idle"
        BY <1>5 DEF Leave, Return
    <2>3. \A p \in Paths : flight[p] # None => flight[p].followers \subseteq Requests
        BY DEF TypeOK, Leader
    <2>4. Joined'
        BY <2>1, <2>2, <2>3
    <2>5. NoFollowerLost'
        BY <2>1, <2>2 DEF TypeOK, Present
    <2> QED BY <2>4, <2>5
<1>6. ASSUME NEW k \in Paths, Dispatch(k) \/ Load(k) \/ LoadFails(k) \/ LoadBroken(k)
      PROVE  Follows'
    <2>1. phase' = phase /\ asked' = asked
        BY <1>6 DEF Dispatch, Load, LoadFails, LoadBroken, Ready
    <2>2. /\ \A p \in Paths \ {k} : flight'[p] = flight[p]
          /\ flight[k] # None /\ flight'[k] # None
          /\ flight'[k].followers = flight[k].followers
        BY <1>6, LeaderFlight DEF Others
    <2>3. Joined'
        BY <2>1, <2>2
    <2>4. NoFollowerLost'
        BY <2>1, <2>2 DEF Present
    <2> QED BY <2>3, <2>4
<1>7. ASSUME NEW k \in Paths, Finish(k) PROVE Follows'
    <2>1. /\ flight' = [flight EXCEPT ![k] = None]
          /\ flight[k] # None
          /\ \A r \in Requests : IF r \in flight[k].followers THEN phase'[r] = "idle"
                                 ELSE phase'[r] = phase[r] /\ asked'[r] = asked[r]
        BY <1>7 DEF Finish, Return, At
    <2> QED BY <2>1 DEF TypeOK, Present, Leader
<1>8. CASE Publish \/ Flush \/ RedisActs \/ UNCHANGED vars
    BY <1>8 DEF Publish, Flush, RedisActs, vars
<1>9. CASE Restart
    BY <1>9 DEF TypeOK, Restart, Return
<1> QED BY <1>1, <1>2, <1>3, <1>4, <1>5, <1>6, <1>7, <1>8, <1>9 DEF Next

LEMMA InitConsistent == Init => Consistent
<1>1. Init => Present /\ Targeted /\ Follows
    BY DEF Init, Present, Targeted, At, Follows, Joined, NoFollowerLost
<1> QED BY <1>1, InitTypes DEF Consistent

LEMMA StepConsistent == Consistent /\ [Next]_vars => Consistent'
BY StepTypes, StepPresent, StepTargeted, StepFollows DEF Consistent

\* Types of requests, contexts, leaders, writes and what Redis holds.
THEOREM TypeCorrect == Spec => []TypeOK
<1>1. Consistent => TypeOK
    BY DEF Consistent
<1> QED BY <1>1, InitConsistent, StepConsistent, PTL DEF Spec

\* Whoever waits has a leader that will answer it, however requests join, leave
\* and come back, and whenever leaders route.
THEOREM NoneLost == Spec => []NoFollowerLost
<1>1. Consistent => NoFollowerLost
    BY DEF Consistent, Follows
<1> QED BY <1>1, InitConsistent, StepConsistent, PTL DEF Spec

-----------------------------------------------------------------------------
(* Leaders that route before the request that started them returns          *)

\* A context holds the path of the request that has borrowed it, and the one
\* a leader is about to read is still borrowed, by a request for its key.
Routed ==
    /\ \A r \in Requests : phase[r] \in {"lookup", "waiting"} => route[ctx[r]] = asked[r]
    /\ \A k \in Paths : At(k, "spawned") =>
          \E r \in Requests : /\ phase[r] = "waiting" /\ asked[r] = k
                              /\ ctx[r] = flight[k].ctx

Ours == \A k \in Paths : At(k, "running") => flight[k].target = k

LEMMA SpawnedOurs ==
    ASSUME Routed, NEW k \in Paths, At(k, "spawned")
    PROVE  route[flight[k].ctx] = k
BY DEF Routed

\* Everything stored, on its way there, or ready for the followers of a key may
\* still be answered to a request for that key.
StoredFit == \A k \in Paths : store[k] # None => store[k] \in P!Fitting(k)
WrittenFit == \A w \in Writers : write[w] # None => write[w].body \in P!Fitting(write[w].key)
ReadyFit == \A k \in Paths : At(k, "ready") => flight[k].result \in P!Fitting(k)
Fit == StoredFit /\ WrittenFit /\ ReadyFit

Undisturbed == Consistent /\ Routed /\ Ours /\ Fit

LEMMA StepRouted == PromptDispatch /\ Consistent /\ Routed /\ [Next]_vars => Routed'
<1> SUFFICES ASSUME PromptDispatch, Consistent, Routed, [Next]_vars PROVE Routed'
    OBVIOUS
<1> USE DEF Consistent, Follows
<1>1. ASSUME NEW r \in Requests, NEW p \in Paths, NEW c \in Contexts, Arrive(r, p, c)
      PROVE  Routed'
    BY <1>1 DEF TypeOK, Present, Routed, Arrive, At
<1>2. ASSUME NEW r \in Requests, Match(r) PROVE Routed'
    BY <1>2 DEF TypeOK, Present, Routed, Match, At
<1>3. ASSUME NEW r \in Requests, Hit(r) PROVE Routed'
    BY <1>3 DEF TypeOK, Present, Routed, Hit, Return, At
<1>4. ASSUME NEW r \in Requests, Miss(r) PROVE Routed'
    <2> DEFINE k == asked[r]
    <2>1. /\ phase' = [phase EXCEPT ![r] = "waiting"] /\ phase[r] = "lookup"
          /\ UNCHANGED <<asked, ctx, route>>
        BY <1>4 DEF Miss
    <2>2. \A q \in Requests : phase'[q] \in {"lookup", "waiting"} => route'[ctx'[q]] = asked'[q]
        BY <2>1 DEF TypeOK, Routed
    <2>3. /\ k \in Paths /\ \A p \in Paths \ {k} : flight'[p] = flight[p]
          /\ IF flight[k] = None THEN flight'[k].ctx = ctx[r]
             ELSE flight'[k].step = flight[k].step /\ flight'[k].ctx = flight[k].ctx
        BY <1>4, MissFlight DEF Others
    <2>4. ASSUME NEW p \in Paths, At(p, "spawned")'
          PROVE  \E q \in Requests : /\ phase'[q] = "waiting" /\ asked'[q] = p
                                     /\ ctx'[q] = flight'[p].ctx
        <3>1. CASE p = k /\ flight[k] = None
            BY <2>1, <2>3, <3>1 DEF TypeOK
        <3>2. CASE ~(p = k /\ flight[k] = None)
            <4>1. At(p, "spawned") /\ flight'[p].ctx = flight[p].ctx
                BY <2>3, <2>4, <3>2 DEF At
            <4> QED BY <2>1, <4>1 DEF TypeOK, Routed
        <3> QED BY <3>1, <3>2
    <2> QED BY <2>2, <2>4 DEF Routed
<1>5. ASSUME NEW r \in Requests, Leave(r) PROVE Routed'
    <2> DEFINE k == asked[r]
    <2>1. /\ phase[r] = "waiting" /\ ~(flight[k].step = "spawned" /\ flight[k].ctx = ctx[r])
          /\ route' = route
          /\ phase'[r] = "idle"
          /\ \A q \in Requests \ {r} : /\ phase'[q] = phase[q] /\ asked'[q] = asked[q]
                                       /\ ctx'[q] = ctx[q]
        BY <1>5 DEF Leave, Return
    <2>2. /\ \A p \in Paths \ {k} : flight'[p] = flight[p]
          /\ flight[k] # None
          /\ flight'[k].step = flight[k].step /\ flight'[k].ctx = flight[k].ctx
        BY <1>5, LeaveFlight DEF Others
    <2>3. ASSUME NEW p \in Paths, At(p, "spawned")'
          PROVE  \E q \in Requests : /\ phase'[q] = "waiting" /\ asked'[q] = p
                                     /\ ctx'[q] = flight'[p].ctx
        <3>1. At(p, "spawned") /\ flight'[p].ctx = flight[p].ctx
            BY <2>2, <2>3 DEF At
        <3>2. PICK q \in Requests : phase[q] = "waiting" /\ asked[q] = p /\ ctx[q] = flight[p].ctx
            BY <3>1 DEF Routed
        <3>3. q # r
            BY <2>1, <3>1, <3>2 DEF At
        <3> QED BY <2>1, <3>1, <3>2, <3>3
    <2> QED BY <2>1, <2>3 DEF Routed
<1>6. ASSUME NEW k \in Paths, Dispatch(k) \/ Load(k) \/ LoadFails(k) \/ LoadBroken(k)
      PROVE  Routed'
    <2>1. UNCHANGED <<phase, asked, ctx, route>>
        BY <1>6 DEF Dispatch, Load, LoadFails, LoadBroken, Ready
    <2>2. /\ \A p \in Paths \ {k} : flight'[p] = flight[p]
          /\ flight'[k].step # "spawned"
        BY <1>6, LeaderFlight DEF Others
    <2> QED BY <2>1, <2>2 DEF Routed, At
<1>7. ASSUME NEW k \in Paths, Finish(k) PROVE Routed'
    <2>1. /\ flight[k] # None /\ flight[k].followers \subseteq Requests
          /\ flight'[k] = None /\ \A p \in Paths \ {k} : flight'[p] = flight[p]
        BY <1>7 DEF TypeOK, Leader, Finish, At
    <2>2. /\ route' = route
          /\ \A r \in Requests : IF r \in flight[k].followers THEN phase'[r] = "idle"
                                 ELSE /\ phase'[r] = phase[r] /\ asked'[r] = asked[r]
                                      /\ ctx'[r] = ctx[r]
        BY <1>7 DEF Finish, Return
    <2>3. \A r \in flight[k].followers : asked[r] = k
        BY <2>1 DEF Joined
    <2> QED BY <2>1, <2>2, <2>3 DEF Routed, At
<1>8. CASE Publish \/ Flush \/ RedisActs \/ UNCHANGED vars
    BY <1>8 DEF Publish, Flush, RedisActs, vars, Routed, At
<1>9. CASE Restart
    BY <1>9 DEF TypeOK, Restart, Return, Routed, At
<1> QED BY <1>1, <1>2, <1>3, <1>4, <1>5, <1>6, <1>7, <1>8, <1>9 DEF Next

LEMMA StepOurs == Consistent /\ Routed /\ Ours /\ [Next]_vars => Ours'
<1> SUFFICES ASSUME Consistent, Routed, Ours, [Next]_vars PROVE Ours'
    OBVIOUS
<1> USE DEF Consistent, Follows, Ours
<1>1. ASSUME NEW r \in Requests, Miss(r) PROVE Ours'
    BY <1>1, MissFlight DEF Others, At
<1>2. ASSUME NEW r \in Requests, Leave(r) PROVE Ours'
    BY <1>2, LeaveFlight DEF Others, At
<1>3. ASSUME NEW k \in Paths, Dispatch(k) \/ Load(k) \/ LoadFails(k) \/ LoadBroken(k)
      PROVE  Ours'
    BY <1>3, LeaderFlight, SpawnedOurs DEF Others, At
<1>4. ASSUME NEW k \in Paths, Finish(k) PROVE Ours'
    BY <1>4, FlightEnds DEF TypeOK, Finish, Flights, Others, At
<1>5. CASE Restart
    BY <1>5 DEF Restart, At
<1>6. ASSUME UNCHANGED flight PROVE Ours'
    BY <1>6 DEF At
<1>7. ASSUME NEW r \in Requests, NEW p \in Paths, NEW c \in Contexts,
             Arrive(r, p, c) \/ Match(r) \/ Hit(r)
      PROVE  UNCHANGED flight
    BY <1>7 DEF Arrive, Match, Hit
<1>8. ASSUME Publish \/ Flush \/ RedisActs \/ UNCHANGED vars PROVE UNCHANGED flight
    BY <1>8 DEF Publish, Flush, RedisActs, vars
<1> QED BY <1>1, <1>2, <1>3, <1>4, <1>5, <1>6, <1>7, <1>8 DEF Next, Match, Hit

\* What may be answered may still be while the floor stays and data grow.
LEMMA StillFits ==
    ASSUME TypeOK, floor' = floor, data' = data \/ data' = data + 1, NEW k
    PROVE  P!Fitting(k) \subseteq P!Fitting(k)'
BY DEF TypeOK, P!Fitting

LEMMA SameFits ==
    ASSUME UNCHANGED <<data, floor>>, NEW k
    PROVE  P!Fitting(k)' = P!Fitting(k)
BY DEF P!Fitting

\* Steps that leave cache and floor alone, and steps that leave the leaders
\* alone or end them.
LEMMA CacheStaysFit ==
    ASSUME TypeOK, StoredFit, WrittenFit, floor' = floor,
           data' = data \/ data' = data + 1, UNCHANGED cacheVars
    PROVE  StoredFit' /\ WrittenFit'
<1>1. StoredFit'
    BY StillFits DEF StoredFit
<1>2. WrittenFit'
    BY StillFits DEF WrittenFit
<1> QED BY <1>1, <1>2

LEMMA LeadersStayFit ==
    ASSUME TypeOK, ReadyFit, floor' = floor, data' = data \/ data' = data + 1,
           \A k \in Paths : At(k, "ready")' => /\ At(k, "ready")
                                               /\ flight'[k].result = flight[k].result
    PROVE  ReadyFit'
BY StillFits DEF ReadyFit

LEMMA StepFit == Undisturbed /\ [Next]_vars => Fit'
<1> SUFFICES ASSUME Undisturbed, [Next]_vars PROVE Fit'
    OBVIOUS
<1> USE DEF Undisturbed, Consistent, Follows, Fit
<1>1. ASSUME \/ \E r \in Requests, p \in Paths, c \in Contexts : Arrive(r, p, c)
             \/ \E r \in Requests : Match(r) \/ Hit(r)
      PROVE  Fit'
    <2>1. UNCHANGED <<data, floor, cacheVars, flight>>
        BY <1>1 DEF Arrive, Match, Hit
    <2>2. ReadyFit'
        BY <2>1, LeadersStayFit DEF At
    <2> QED BY <2>1, <2>2, CacheStaysFit
<1>2. ASSUME NEW r \in Requests, Miss(r) \/ Leave(r) PROVE Fit'
    <2>1. UNCHANGED <<data, floor, cacheVars>>
        BY <1>2 DEF Miss, Leave
    <2>2. \A k \in Paths : At(k, "ready")' => /\ At(k, "ready")
                                              /\ flight'[k].result = flight[k].result
        BY <1>2, MissFlight, LeaveFlight DEF Others, At
    <2>3. ReadyFit'
        BY <2>1, <2>2, LeadersStayFit
    <2> QED BY <2>1, <2>3, CacheStaysFit
<1>3. ASSUME NEW k \in Paths, Dispatch(k) \/ Load(k) \/ LoadFails(k) \/ LoadBroken(k)
      PROVE  Fit'
    <2>1. UNCHANGED <<data, floor, cacheVars>>
        BY <1>3 DEF Dispatch, Load, LoadFails, LoadBroken, Ready
    <2>2. At(k, "spawned") /\ k \notin Known => [out |-> "notfound"] \in P!Fitting(k)
        BY DEF P!Fitting
    <2>3. At(k, "running") => Result(k) \subseteq P!Fitting(k)
        <3>1. floor \in 0..data /\ data \in Nat
            BY DEF TypeOK
        <3> QED BY <3>1 DEF Targeted, Ours, Result, P!Fitting
    <2>4. flight'[k].step = "ready" => flight'[k].result \in P!Fitting(k)
        BY <1>3, <2>2, <2>3, LeaderFlight, SpawnedOurs
    <2>5. \A p \in Paths \ {k} : flight'[p] = flight[p]
        BY <1>3, LeaderFlight DEF Others
    <2>6. ReadyFit'
        BY <2>1, <2>4, <2>5, SameFits DEF ReadyFit, At
    <2> QED BY <2>1, <2>6, CacheStaysFit
<1>4. ASSUME NEW k \in Paths, Finish(k) PROVE Fit'
    <2>1. /\ UNCHANGED <<data, floor>> /\ flight' = [flight EXCEPT ![k] = None]
          /\ store' = store
          /\ At(k, "ready")
          /\ \/ write' = write
             \/ \E w \in Writers : write' = [write EXCEPT ![w] = [key |-> k, body |-> flight[k].result]]
        BY <1>4 DEF Finish, C!Accept
    <2>2. ReadyFit'
        BY <2>1, LeadersStayFit DEF TypeOK, At
    <2>3. StoredFit'
        BY <2>1, SameFits DEF StoredFit
    <2>4. flight[k].result \in P!Fitting(k)
        BY <2>1 DEF ReadyFit
    <2>5. WrittenFit'
        BY <2>1, <2>4, SameFits DEF TypeOK, WrittenFit
    <2> QED BY <2>2, <2>3, <2>5
<1>5. CASE Publish
    <2>1. data' = data + 1 /\ floor' = floor /\ UNCHANGED <<cacheVars, flight>>
        BY <1>5 DEF Publish
    <2>2. ReadyFit'
        BY <2>1, LeadersStayFit DEF At
    <2> QED BY <2>1, <2>2, CacheStaysFit
<1>6. CASE Flush
    <2>1. store' = [k \in Paths |-> None] /\ UNCHANGED <<data, write, flight>>
        BY <1>6 DEF Flush, C!Forget
    <2>2. CASE Quiet
        BY <2>1, <2>2 DEF StoredFit, WrittenFit, ReadyFit, Quiet, At
    <2>3. CASE ~Quiet
        <3>1. floor' = floor
            BY <1>6, <2>3 DEF Flush
        <3> QED BY <2>1, <3>1, SameFits DEF StoredFit, WrittenFit, ReadyFit, At
    <2> QED BY <2>2, <2>3
<1>7. CASE RedisActs
    <2>1. UNCHANGED <<data, floor, flight>>
        BY <1>7 DEF RedisActs
    <2>2. ReadyFit'
        BY <2>1, LeadersStayFit DEF At
    <2>3. ASSUME NEW w \in Writers, C!Land(w) \/ C!Lose(w) PROVE StoredFit' /\ WrittenFit'
        <3>1. write' = [write EXCEPT ![w] = None]
            BY <2>3 DEF C!Land, C!Lose
        <3>2. WrittenFit'
            BY <2>1, <3>1, SameFits DEF TypeOK, WrittenFit
        <3>3. \/ store' = store
              \/ /\ write[w] # None
                 /\ store' = [store EXCEPT ![write[w].key] = write[w].body]
            BY <2>3 DEF C!Land, C!Lose
        <3>4. write[w] # None => write[w].body \in P!Fitting(write[w].key)
            BY DEF WrittenFit
        <3>5. StoredFit'
            BY <2>1, <3>3, <3>4, SameFits DEF TypeOK, StoredFit
        <3> QED BY <3>2, <3>5
    <2>4. ASSUME NEW k \in Paths, C!Forget({k}) PROVE StoredFit' /\ WrittenFit'
        BY <2>1, <2>4, SameFits DEF C!Forget, StoredFit, WrittenFit
    <2> QED BY <1>7, <2>2, <2>3, <2>4 DEF RedisActs
<1>8. CASE Restart
    <2>1. UNCHANGED <<data, floor, cacheVars>> /\ \A k \in Paths : flight'[k] = None
        BY <1>8 DEF Restart
    <2>2. ReadyFit'
        BY <2>1 DEF ReadyFit, At
    <2> QED BY <2>1, <2>2, CacheStaysFit
<1>9. CASE UNCHANGED vars
    <2>1. UNCHANGED <<data, floor, cacheVars, flight>>
        BY <1>9 DEF vars
    <2>2. ReadyFit'
        BY <2>1, LeadersStayFit DEF At
    <2> QED BY <2>1, <2>2, CacheStaysFit
<1> QED BY <1>1, <1>2, <1>3, <1>4, <1>5, <1>6, <1>7, <1>8, <1>9 DEF Next

LEMMA InitUndisturbed == Init => Undisturbed
<1>1. Init => Routed /\ Ours /\ Fit
    BY DEF Init, Routed, Ours, Fit, StoredFit, WrittenFit, ReadyFit, At, C!LossyInit
<1> QED BY <1>1, InitConsistent DEF Undisturbed

LEMMA StepUndisturbed ==
    PromptDispatch /\ Undisturbed /\ [Next]_vars => Undisturbed'
BY StepConsistent, StepRouted, StepOurs, StepFit DEF Undisturbed

LEMMA StaysUndisturbed == PromptDispatch /\ Spec => []Undisturbed
<1>1. CASE PromptDispatch
    <2>1. Undisturbed /\ [Next]_vars => Undisturbed'
        BY <1>1, StepUndisturbed
    <2> QED BY <2>1, InitUndisturbed, PTL DEF Spec
<1>2. CASE ~PromptDispatch
    BY <1>2
<1> QED BY <1>1, <1>2

\* If leaders route before the requests that started them return, nothing is
\* ever stored, or on its way to be, under a key whose body it is not.
THEOREM StoredSound == PromptDispatch /\ Spec => []StoreSound
<1>1. ASSUME Undisturbed PROVE StoreSound
    <2> USE <1>1 DEF Undisturbed, Consistent, Fit
    <2>1. \A k : \A b \in Body : b \in P!Fitting(k) => b.path = k
        BY DEF P!Fitting, Body
    <2>2. \A k \in Paths : store[k] # None => store[k] \in Body
        BY DEF TypeOK
    <2>3. \A w \in Writers : write[w] # None => write[w].body \in Body
        BY DEF TypeOK, C!Entry
    <2> QED BY <2>1, <2>2, <2>3 DEF StoreSound, StoredFit, WrittenFit
<1> QED BY <1>1, StaysUndisturbed, PTL

-----------------------------------------------------------------------------
(* The middleware implements Proxy                                          *)

LEMMA ReturnAnswers ==
    ASSUME TypeOK, Present, NEW out, Return(out), UNCHANGED <<data, floor>>,
           \A r \in DOMAIN out : /\ r \in Requests /\ phase[r] # "idle"
                                 /\ out[r] \in P!Fitting(asked[r])
    PROVE  P!Answer(DOMAIN out)
<1>1. \A r \in DOMAIN out : asked[r] # None
    BY DEF Present
<1>2. /\ \A r \in DOMAIN out : answer'[r] = out[r]
      /\ \A r \in Requests \ DOMAIN out : answer'[r] = None
      /\ asked' = [r \in Requests |-> IF r \in DOMAIN out THEN None ELSE asked[r]]
    BY DEF Return
<1> QED BY <1>1, <1>2 DEF P!Answer

LEMMA NobodyAnswered ==
    ASSUME TypeOK, answer' = NoAnswer, UNCHANGED <<data, floor, asked>>
    PROVE  P!Answer({})
BY DEF TypeOK, NoAnswer, P!Answer

LEMMA GoneFits == \A k : [out |-> "gone"] \in P!Fitting(k)
BY DEF P!Fitting

LEMMA StepProxy == Undisturbed /\ [Next]_vars => [P!Next]_P!proxyVars
<1> SUFFICES ASSUME Undisturbed, [Next]_vars PROVE P!Next \/ UNCHANGED P!proxyVars
    OBVIOUS
<1> USE DEF Undisturbed, Consistent, Follows, Fit
<1>0. ASSUME NEW R \in SUBSET Requests, P!Answer(R) PROVE P!Next
    BY <1>0 DEF P!Next
<1>1. ASSUME NEW r \in Requests, NEW p \in Paths, NEW c \in Contexts, Arrive(r, p, c)
      PROVE  P!Next
    <2>1. P!Ask(r)
        BY <1>1 DEF Present, Arrive, P!Ask, NoAnswer, P!NoAnswer
    <2> QED BY <2>1 DEF P!Next
<1>2. ASSUME NEW r \in Requests, Match(r) \/ Miss(r) PROVE P!Next
    <2>1. P!Answer({})
        BY <1>2, NobodyAnswered DEF Match, Miss
    <2> QED BY <1>0, <2>1
<1>3. ASSUME NEW r \in Requests, Hit(r) PROVE P!Next
    <2> DEFINE out == [q \in {r} |-> store[asked[q]]]
    <2>1. /\ Return(out) /\ UNCHANGED <<data, floor>>
          /\ phase[r] # "idle" /\ store[asked[r]] # None
        BY <1>3 DEF Hit
    <2>2. out[r] \in P!Fitting(asked[r])
        BY <2>1 DEF Present, StoredFit
    <2>3. DOMAIN out = {r}
        OBVIOUS
    <2> HIDE DEF out
    <2>4. P!Answer(DOMAIN out)
        BY <2>1, <2>2, <2>3, ReturnAnswers
    <2> QED BY <1>0, <2>3, <2>4
<1>4. ASSUME NEW r \in Requests, Leave(r) PROVE P!Next
    <2> DEFINE out == [q \in {r} |-> [out |-> "gone"]]
    <2>1. Return(out) /\ UNCHANGED <<data, floor>> /\ phase[r] # "idle"
        BY <1>4 DEF Leave
    <2>2. DOMAIN out = {r} /\ out[r] \in P!Fitting(asked[r])
        BY GoneFits
    <2> HIDE DEF out
    <2>3. P!Answer(DOMAIN out)
        BY <2>1, <2>2, ReturnAnswers
    <2> QED BY <1>0, <2>2, <2>3
<1>5. ASSUME NEW k \in Paths, Dispatch(k) \/ Load(k) \/ LoadFails(k) \/ LoadBroken(k)
      PROVE  P!Next
    <2>1. P!Answer({})
        BY <1>5, NobodyAnswered DEF Dispatch, Load, LoadFails, LoadBroken, Ready
    <2> QED BY <1>0, <2>1
<1>6. ASSUME NEW k \in Paths, Finish(k) PROVE P!Next
    <2> DEFINE out == [r \in flight[k].followers |-> flight[k].result]
    <2>1. /\ Return(out) /\ UNCHANGED <<data, floor>>
          /\ flight[k] # None /\ flight[k].result \in P!Fitting(k)
        BY <1>6 DEF Finish, At, ReadyFit
    <2>2. /\ flight[k].followers \in SUBSET Requests
          /\ \A r \in flight[k].followers : phase[r] # "idle" /\ asked[r] = k
        BY <2>1 DEF TypeOK, Leader, Joined
    <2>3. /\ DOMAIN out = flight[k].followers
          /\ \A r \in flight[k].followers : out[r] = flight[k].result
        OBVIOUS
    <2> HIDE DEF out
    <2>4. P!Answer(DOMAIN out)
        BY <2>1, <2>2, <2>3, ReturnAnswers
    <2> QED BY <1>0, <2>2, <2>3, <2>4
<1>7. CASE Publish
    BY <1>7 DEF Publish, P!Publish, P!Next, NoAnswer, P!NoAnswer
<1>8. CASE Flush
    <2>1. CASE Quiet
        BY <1>8, <2>1 DEF Flush, P!Sweep, P!Next, NoAnswer, P!NoAnswer
    <2>2. CASE ~Quiet
        <3>1. P!Answer({})
            BY <1>8, <2>2, NobodyAnswered DEF Flush
        <3> QED BY <1>0, <3>1
    <2> QED BY <2>1, <2>2
<1>9. CASE RedisActs
    <2>1. P!Answer({})
        BY <1>9, NobodyAnswered DEF RedisActs
    <2> QED BY <1>0, <2>1
<1>10. CASE Restart
    <2> DEFINE out == [q \in {r \in Requests : phase[r] # "idle"} |-> [out |-> "gone"]]
    <2>1. Return(out) /\ UNCHANGED <<data, floor>>
        BY <1>10 DEF Restart
    <2>2. /\ DOMAIN out \in SUBSET Requests
          /\ \A r \in DOMAIN out : phase[r] # "idle" /\ out[r] \in P!Fitting(asked[r])
        BY GoneFits
    <2> HIDE DEF out
    <2>3. P!Answer(DOMAIN out)
        BY <2>1, <2>2, ReturnAnswers
    <2> QED BY <1>0, <2>2, <2>3
<1>11. CASE UNCHANGED vars
    BY <1>11 DEF vars, P!proxyVars
<1> QED BY <1>1, <1>2, <1>3, <1>4, <1>5, <1>6, <1>7, <1>8, <1>9, <1>10, <1>11 DEF Next

\* If leaders route before the requests that started them return, cache and
\* shared runs are invisible: every answer is one Proxy, which has neither, may
\* give to that request, and none is older than the last flush that found
\* nothing under way.
THEOREM ProxyRefinement == PromptDispatch /\ Spec => ImplementsProxy
<1>1. Init => P!Init
    BY DEF Init, P!Init, NoAnswer, P!NoAnswer
<1> QED BY <1>1, StepProxy, StaysUndisturbed, PTL DEF Spec, ImplementsProxy, P!Spec
=============================================================================
