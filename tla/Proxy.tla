------------------------------- MODULE Proxy -------------------------------
(***************************************************************************)
(* What the response cache promises the clients of the API, without a      *)
(* store, leaders or followers: a request for a path that exists is        *)
(* answered with a complete body of that very path (or fails), one for a   *)
(* path that does not exist is told so, and no answer is older than the    *)
(* last time the cache was swept.                                          *)
(***************************************************************************)
EXTENDS Naturals

CONSTANTS Requests, Paths, Known, None

VARIABLES
    data,    \* version of the data in PostgreSQL
    floor,   \* version the data had when the cache was last swept
    asked,   \* path each request waits for, None when there is no request
    answer   \* the answers given in the last step

proxyVars == <<data, floor, asked, answer>>

NoAnswer == [r \in Requests |-> None]

Init ==
    /\ data = 0
    /\ floor = 0
    /\ asked = [r \in Requests |-> None]
    /\ answer = NoAnswer

\* The ways a request for p may end.  The client of one that is "gone" left,
\* or lost its connection, before there was an answer.
Fitting(p) ==
    {[out |-> "gone"]} \cup
    IF p \in Known
    THEN {[out |-> "failed"], [out |-> "broken"]}
         \cup {[out |-> "body", path |-> p, version |-> v] : v \in floor..data}
    ELSE {[out |-> "notfound"]}

Ask(r) ==
    /\ asked[r] = None
    /\ \E p \in Paths : asked' = [asked EXCEPT ![r] = p]
    /\ answer' = NoAnswer
    /\ UNCHANGED <<data, floor>>

\* Requests may be answered together.
Answer(R) ==
    /\ \A r \in R : asked[r] # None /\ answer'[r] \in Fitting(asked[r])
    /\ \A r \in Requests \ R : answer'[r] = None
    /\ asked' = [r \in Requests |-> IF r \in R THEN None ELSE asked[r]]
    /\ UNCHANGED <<data, floor>>

Publish == data' = data + 1 /\ answer' = NoAnswer /\ UNCHANGED <<floor, asked>>

Sweep == floor' = data /\ answer' = NoAnswer /\ UNCHANGED <<data, asked>>

Next ==
    \/ \E r \in Requests : Ask(r)
    \/ \E R \in SUBSET Requests : Answer(R)
    \/ Publish
    \/ Sweep

Spec == Init /\ [][Next]_proxyVars

=============================================================================
