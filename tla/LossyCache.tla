----------------------------- MODULE LossyCache -----------------------------
(***************************************************************************)
(* What internal/cache promises its callers: a store that may forget any   *)
(* entry at any moment, refuse or lose any write, and apply an accepted    *)
(* write arbitrarily late, but that never makes an entry up: the body of a *)
(* key is one a writer was given for that key.                             *)
(***************************************************************************)
CONSTANTS
    Keys,
    Bodies,
    Writers,  \* the background writes that may be under way at a time
    None      \* no body, no write

VARIABLES
    store,    \* what Redis holds: [Keys -> Bodies \cup {None}]
    write     \* writes under way: [Writers -> {None} \cup Entry]

lossyVars == <<store, write>>

Entry == [key : Keys, body : Bodies]

LossyInit ==
    /\ store = [k \in Keys |-> None]
    /\ write = [w \in Writers |-> None]

\* A writer is given a body to store.
Accept(w, k, b) ==
    /\ write[w] = None
    /\ write' = [write EXCEPT ![w] = [key |-> k, body |-> b]]
    /\ UNCHANGED store

\* The write takes effect and is over.
Land(w) ==
    /\ write[w] # None
    /\ store' = [store EXCEPT ![write[w].key] = write[w].body]
    /\ write' = [write EXCEPT ![w] = None]

\* The write is over without having taken effect.
Lose(w) ==
    /\ write[w] # None
    /\ write' = [write EXCEPT ![w] = None]
    /\ UNCHANGED store

\* Entries expire, are evicted or are flushed.
Forget(K) ==
    /\ store' = [k \in Keys |-> IF k \in K THEN None ELSE store[k]]
    /\ UNCHANGED write

LossyNext ==
    \/ \E w \in Writers :
          \/ \E k \in Keys, b \in Bodies : Accept(w, k, b)
          \/ Land(w)
          \/ Lose(w)
    \/ \E K \in SUBSET Keys : Forget(K)

LossySpec == LossyInit /\ [][LossyNext]_lossyVars

=============================================================================
