------------------------------ MODULE Indexer ------------------------------
(***************************************************************************)
(* cmd/indexer: a run reads the documents from Postgres, loads them into a *)
(* new timestamped index, verifies the load, moves the search alias onto   *)
(* it in one request and deletes the oldest indices.  A run may fail or be *)
(* killed between any two requests, and nothing keeps two operators from   *)
(* running it at the same time.                                            *)
(*                                                                         *)
(* Elasticsearch is external.  An index is named by its number in the      *)
(* order of the timestamps.  `overlap` says whether runs overlap in this   *)
(* behaviour: most of what a run promises it only promises when alone.     *)
(***************************************************************************)
EXTENDS Naturals, FiniteSets

CONSTANTS
    Runs,        \* slots for runs of the command, reused
    Keep,        \* the -keep flag
    MaxNames,    \* bound on the indices ever created
    MaxVersion   \* bound on data

\* The flag is not validated; 0 would delete the index just swapped in.
ASSUME IndexerAssumption == /\ Keep \in Nat \ {0}
                            /\ MaxNames \in Nat
                            /\ MaxVersion \in Nat

VARIABLES
    overlap,  \* history: two runs may be under way at once
    data,     \* version of the data in Postgres
    last,     \* the newest name given out
    load,     \* what each index holds: "absent", "empty", "part" or "full"
    mapped,   \* the indices that were created with mapping.json
    content,  \* the version of the data each name was loaded from
    alias,    \* the index search reads, 0 for none
    step,     \* where each run is
    name,     \* the index it builds
    snap,     \* the version of the data it read
    victims   \* the indices it has decided to delete

clusterVars == <<load, mapped, alias>>
runVars == <<step, name, snap, victims>>
vars == <<overlap, data, last, content, clusterVars, runVars>>

Names == 1..MaxNames

Existing == {n \in Names : load[n] # "absent"}

TypeOK ==
    /\ overlap \in BOOLEAN
    /\ data \in 0..MaxVersion
    /\ last \in 0..MaxNames
    /\ load \in [Names -> {"absent", "empty", "part", "full"}]
    /\ mapped \subseteq Names
    /\ content \in [Names -> 0..MaxVersion]
    /\ alias \in 0..MaxNames
    /\ step \in [Runs -> {"idle", "built", "loading", "loaded", "verified",
                          "swapped", "pruning"}]
    /\ name \in [Runs -> 0..MaxNames]
    /\ snap \in [Runs -> 0..MaxVersion]
    /\ victims \in [Runs -> SUBSET Names]
    /\ mapped \subseteq Existing
    /\ \A n \in Existing : n <= last

Init ==
    /\ overlap \in BOOLEAN
    /\ data = 0
    /\ last = 0
    /\ load = [n \in Names |-> "absent"]
    /\ mapped = {}
    /\ content = [n \in Names |-> 0]
    /\ alias = 0
    /\ step = [r \in Runs |-> "idle"]
    /\ name = [r \in Runs |-> 0]
    /\ snap = [r \in Runs |-> 0]
    /\ victims = [r \in Runs |-> {}]

\* The n existing indices with the greatest names.
Newest(n) == {i \in Existing : Cardinality({j \in Existing : j > i}) < n}

Goto(r, s) == step' = [step EXCEPT ![r] = s]

\* A run that is over has no variables.
End(r) ==
    /\ Goto(r, "idle")
    /\ name' = [name EXCEPT ![r] = 0]
    /\ snap' = [snap EXCEPT ![r] = 0]
    /\ victims' = [victims EXCEPT ![r] = {}]

-----------------------------------------------------------------------------
(* One run *)

\* buildDocs reads Postgres.
Build(r) ==
    /\ step[r] = "idle"
    /\ overlap \/ \A q \in Runs : step[q] = "idle"
    /\ Goto(r, "built")
    /\ snap' = [snap EXCEPT ![r] = data]
    /\ UNCHANGED <<overlap, data, last, content, clusterVars, name, victims>>

\* The new index is named by the clock, and created with the mapping.
Create(r) ==
    /\ step[r] = "built"
    /\ last < MaxNames
    /\ last' = last + 1
    /\ Goto(r, "loading")
    /\ name' = [name EXCEPT ![r] = last + 1]
    /\ load' = [load EXCEPT ![last + 1] = "empty"]
    /\ mapped' = mapped \cup {last + 1}
    /\ content' = [content EXCEPT ![last + 1] = snap[r]]
    /\ UNCHANGED <<overlap, data, alias, snap, victims>>

\* The bulk load ends: every document is in, or some failed, were lost or
\* shared an id.  If another run has pruned the index meanwhile, the first
\* bulk request creates it again, without the mapping.
Load(r) ==
    /\ step[r] = "loading"
    /\ Goto(r, "loaded")
    /\ \E l \in {"part", "full"} : load' = [load EXCEPT ![name[r]] = l]
    /\ UNCHANGED <<overlap, data, last, mapped, content, alias, name, snap, victims>>

\* Mutant of Proven: a short count is let pass.
ProvenLoosely(r) == load[name[r]] # "absent"

\* The count agrees with the documents and none was reported failed.
Proven(r) == load[name[r]] = "full"

Verify(r) ==
    /\ step[r] = "loaded"
    /\ Proven(r)
    /\ Goto(r, "verified")
    /\ UNCHANGED <<overlap, data, last, content, clusterVars, name, snap, victims>>

\* "refusing to swap alias": the index is left in place, unaliased.
Refuse(r) ==
    /\ step[r] = "loaded"
    /\ ~Proven(r)
    /\ End(r)
    /\ UNCHANGED <<overlap, data, last, content, clusterVars>>

\* Mutant of Swap: the alias is removed in a request of its own, and the run
\* may die before the second.
SwapInTwo(r) ==
    /\ step[r] = "verified"
    /\ load[name[r]] # "absent"
    /\ \/ alias' = name[r] /\ Goto(r, "swapped") /\ UNCHANGED <<name, snap, victims>>
       \/ alias' = 0 /\ End(r)
    /\ UNCHANGED <<overlap, data, last, load, mapped, content>>

\* Mutant of Swap: the alias is added to an index the wildcard matches.
SwapToAny(r) ==
    /\ step[r] = "verified"
    /\ alias' \in Existing
    /\ Goto(r, "swapped")
    /\ UNCHANGED <<overlap, data, last, load, mapped, content, name, snap, victims>>

\* swapAlias; Elasticsearch refuses it if the index is gone.
Swap(r) ==
    /\ step[r] = "verified"
    /\ load[name[r]] # "absent"
    /\ alias' = name[r]
    /\ Goto(r, "swapped")
    /\ UNCHANGED <<overlap, data, last, load, mapped, content, name, snap, victims>>

\* Mutant of Prune: one index too many is kept.
PruneLate(r) ==
    /\ step[r] = "swapped"
    /\ Goto(r, "pruning")
    /\ victims' = [victims EXCEPT ![r] = Existing \ Newest(Keep + 1)]
    /\ UNCHANGED <<overlap, data, last, content, clusterVars, name, snap>>

\* Mutant of Prune: the names are sorted the other way round.
PruneNewest(r) ==
    /\ step[r] = "swapped"
    /\ Goto(r, "pruning")
    /\ victims' = [victims EXCEPT ![r] =
           {n \in Existing : Cardinality({j \in Existing : j < n}) >= Keep}]
    /\ UNCHANGED <<overlap, data, last, content, clusterVars, name, snap>>

\* prune lists the indices and picks all but the newest Keep.
Prune(r) ==
    /\ step[r] = "swapped"
    /\ Goto(r, "pruning")
    /\ victims' = [victims EXCEPT ![r] = Existing \ Newest(Keep)]
    /\ UNCHANGED <<overlap, data, last, content, clusterVars, name, snap>>

\* It deletes them one by one, the newest first; an index takes the aliases
\* it has with it.
Delete(r, n) ==
    /\ step[r] = "pruning"
    /\ n \in victims[r]
    /\ \A m \in victims[r] : m <= n
    /\ load[n] # "absent"
    /\ load' = [load EXCEPT ![n] = "absent"]
    /\ mapped' = mapped \ {n}
    /\ alias' = IF alias = n THEN 0 ELSE alias
    /\ victims' = [victims EXCEPT ![r] = @ \ {n}]
    /\ UNCHANGED <<overlap, data, last, content, step, name, snap>>

Done(r) ==
    /\ step[r] = "pruning"
    /\ victims[r] = {}
    /\ End(r)
    /\ UNCHANGED <<overlap, data, last, content, clusterVars>>

\* Any request fails (its effect may have taken place all the same), or the
\* process is killed.
Die(r) ==
    /\ step[r] # "idle"
    /\ End(r)
    /\ UNCHANGED <<overlap, data, last, content, clusterVars>>

-----------------------------------------------------------------------------

\* The pipeline changes the data.
Publish ==
    /\ data < MaxVersion
    /\ data' = data + 1
    /\ UNCHANGED <<overlap, last, content, clusterVars, runVars>>

Next ==
    \/ \E r \in Runs :
          \/ Build(r) \/ Create(r) \/ Load(r) \/ Verify(r) \/ Refuse(r)
          \/ Swap(r) \/ Prune(r) \/ Done(r) \/ Die(r)
    \/ \E r \in Runs, n \in Names : Delete(r, n)
    \/ Publish

Spec == Init /\ [][Next]_vars

-----------------------------------------------------------------------------
(* Properties *)

\* bulk.go:21 - the alias is only ever on an index proven good: one that
\* holds every document and, unless runs overlap, has the mapping.
AliasServesGood ==
    alias # 0 => load[alias] = "full" /\ (~overlap => alias \in mapped)

\* bulk.go:22 - a run never touches the live index before it has a better one:
\* when runs do not overlap, search never goes dark once it has an index.
NeverDark == [][~overlap /\ alias # 0 => alias' # 0]_vars

\* When runs do not overlap, search never goes back to older data, whichever
\* of them fail.
NeverOlder ==
    [][ ~overlap /\ alias # 0 /\ alias' # 0
          => content[alias'] >= content[alias] ]_vars

\* bulk.go:136 - a run that ends well leaves at most Keep indices, those of
\* the failed runs before it included.
NoPileUp ==
    [][ \A r \in Runs : ~overlap /\ Done(r) => Cardinality(Existing') <= Keep ]_vars

\* What a run has decided to delete is not what search reads, unless runs
\* overlap: the list it made is not stale.
VictimsNotLive ==
    ~overlap => \A r \in Runs : alias \notin victims[r]

=============================================================================
