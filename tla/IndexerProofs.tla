--------------------------- MODULE IndexerProofs ---------------------------
(***************************************************************************)
(* What holds of the indexer for every number of runs, indices and changes *)
(* of the data, whichever runs fail.  With ~overlap at most one run is     *)
(* under way, so that what it knows of the cluster is not stale.           *)
(***************************************************************************)
EXTENDS Indexer, FiniteSetTheorems, WellFoundedInduction, TLAPS

USE IndexerAssumption DEF IndexerAssumption, Names, Existing, clusterVars, runVars

Building == {"loading", "loaded", "verified", "swapped"}

\* Each index is built by one run, which is the only one that knows its name.
Named ==
    /\ \A r \in Runs : IF step[r] \in {"idle", "built"} THEN name[r] = 0
                       ELSE name[r] \in 1..last
    /\ \A r, q \in Runs : name[r] # 0 /\ name[r] = name[q] => r = q

\* What search reads is whole, was so when its run swapped it in, and has been
\* left alone by that run since.
Served ==
    /\ alias \in 0..last
    /\ alias # 0 => load[alias] = "full"
    /\ \A r \in Runs : /\ step[r] \in {"loading", "loaded"} => alias # name[r]
                       /\ step[r] = "verified" => load[name[r]] \in {"full", "absent"}

\* Alone, a run builds the newest index, which nobody deletes under it, and
\* ends with search on it.
Solo ==
    \A r, q \in Runs : step[r] # "idle" /\ step[q] # "idle" => r = q

Alone ==
    /\ Solo
    /\ alias # 0 => alias \in mapped
    /\ \A r \in Runs :
          /\ step[r] \in Building => name[r] = last /\ name[r] \in mapped
          /\ step[r] = "swapped" => alias = name[r]
          /\ step[r] # "pruning" => victims[r] = {}
          /\ alias \notin victims[r]

\* Alone, a run reads data that is no older than what any index was loaded from.
Dated ==
    /\ \A n \in 1..last : content[n] <= data
    /\ \A r \in Runs :
          /\ step[r] = "built" => /\ snap[r] <= data
                                 /\ \A n \in 1..last : content[n] <= snap[r]
          /\ step[r] \in Building => \A n \in 1..last : content[n] <= content[name[r]]

Consistent == TypeOK /\ Named /\ Served /\ (~overlap => Alone)

LEMMA InitConsistent == Init => Consistent
<1> SUFFICES ASSUME Init PROVE Consistent
    OBVIOUS
<1>1. TypeOK
    BY DEF Init, TypeOK
<1>2. Named /\ Served /\ Alone
    BY DEF Init, Named, Served, Solo, Alone, Building
<1> QED BY <1>1, <1>2 DEF Consistent

\* A run that is over has no variables, and leaves everything else alone.
Over(r) ==
    /\ \A q \in Runs \ {r} : /\ step'[q] = step[q] /\ name'[q] = name[q]
                            /\ snap'[q] = snap[q] /\ victims'[q] = victims[q]
    /\ step'[r] = "idle" /\ name'[r] = 0 /\ victims'[r] = {}
    /\ UNCHANGED <<overlap, data, last, content, clusterVars>>

LEMMA EndIsOver ==
    ASSUME TypeOK, NEW r \in Runs, Refuse(r) \/ Done(r) \/ Die(r)
    PROVE  Over(r)
BY DEF TypeOK, Refuse, Done, Die, End, Goto, Over

-----------------------------------------------------------------------------
(* Types, names and what search reads, overlapping runs or not              *)

LEMMA StepTypes == TypeOK /\ Named /\ [Next]_vars => TypeOK'
<1> SUFFICES ASSUME TypeOK, Named, [Next]_vars PROVE TypeOK'
    OBVIOUS
<1> USE DEF TypeOK, Goto, End
<1>1. ASSUME NEW r \in Runs, Build(r) PROVE TypeOK'
    BY <1>1 DEF Build
<1>2. ASSUME NEW r \in Runs, Create(r) PROVE TypeOK'
    BY <1>2 DEF Create
<1>3. ASSUME NEW r \in Runs, Load(r) PROVE TypeOK'
    <2>1. name[r] \in 1..last
        BY <1>3 DEF Load, Named
    <2> QED BY <1>3, <2>1 DEF Load
<1>4. ASSUME NEW r \in Runs, Verify(r) PROVE TypeOK'
    BY <1>4 DEF Verify
<1>10. ASSUME NEW r \in Runs, End(r), UNCHANGED <<overlap, data, last, content, clusterVars>>
      PROVE  TypeOK'
    <2>1. /\ step' \in [Runs -> {"idle", "built", "loading", "loaded", "verified",
                                "swapped", "pruning"}]
          /\ name' \in [Runs -> 0..MaxNames]
          /\ snap' \in [Runs -> 0..MaxVersion]
          /\ victims' \in [Runs -> SUBSET Names]
        BY <1>10
    <2> QED BY <1>10, <2>1
<1>5. ASSUME NEW r \in Runs, Swap(r) PROVE TypeOK'
    BY <1>5 DEF Swap
<1>6. ASSUME NEW r \in Runs, Prune(r) PROVE TypeOK'
    BY <1>6 DEF Prune
<1>7. ASSUME NEW r \in Runs, NEW n \in Names, Delete(r, n) PROVE TypeOK'
    <2>1. /\ load' = [load EXCEPT ![n] = "absent"] /\ mapped' = mapped \ {n}
          /\ alias' \in 0..MaxNames
          /\ victims' = [victims EXCEPT ![r] = victims[r] \ {n}]
          /\ UNCHANGED <<overlap, data, last, content, step, name, snap>>
        BY <1>7 DEF Delete
    <2>2. load' \in [Names -> {"absent", "empty", "part", "full"}]
        BY <2>1
    <2>3. victims' \in [Runs -> SUBSET Names]
        BY <2>1
    <2>4. mapped' \subseteq Existing' /\ \A m \in Existing' : m <= last
        BY <2>1
    <2> QED BY <2>1, <2>2, <2>3, <2>4
<1>8. CASE Publish
    BY <1>8 DEF Publish
<1>9. CASE UNCHANGED vars
    BY <1>9 DEF vars
<1> QED BY <1>1, <1>2, <1>3, <1>4, <1>5, <1>6, <1>7, <1>8, <1>9, <1>10
        DEF Next, Refuse, Done, Die

LEMMA StepNamed == TypeOK /\ Named /\ [Next]_vars => Named'
<1> SUFFICES ASSUME TypeOK, Named, [Next]_vars PROVE Named'
    OBVIOUS
<1> USE DEF TypeOK, Named, Goto, End
<1>1. ASSUME NEW r \in Runs, Build(r) PROVE Named'
    BY <1>1 DEF Build
<1>2. ASSUME NEW r \in Runs, Create(r) PROVE Named'
    <2>1. /\ last' = last + 1 /\ step' = [step EXCEPT ![r] = "loading"]
          /\ name' = [name EXCEPT ![r] = last + 1]
        BY <1>2 DEF Create
    <2>2. \A q \in Runs : name[q] # last + 1
        BY DEF Named
    <2> QED BY <2>1, <2>2
<1>3. ASSUME NEW r \in Runs, Load(r) \/ Verify(r) \/ Swap(r) \/ Prune(r) PROVE Named'
    BY <1>3 DEF Load, Verify, Swap, Prune
<1>4. ASSUME NEW r \in Runs, Refuse(r) \/ Done(r) \/ Die(r) PROVE Named'
    BY <1>4 DEF Refuse, Done, Die
<1>5. ASSUME NEW r \in Runs, NEW n \in Names, Delete(r, n) PROVE Named'
    BY <1>5 DEF Delete
<1>6. CASE Publish \/ UNCHANGED vars
    BY <1>6 DEF Publish, vars
<1> QED BY <1>1, <1>2, <1>3, <1>4, <1>5, <1>6 DEF Next

LEMMA StepServed == TypeOK /\ Named /\ Served /\ [Next]_vars => Served'
<1> SUFFICES ASSUME TypeOK, Named, Served, [Next]_vars PROVE Served'
    OBVIOUS
<1> USE DEF TypeOK, Served, Goto, End
<1>1. ASSUME NEW r \in Runs, Build(r) PROVE Served'
    BY <1>1 DEF Build
<1>2. ASSUME NEW r \in Runs, Create(r) PROVE Served'
    BY <1>2 DEF Create, Named
<1>3. ASSUME NEW r \in Runs, Load(r) PROVE Served'
    BY <1>3 DEF Load, Named
<1>4. ASSUME NEW r \in Runs, Verify(r) PROVE Served'
    BY <1>4 DEF Verify, Proven
<1>5. ASSUME NEW r \in Runs, Refuse(r) \/ Done(r) \/ Die(r) PROVE Served'
    BY <1>5 DEF Refuse, Done, Die
<1>6. ASSUME NEW r \in Runs, Swap(r) PROVE Served'
    BY <1>6 DEF Swap, Named
<1>7. ASSUME NEW r \in Runs, Prune(r) PROVE Served'
    BY <1>7 DEF Prune
<1>8. ASSUME NEW r \in Runs, NEW n \in Names, Delete(r, n) PROVE Served'
    <2>1. /\ load' = [load EXCEPT ![n] = "absent"]
          /\ alias' = IF alias = n THEN 0 ELSE alias
          /\ UNCHANGED <<last, step, name>>
        BY <1>8 DEF Delete
    <2>2. ASSUME NEW q \in Runs, step[q] \in {"loading", "loaded"} PROVE name[q] # 0
        <3>1. name[q] \in 1..last
            BY <2>2 DEF Named
        <3> QED BY <3>1
    <2>3. \A q \in Runs : step[q] = "verified" => load'[name[q]] \in {"full", "absent"}
        BY <2>1 DEF Named
    <2> QED BY <2>1, <2>2, <2>3
<1>9. CASE Publish \/ UNCHANGED vars
    BY <1>9 DEF Publish, vars
<1> QED BY <1>1, <1>2, <1>3, <1>4, <1>5, <1>6, <1>7, <1>8, <1>9 DEF Next

-----------------------------------------------------------------------------
(* A run alone                                                              *)

\* The newest index is among the newest Keep.
LEMMA NewestStays ==
    ASSUME TypeOK, last \in Existing
    PROVE  last \notin Existing \ Newest(Keep)
<1>1. {j \in Existing : j > last} = {}
    BY DEF TypeOK
<1>2. Cardinality({j \in Existing : j > last}) = 0
    BY <1>1, FS_EmptySet
<1> QED BY <1>2 DEF Newest

LEMMA StepAlone == Consistent /\ ~overlap /\ [Next]_vars => Alone'
<1> SUFFICES ASSUME Consistent, ~overlap, [Next]_vars PROVE Alone'
    OBVIOUS
<1> USE DEF Consistent, Alone, Solo, Building, Goto
<1>1. ASSUME NEW r \in Runs, Build(r) PROVE Alone'
    BY <1>1 DEF TypeOK, Build
<1>2. ASSUME NEW r \in Runs, Create(r) PROVE Alone'
    <2>1. /\ last' = last + 1 /\ step' = [step EXCEPT ![r] = "loading"]
          /\ step[r] = "built"
          /\ name' = [name EXCEPT ![r] = last + 1]
          /\ mapped' = mapped \cup {last + 1}
          /\ UNCHANGED <<alias, victims>>
        BY <1>2 DEF Create
    <2>2. \A q \in Runs : q # r => step'[q] = "idle"
        BY <2>1 DEF TypeOK
    <2>3. step'[r] = "loading" /\ name'[r] = last' /\ name'[r] \in mapped'
        BY <2>1 DEF TypeOK
    <2> QED BY <2>1, <2>2, <2>3 DEF TypeOK
<1>3. ASSUME NEW r \in Runs, Load(r) PROVE Alone'
    BY <1>3 DEF TypeOK, Load
<1>4. ASSUME NEW r \in Runs, Verify(r) PROVE Alone'
    BY <1>4 DEF TypeOK, Verify
<1>5. ASSUME NEW r \in Runs, Over(r) PROVE Alone'
    BY <1>5 DEF Over, Served
<1>6. ASSUME NEW r \in Runs, Swap(r) PROVE Alone'
    <2>1. \A q \in Runs : victims[q] = {}
        BY <1>6 DEF Swap
    <2> QED BY <1>6, <2>1 DEF TypeOK, Swap
<1>7. ASSUME NEW r \in Runs, Prune(r) PROVE Alone'
    <2>1. alias = last /\ alias \in Existing
        BY <1>7 DEF Prune, TypeOK
    <2>2. alias \notin Existing \ Newest(Keep)
        BY <2>1, NewestStays
    <2> QED BY <1>7, <2>2 DEF TypeOK, Prune
<1>8. ASSUME NEW r \in Runs, NEW n \in Names, Delete(r, n) PROVE Alone'
    <2>1. /\ n \in victims[r] /\ step[r] = "pruning" /\ step' = step /\ name' = name
          /\ last' = last /\ mapped' = mapped \ {n}
          /\ victims' = [victims EXCEPT ![r] = @ \ {n}]
        BY <1>8 DEF Delete
    <2>2. n # alias /\ alias' = alias
        BY <1>8, <2>1 DEF Delete
    <2>3. \A q \in Runs : victims'[q] \subseteq victims[q]
        BY <2>1 DEF TypeOK
    <2>4. \A q \in Runs : step[q] \notin Building /\ step[q] # "swapped"
        BY <2>1
    <2> QED BY <2>1, <2>2, <2>3, <2>4
<1>9. CASE Publish \/ UNCHANGED vars
    BY <1>9 DEF Publish, vars
<1> QED BY <1>1, <1>2, <1>3, <1>4, <1>5, <1>6, <1>7, <1>8, <1>9, EndIsOver DEF Next

LEMMA OverlapStays == [Next]_vars => overlap' = overlap
BY DEF Next, vars, Build, Create, Load, Verify, Refuse, Swap, Prune, Delete, Done,
       Die, Publish

LEMMA StepConsistent == Consistent /\ [Next]_vars => Consistent'
BY StepTypes, StepNamed, StepServed, StepAlone, OverlapStays DEF Consistent

LEMMA StaysConsistent == Spec => []Consistent
BY InitConsistent, StepConsistent, PTL DEF Spec

\* Types of the cluster and the runs; only existing indices have a mapping.
THEOREM TypeCorrect == Spec => []TypeOK
<1>1. Consistent => TypeOK
    BY DEF Consistent
<1> QED BY <1>1, StaysConsistent, PTL

\* Search reads a whole index, whatever runs overlap or fail, and one that has
\* the mapping if they do not overlap.
THEOREM GoodServed == Spec => []AliasServesGood
<1>1. Consistent => AliasServesGood
    BY DEF Consistent, Served, Alone, AliasServesGood
<1> QED BY <1>1, StaysConsistent, PTL

\* A run alone never has on its list the index that search reads.
THEOREM LiveSpared == Spec => []VictimsNotLive
<1>1. Consistent => VictimsNotLive
    BY DEF Consistent, Alone, VictimsNotLive
<1> QED BY <1>1, StaysConsistent, PTL

\* Without overlap search has an index ever after it had one.
THEOREM StaysLit == Spec => NeverDark
<1>1. Consistent /\ [Next]_vars => [~overlap /\ alias # 0 => alias' # 0]_vars
    <2> SUFFICES ASSUME Consistent, [Next]_vars, ~overlap, alias # 0 PROVE alias' # 0
        BY DEF vars
    <2>1. ASSUME NEW r \in Runs, Swap(r) PROVE alias' # 0
        <3>1. name[r] \in 1..last
            BY <2>1 DEF Consistent, Named, Swap
        <3> QED BY <2>1, <3>1 DEF Consistent, TypeOK, Swap
    <2>2. ASSUME NEW r \in Runs, NEW n \in Names, Delete(r, n) PROVE alias' # 0
        BY <2>2 DEF Consistent, Alone, Delete
    <2>3. ASSUME UNCHANGED alias PROVE alias' # 0
        BY <2>3
    <2> QED BY <2>1, <2>2, <2>3
            DEF Next, vars, Build, Create, Load, Verify, Refuse, Prune, Done, Die, Publish
<1> QED BY <1>1, StaysConsistent, PTL DEF Spec, NeverDark

-----------------------------------------------------------------------------
(* The age of what search reads                                             *)

LEMMA InitDated == Init => Dated
BY DEF Init, Dated, Building

LEMMA StepDated == Consistent /\ ~overlap /\ Dated /\ [Next]_vars => Dated'
<1> SUFFICES ASSUME Consistent, ~overlap, Dated, [Next]_vars PROVE Dated'
    OBVIOUS
<1> USE DEF Consistent, Dated, Building, Goto
<1>1. ASSUME NEW r \in Runs, Build(r) PROVE Dated'
    BY <1>1 DEF TypeOK, Build
<1>2. ASSUME NEW r \in Runs, Create(r) PROVE Dated'
    <2>1. /\ last' = last + 1 /\ content' = [content EXCEPT ![last + 1] = snap[r]]
          /\ last + 1 \in Names /\ data' = data /\ snap' = snap
          /\ step[r] = "built" /\ step' = [step EXCEPT ![r] = "loading"]
          /\ name' = [name EXCEPT ![r] = last + 1]
        BY <1>2 DEF Create, TypeOK
    <2>2. /\ \A n \in 1..last' : content'[n] <= snap[r]
          /\ snap[r] <= data /\ content'[last'] = snap[r]
        BY <2>1 DEF TypeOK
    <2>3. \A n \in 1..last' : content'[n] <= data'
        BY <2>1, <2>2 DEF TypeOK
    <2>4. \A q \in Runs : q # r => step'[q] = "idle"
        BY <2>1 DEF Alone, Solo, TypeOK
    <2>5. step'[r] = "loading" /\ name'[r] = last'
        BY <2>1 DEF TypeOK
    <2> QED BY <2>2, <2>3, <2>4, <2>5
<1>3. ASSUME NEW r \in Runs, Load(r) \/ Verify(r) \/ Swap(r) \/ Prune(r) PROVE Dated'
    <2>1. /\ UNCHANGED <<data, last, content, name, snap>>
          /\ \A q \in Runs : step'[q] = step[q] \/ (step[q] \in Building /\ step'[q] # "built")
        BY <1>3 DEF TypeOK, Load, Verify, Swap, Prune
    <2> QED BY <2>1
<1>4. ASSUME NEW r \in Runs, Over(r) PROVE Dated'
    BY <1>4 DEF Over
<1>5. ASSUME NEW r \in Runs, NEW n \in Names, Delete(r, n) PROVE Dated'
    BY <1>5 DEF Delete
<1>6. CASE Publish
    BY <1>6 DEF TypeOK, Publish
<1>7. CASE UNCHANGED vars
    BY <1>7 DEF vars
<1> QED BY <1>1, <1>2, <1>3, <1>4, <1>5, <1>6, <1>7, EndIsOver DEF Next

\* Without overlap search never goes back to older data, whichever runs fail.
THEOREM StaysFresh == Spec => NeverOlder
<1> DEFINE IInv == Consistent /\ (~overlap => Dated)
<1>1. Init => IInv
    BY InitConsistent, InitDated
<1>2. IInv /\ [Next]_vars => IInv'
    BY StepConsistent, StepDated, OverlapStays
<1>3. IInv /\ [Next]_vars => [~overlap /\ alias # 0 /\ alias' # 0
                                => content[alias'] >= content[alias]]_vars
    <2> SUFFICES ASSUME Consistent, Dated, [Next]_vars, ~overlap, alias # 0, alias' # 0
                 PROVE  content[alias'] >= content[alias]
        BY DEF vars
    <2> USE DEF Consistent, TypeOK
    <2>1. ASSUME NEW r \in Runs, Swap(r) PROVE content[alias'] >= content[alias]
        <3>1. step[r] \in Building /\ alias' = name[r] /\ name[r] \in Names
            BY <2>1 DEF Swap, Building, Named
        <3>2. alias \in 1..last
            BY DEF Served
        <3> QED BY <3>1, <3>2 DEF Dated
    <2>2. ASSUME UNCHANGED alias PROVE content[alias'] >= content[alias]
        BY <2>2
    <2>3. ASSUME NEW r \in Runs, NEW n \in Names, Delete(r, n) PROVE UNCHANGED alias
        BY <2>3 DEF Delete
    <2> QED BY <2>1, <2>2, <2>3
            DEF Next, vars, Build, Create, Load, Verify, Refuse, Prune, Done, Die, Publish
<1> QED BY <1>1, <1>2, <1>3, PTL DEF Spec, NeverOlder

-----------------------------------------------------------------------------
(* What a run leaves behind                                                 *)

LEMMA Smallest ==
    ASSUME NEW S \in SUBSET Nat, S # {}
    PROVE  \E m \in S : \A n \in S : m <= n
<1>1. PICK m \in S : \A n \in S : <<n, m>> \notin OpToRel(<, Nat)
    BY NatLessThanWellFounded, WFMin, Zenon
<1>2. \A n \in S : ~(n < m)
    BY <1>1 DEF OpToRel
<1> QED BY <1>2

LEMMA ExistingFinite == \A S \in SUBSET Existing : IsFiniteSet(S)
<1>1. IsFiniteSet(1..MaxNames)
    BY FS_Interval
<1> QED BY <1>1, FS_Subset

\* The oldest of the newest Keep, and fewer than Keep that are newer.
LEMMA NewestFew == Cardinality(Newest(Keep)) <= Keep
<1>1. CASE Newest(Keep) = {}
    BY <1>1, FS_EmptySet
<1>2. CASE Newest(Keep) # {}
    <2>1. Newest(Keep) \in SUBSET Nat
        BY DEF Newest
    <2>2. PICK m \in Newest(Keep) : \A n \in Newest(Keep) : m <= n
        BY <1>2, <2>1, Smallest
    <2> DEFINE newer == {j \in Existing : j > m}
    <2>3. Cardinality(newer) < Keep /\ IsFiniteSet(newer) /\ Cardinality(newer) \in Nat
        BY <2>2, ExistingFinite, FS_CardinalityType DEF Newest
    <2>4. /\ IsFiniteSet(newer \cup {m})
          /\ Cardinality(newer \cup {m}) <= Keep
        <3>1. m \notin newer
            BY <2>1
        <3> HIDE DEF newer
        <3>2. /\ IsFiniteSet(newer \cup {m})
              /\ Cardinality(newer \cup {m}) = Cardinality(newer) + 1
            BY <2>3, <3>1, FS_AddElement
        <3> QED BY <2>3, <3>2
    <2>5. Newest(Keep) \in SUBSET (newer \cup {m})
        BY <2>1, <2>2 DEF Newest
    <2>6. Cardinality(Newest(Keep)) \in Nat /\ Cardinality(newer \cup {m}) \in Nat
        BY <2>4, <2>5, FS_Subset, FS_CardinalityType
    <2> QED BY <2>4, <2>5, <2>6, FS_Subset
<1> QED BY <1>1, <1>2

\* Alone, what a run does not mean to delete are at most Keep indices.
Pruned ==
    \A r \in Runs : step[r] = "pruning" => Cardinality(Existing \ victims[r]) <= Keep

LEMMA StepPruned == Consistent /\ ~overlap /\ Pruned /\ [Next]_vars => Pruned'
<1> SUFFICES ASSUME Consistent, ~overlap, Pruned, [Next]_vars PROVE Pruned'
    OBVIOUS
<1> USE DEF Consistent, Pruned, Goto
<1>1. ASSUME NEW r \in Runs, Build(r) \/ Create(r) \/ Load(r) \/ Verify(r) \/ Swap(r)
      PROVE  Pruned'
    <2>1. \A q \in Runs : q # r => step[q] = "idle"
        BY <1>1 DEF Alone, Solo, Build, Create, Load, Verify, Swap
    <2>2. PICK s \in Building \cup {"built"} : step' = [step EXCEPT ![r] = s]
        BY <1>1 DEF Building, Build, Create, Load, Verify, Swap
    <2>3. \A q \in Runs : step'[q] # "pruning"
        BY <2>1, <2>2 DEF TypeOK, Building
    <2> QED BY <2>3
<1>2. ASSUME NEW r \in Runs, Prune(r) PROVE Pruned'
    <2>1. Existing \ (Existing \ Newest(Keep)) = Newest(Keep)
        BY DEF Newest
    <2>2. /\ load' = load /\ step' = [step EXCEPT ![r] = "pruning"]
          /\ victims' = [victims EXCEPT ![r] = Existing \ Newest(Keep)]
          /\ \A q \in Runs : q # r => step'[q] = "idle"
        BY <1>2 DEF TypeOK, Alone, Solo, Prune
    <2>3. victims'[r] = Existing \ Newest(Keep)
        BY <2>2 DEF TypeOK
    <2>4. Cardinality(Existing' \ victims'[r]) <= Keep
        BY <2>1, <2>2, <2>3, NewestFew
    <2> QED BY <2>2, <2>4
<1>3. ASSUME NEW r \in Runs, NEW n \in Names, Delete(r, n) PROVE Pruned'
    <2>1. /\ step' = step /\ step[r] = "pruning" /\ \A q \in Runs : q # r => step[q] = "idle"
          /\ load' = [load EXCEPT ![n] = "absent"]
          /\ victims'[r] = victims[r] \ {n} /\ n \in victims[r]
        BY <1>3 DEF TypeOK, Alone, Solo, Delete
    <2>2. Existing' \ victims'[r] = Existing \ victims[r]
        BY <2>1 DEF TypeOK
    <2> QED BY <2>1, <2>2
<1>4. ASSUME NEW r \in Runs, Over(r) PROVE Pruned'
    BY <1>4 DEF Over
<1>5. CASE Publish \/ UNCHANGED vars
    BY <1>5 DEF Publish, vars
<1> QED BY <1>1, <1>2, <1>3, <1>4, <1>5, EndIsOver DEF Next

\* Without overlap a run that ends well leaves at most Keep indices, however
\* many failed runs before it left theirs.
THEOREM NonePiledUp == Spec => NoPileUp
<1> DEFINE IInv == Consistent /\ (~overlap => Pruned)
<1>1. Init => IInv
    BY InitConsistent DEF Init, Pruned
<1>2. IInv /\ [Next]_vars => IInv'
    BY StepConsistent, StepPruned, OverlapStays
<1>3. IInv /\ [Next]_vars =>
        [\A r \in Runs : ~overlap /\ Done(r) => Cardinality(Existing') <= Keep]_vars
    <2> SUFFICES ASSUME Pruned, NEW r \in Runs, Done(r)
                 PROVE  Cardinality(Existing') <= Keep
        OBVIOUS
    <2>1. Existing' = Existing \ victims[r] /\ step[r] = "pruning"
        BY DEF Done
    <2> QED BY <2>1 DEF Pruned
<1> QED BY <1>1, <1>2, <1>3, PTL DEF Spec, NoPileUp
=============================================================================
