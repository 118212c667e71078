--------------------------- MODULE AnswersProofs ---------------------------
(***************************************************************************)
(* For every database that ScenariosAssumption allows, and whatever clients *)
(* send: a list of a team builder is whole, whom it shows can be opened,    *)
(* the moves of a candidate have their newest wording, its abilities are    *)
(* those of the game's time, the pages of a Pokemon, a species and a move   *)
(* lose no row, a page and a candidate agree on the values of a move, and   *)
(* the national Pokedex is cut where the generations begin. ORDER BY is a   *)
(* ranking by how many rows come before, so the first part shows that such  *)
(* a ranking loses no row; then what each query of a list answers, what the *)
(* services make of the answers, what groups, sorts and joins keep, and the *)
(* invariants: Inv, a request holds what its queries answered at some       *)
(* moment since it began, and PageInv, which adds what each query of a page *)
(* answered.                                                                *)
(***************************************************************************)
EXTENDS Answers, FiniteSetTheorems, SequenceTheorems, FunctionTheorems,
        WellFoundedInduction, TLAPS

-----------------------------------------------------------------------------
(* Orders                                                                    *)

LEMMA Smallest ==
    ASSUME NEW S \in SUBSET Nat, S # {}
    PROVE  \E m \in S : \A n \in S : m <= n
<1>1. PICK m \in S : \A n \in S : <<n, m>> \notin OpToRel(<, Nat)
    BY NatLessThanWellFounded, WFMin, Zenon
<1>2. \A n \in S : ~(n < m)
    BY <1>1 DEF OpToRel
<1> QED BY <1>2

\* below[r] are the rows before r, in an order that leaves no two undecided.
Linear(below, S) ==
    /\ below \in [S -> SUBSET S]
    /\ \A r \in S : r \notin below[r]
    /\ \A r, s \in S : r \in below[s] => below[r] \subseteq below[s]
    /\ \A r, s \in S : r # s => r \in below[s] \/ s \in below[r]

\* No two rows have one rank, so every rank is somebody's.
LEMMA Ranked ==
    ASSUME NEW S, IsFiniteSet(S), NEW below, Linear(below, S)
    PROVE  /\ \A i \in 1 .. Cardinality(S) : \E r \in S : Cardinality(below[r]) = i - 1
           /\ \A r, s \in S : r \in below[s] => Cardinality(below[r]) < Cardinality(below[s])
<1> DEFINE n == Cardinality(S)
           rank == [r \in S |-> Cardinality(below[r]) + 1]
<1> USE DEF Linear
<1>1. n \in Nat
    BY FS_CardinalityType
<1>2. ASSUME NEW r \in S
      PROVE  IsFiniteSet(below[r]) /\ Cardinality(below[r]) \in Nat
    BY FS_Subset, FS_CardinalityType
<1>3. ASSUME NEW r \in S, NEW T \in SUBSET S, below[r] \cup {r} \subseteq T
      PROVE  Cardinality(below[r]) + 1 <= Cardinality(T)
    <2>1. IsFiniteSet(T) /\ Cardinality(T) \in Nat
        BY FS_Subset, FS_CardinalityType
    <2>2. Cardinality(below[r] \cup {r}) = Cardinality(below[r]) + 1
        BY <1>2, FS_AddElement
    <2>3. Cardinality(below[r] \cup {r}) <= Cardinality(T)
        BY <1>3, <2>1, FS_Subset
    <2> QED BY <2>2, <2>3
<1>4. \A r, s \in S : r \in below[s] => Cardinality(below[r]) < Cardinality(below[s])
    <2> SUFFICES ASSUME NEW r \in S, NEW s \in S, r \in below[s]
                 PROVE  Cardinality(below[r]) < Cardinality(below[s])
        OBVIOUS
    <2>1. below[r] \cup {r} \subseteq below[s] /\ below[s] \in SUBSET S
        OBVIOUS
    <2>2. Cardinality(below[r]) + 1 <= Cardinality(below[s])
        BY <2>1, <1>3
    <2> QED BY <2>2, <1>2
<1>5. rank \in [S -> 1 .. n]
    <2> SUFFICES ASSUME NEW r \in S PROVE Cardinality(below[r]) + 1 \in 1 .. n
        OBVIOUS
    <2>1. Cardinality(below[r]) + 1 <= n
        BY <1>3
    <2> QED BY <1>1, <1>2, <2>1
<1>6. \A r, s \in S : rank[r] = rank[s] => r = s
    <2> SUFFICES ASSUME NEW r \in S, NEW s \in S, r # s PROVE rank[r] # rank[s]
        OBVIOUS
    <2>1. Cardinality(below[r]) # Cardinality(below[s])
        BY <1>2, <1>4
    <2> QED BY <1>2, <2>1
<1> HIDE DEF rank
<1>7. rank \in Injection(S, 1 .. n)
    BY <1>5, <1>6 DEF Injection, IsInjective
<1>8. IsFiniteSet(1 .. n) /\ Cardinality(1 .. n) = n
    BY <1>1, FS_Interval
<1>9. rank \in Surjection(S, 1 .. n)
    BY <1>7, <1>8, FS_Injection
<1>10. ASSUME NEW i \in 1 .. n PROVE \E r \in S : Cardinality(below[r]) = i - 1
    <2>1. PICK r \in S : rank[r] = i
        BY <1>9 DEF Surjection
    <2>2. Cardinality(below[r]) + 1 = i
        BY <2>1 DEF rank
    <2> QED BY <2>2, <1>2
<1> QED BY <1>4, <1>10

\* A list that puts each row at its rank holds every row, once, in order.
PutAtRank(list, below, S) ==
    /\ list \in [1 .. Cardinality(S) -> S]
    /\ \A i \in 1 .. Cardinality(S) : Cardinality(below[list[i]]) = i - 1

LEMMA Listing ==
    ASSUME NEW S, IsFiniteSet(S), NEW below, Linear(below, S),
           NEW list, PutAtRank(list, below, S)
    PROVE  /\ list \in Seq(S)
           /\ \A r \in S : \E i \in 1 .. Len(list) : list[i] = r
           /\ \A i, j \in 1 .. Len(list) : i < j => list[i] \in below[list[j]]
<1> DEFINE n == Cardinality(S)
<1> USE DEF Linear, PutAtRank
<1>1. n \in Nat
    BY FS_CardinalityType
<1> HIDE DEF n
<1>2. list \in [1 .. n -> S]
    BY DEF n
<1>3. list \in Seq(S) /\ Len(list) = n
    <2>1. list \in Seq(S)
        <3>1. [1 .. n -> S] \in {[1 .. k -> S] : k \in Nat}
            BY <1>1
        <3>2. list \in UNION {[1 .. k -> S] : k \in Nat}
            BY <1>2, <3>1, Zenon
        <3> QED BY <3>2, SeqDef, Zenon
    <2>2. DOMAIN list = 1 .. n /\ DOMAIN list = 1 .. Len(list) /\ Len(list) \in Nat
        BY <1>2, <2>1, LenProperties
    <2>3. \A k \in Nat : k \in 1 .. n <=> k \in 1 .. Len(list)
        BY <2>2
    <2>4. n <= Len(list)
        BY <1>1, <2>2, <2>3
    <2>5. Len(list) <= n
        BY <1>1, <2>2, <2>3
    <2> QED BY <1>1, <2>1, <2>2, <2>4, <2>5
<1>4. \A r, s \in S : r \in below[s] => Cardinality(below[r]) < Cardinality(below[s])
    <2> HIDE DEF Linear, PutAtRank
    <2> QED BY Ranked
<1>5. ASSUME NEW r \in S PROVE \E i \in 1 .. n : list[i] = r
    <2> DEFINE m == Cardinality(below[r]) + 1
    <2>1. IsFiniteSet(below[r]) /\ Cardinality(below[r]) \in Nat
        BY FS_Subset, FS_CardinalityType
    <2>2. below[r] \cup {r} \in SUBSET S
        OBVIOUS
    <2>3. Cardinality(below[r] \cup {r}) = Cardinality(below[r]) + 1
        BY <2>1, FS_AddElement
    <2>4. m <= n
        BY <2>2, <2>3, FS_Subset DEF n
    <2>5. m \in 1 .. n
        BY <2>1, <2>4, <1>1
    <2>6. list[m] \in S /\ Cardinality(below[list[m]]) = m - 1
        BY <2>5 DEF n
    <2>7. Cardinality(below[list[m]]) = Cardinality(below[r])
        BY <2>1, <2>6
    <2>8. list[m] = r
        <3> HIDE DEF m
        <3> QED BY <1>4, <2>1, <2>6, <2>7
    <2> QED BY <2>5, <2>8
<1>6. ASSUME NEW i \in 1 .. n, NEW j \in 1 .. n, i < j PROVE list[i] \in below[list[j]]
    <2>1. /\ list[i] \in S /\ list[j] \in S
          /\ Cardinality(below[list[i]]) = i - 1 /\ Cardinality(below[list[j]]) = j - 1
        BY DEF n
    <2>2. Cardinality(below[list[i]]) < Cardinality(below[list[j]])
        BY <1>6, <2>1
    <2>3. list[i] # list[j] /\ list[j] \notin below[list[i]]
        BY <1>4, <1>6, <2>1, <2>2
    <2> QED BY <2>1, <2>3
<1> QED BY <1>3, <1>5, <1>6 DEF n

LEMMA Before2 == \A a, b, c, d \in Int :
    Before(<<a, b>>, <<c, d>>) <=> a < c \/ (a = c /\ b < d)
BY DEF Before

LEMMA Before3 == \A a, b, c, d, e, f \in Int :
    Before(<<a, b, c>>, <<d, e, f>>) <=>
        a < d \/ (a = d /\ b < e) \/ (a = d /\ b = e /\ c < f)
BY DEF Before

\* What a list shows: every row of the set, and no other.
Shows(list, S) == /\ list \in Seq(S)
                  /\ \A r \in S : \E i \in 1 .. Len(list) : list[i] = r

\* In the order of their keys.
Sorted(list, key) == \A i, j \in 1 .. Len(list) :
    i < j => Before(key[list[i]], key[list[j]])

\* In the order of numbers, and of ids where they are equal.
Rises(list) == \A i, j \in 1 .. Len(list) : i < j =>
    \/ list[i].num < list[j].num
    \/ list[i].num = list[j].num /\ list[i].id < list[j].id

\* Keys are compared column by column, which orders them.
LEMMA BeforeOrders ==
    ASSUME NEW n \in Nat, NEW a \in [1 .. n -> Int], NEW b \in [1 .. n -> Int],
           NEW c \in [1 .. n -> Int]
    PROVE  /\ ~Before(a, a)
           /\ Before(a, b) /\ Before(b, c) => Before(a, c)
           /\ a # b => Before(a, b) \/ Before(b, a)
<1>1. ~Before(a, a)
    BY DEF Before
<1>2. ASSUME Before(a, b), Before(b, c) PROVE Before(a, c)
    <2>1. PICK k \in 1 .. n : a[k] < b[k] /\ \A j \in 1 .. k - 1 : a[j] = b[j]
        BY <1>2 DEF Before
    <2>2. PICK l \in 1 .. n : b[l] < c[l] /\ \A j \in 1 .. l - 1 : b[j] = c[j]
        BY <1>2 DEF Before
    <2>3. CASE k < l
        <3>1. a[k] < c[k] /\ \A j \in 1 .. k - 1 : a[j] = c[j]
            <4>1. k \in 1 .. l - 1 /\ \A j \in 1 .. k - 1 : j \in 1 .. l - 1
                BY <2>3
            <4> QED BY <2>1, <2>2, <4>1
        <3> QED BY <3>1 DEF Before
    <2>4. CASE k = l
        <3>1. a[k] < c[k] /\ \A j \in 1 .. k - 1 : a[j] = c[j]
            BY <2>1, <2>2, <2>4
        <3> QED BY <3>1 DEF Before
    <2>5. CASE l < k
        <3>1. a[l] < c[l] /\ \A j \in 1 .. l - 1 : a[j] = c[j]
            <4>1. l \in 1 .. k - 1 /\ \A j \in 1 .. l - 1 : j \in 1 .. k - 1
                BY <2>5
            <4> QED BY <2>1, <2>2, <4>1
        <3> QED BY <3>1 DEF Before
    <2> QED BY <2>3, <2>4, <2>5
<1>3. ASSUME a # b PROVE Before(a, b) \/ Before(b, a)
    <2> DEFINE T == {k \in 1 .. n : a[k] # b[k]}
    <2>1. T \in SUBSET Nat /\ T # {}
        <3>1. (\A k \in 1 .. n : a[k] = b[k]) => a = b
            OBVIOUS
        <3>2. \E k \in 1 .. n : a[k] # b[k]
            BY <1>3, <3>1
        <3>3. T # {}
            BY <3>2
        <3>4. T \subseteq Nat
            OBVIOUS
        <3> QED BY <3>3, <3>4
    <2>2. PICK k \in T : \A j \in T : k <= j
        BY <2>1, Smallest
    <2>3. k \in 1 .. n /\ a[k] # b[k] /\ a[k] \in Int /\ b[k] \in Int
        BY <2>2
    <2>4. \A j \in 1 .. k - 1 : a[j] = b[j]
        BY <2>2, <2>3
    <2>5. a[k] < b[k] \/ b[k] < a[k]
        BY <2>3
    <2> QED BY <2>3, <2>4, <2>5 DEF Before
<1> QED BY <1>1, <1>2, <1>3

\* Each row of S has a key of n numbers of its own.
KeyOf(key, S, n) == /\ key \in [S -> [1 .. n -> Int]]
                    /\ \A r, s \in S : key[r] = key[s] => r = s

\* ORDER BY loses no row and sorts them, as long as no two rows have one key.
LEMMA Arranging ==
    ASSUME NEW S, IsFiniteSet(S), NEW n \in Nat, NEW key, KeyOf(key, S, n)
    PROVE  Shows(ByKey(S, key), S) /\ Sorted(ByKey(S, key), key)
<1> DEFINE below == [r \in S |-> {s \in S : Before(key[s], key[r])}]
           list == ByKey(S, key)
<1>1. \A r \in S : key[r] \in [1 .. n -> Int]
    BY DEF KeyOf
<1>2. list = [i \in 1 .. Cardinality(S) |->
                 CHOOSE r \in S : Cardinality({s \in S : Before(key[s], key[r])}) = i - 1]
    BY DEF ByKey
<1> HIDE DEF list
<1>3. /\ below \in [S -> SUBSET S]
      /\ \A r, s \in S : s \in below[r] <=> Before(key[s], key[r])
      /\ \A r \in S : below[r] = {s \in S : Before(key[s], key[r])}
    OBVIOUS
<1> HIDE DEF below
<1>4. \A r \in S : r \notin below[r]
    BY <1>1, <1>3, BeforeOrders
<1>5. \A r, s \in S : r \in below[s] => below[r] \subseteq below[s]
    <2>1. ASSUME NEW r \in S, NEW s \in S, r \in below[s], NEW q \in below[r]
          PROVE  q \in below[s]
        <3>1. q \in S /\ Before(key[q], key[r]) /\ Before(key[r], key[s])
            BY <1>3, <2>1
        <3>2. Before(key[q], key[s])
            BY <1>1, <3>1, BeforeOrders
        <3> QED BY <1>3, <3>1, <3>2
    <2> QED BY <2>1
<1>6. \A r, s \in S : r # s => r \in below[s] \/ s \in below[r]
    <2>1. ASSUME NEW r \in S, NEW s \in S, r # s
          PROVE  Before(key[r], key[s]) \/ Before(key[s], key[r])
        BY <1>1, <2>1, BeforeOrders DEF KeyOf
    <2> QED BY <1>3, <2>1
<1>7. Linear(below, S)
    BY <1>3, <1>4, <1>5, <1>6 DEF Linear
<1>8. \A i \in 1 .. Cardinality(S) : \E r \in S : Cardinality(below[r]) = i - 1
    BY <1>7, Ranked
<1>9. ASSUME NEW i \in 1 .. Cardinality(S)
      PROVE  list[i] \in S /\ Cardinality(below[list[i]]) = i - 1
    <2>1. list[i] = CHOOSE r \in S : Cardinality({s \in S : Before(key[s], key[r])}) = i - 1
        BY <1>2
    <2>2. \E r \in S : Cardinality({s \in S : Before(key[s], key[r])}) = i - 1
        BY <1>3, <1>8
    <2>3. list[i] \in S /\ Cardinality({s \in S : Before(key[s], key[list[i]])}) = i - 1
        BY <2>1, <2>2
    <2> QED BY <1>3, <2>3
<1>10. list \in [1 .. Cardinality(S) -> S]
    BY <1>2, <1>9
<1>11. PutAtRank(list, below, S)
    BY <1>9, <1>10 DEF PutAtRank
<1>12. /\ list \in Seq(S)
       /\ \A r \in S : \E i \in 1 .. Len(list) : list[i] = r
       /\ \A i, j \in 1 .. Len(list) : i < j => list[i] \in below[list[j]]
    BY <1>11, <1>7, Listing
<1>13. ASSUME NEW i \in 1 .. Len(list), NEW j \in 1 .. Len(list), i < j
       PROVE  Before(key[list[i]], key[list[j]])
    <2>1. list[i] \in S /\ list[j] \in S
        BY <1>12, ElementOfSeq
    <2> QED BY <1>3, <1>12, <1>13, <2>1
<1>14. Shows(list, S) /\ Sorted(list, key)
    BY <1>12, <1>13 DEF Shows, Sorted
<1> QED BY <1>14 DEF list

LEMMA ByNumAltId ==
    ASSUME NEW S, IsFiniteSet(S),
           \A r \in S : r.num \in Int /\ r.alt \in Int /\ r.id \in Int,
           \A r, s \in S : r.num = s.num /\ r.alt = s.alt /\ r.id = s.id => r = s
    PROVE  Shows(OrderBy(S, LAMBDA r : <<r.num, r.alt, r.id>>), S)
<1> DEFINE key == [r \in S |-> <<r.num, r.alt, r.id>>]
           list == OrderBy(S, LAMBDA r : <<r.num, r.alt, r.id>>)
<1>1. key \in [S -> [1 .. 3 -> Int]]
    OBVIOUS
<1>2. KeyOf(key, S, 3)
    BY <1>1 DEF KeyOf
<1>3. list = ByKey(S, key)
    BY DEF OrderBy
<1> HIDE DEF key, list
<1>4. Shows(list, S)
    BY <1>2, <1>3, Arranging
<1> QED BY <1>4 DEF list

LEMMA ByNumId ==
    ASSUME NEW S, IsFiniteSet(S),
           \A r \in S : r.num \in Int /\ r.id \in Int,
           \A r, s \in S : r.num = s.num /\ r.id = s.id => r = s
    PROVE  /\ Shows(OrderBy(S, LAMBDA r : <<r.num, r.id>>), S)
           /\ Rises(OrderBy(S, LAMBDA r : <<r.num, r.id>>))
<1> DEFINE key == [r \in S |-> <<r.num, r.id>>]
           list == OrderBy(S, LAMBDA r : <<r.num, r.id>>)
<1>1. key \in [S -> [1 .. 2 -> Int]]
    OBVIOUS
<1>2. KeyOf(key, S, 2)
    BY <1>1 DEF KeyOf
<1>3. list = ByKey(S, key)
    BY DEF OrderBy
<1>4. \A r \in S : key[r] = <<r.num, r.id>>
    OBVIOUS
<1> HIDE DEF key, list
<1>5. Shows(list, S) /\ Sorted(list, key)
    BY <1>2, <1>3, Arranging
<1>6. ASSUME NEW i \in 1 .. Len(list), NEW j \in 1 .. Len(list), i < j
      PROVE  \/ list[i].num < list[j].num
             \/ list[i].num = list[j].num /\ list[i].id < list[j].id
    <2>1. list[i] \in S /\ list[j] \in S
        BY <1>5, ElementOfSeq DEF Shows
    <2> DEFINE a == list[i].num  b == list[i].id  c == list[j].num  d == list[j].id
    <2>2. a \in Int /\ b \in Int /\ c \in Int /\ d \in Int
        BY <2>1
    <2>3. Before(<<a, b>>, <<c, d>>)
        BY <1>4, <1>5, <1>6, <2>1 DEF Sorted
    <2> HIDE DEF a, b, c, d
    <2>4. a < c \/ (a = c /\ b < d)
        BY <2>2, <2>3, Before2
    <2> QED BY <2>4 DEF a, b, c, d
<1>7. Rises(list)
    BY <1>6 DEF Rises
<1> QED BY <1>5, <1>7 DEF list

-----------------------------------------------------------------------------
(* The tables                                                                *)

Stages == {"before", "after"}
\* Stage h is not before stage g.
Till(g, h) == g = h \/ (g = "before" /\ h = "after")

\* What ScenariosAssumption says of the tables of one moment.
Keyed(d) ==
    /\ IsFiniteSet(d.pokemon) /\ IsFiniteSet(d.dexnumber)
    /\ \A p \in d.pokemon : p.id \in Nat /\ p.species \in Nat \ {0}
    /\ \A p, q \in d.pokemon : p.id = q.id => p = q
    /\ \A t \in d.pasttypes : t.gen \in Nat
    /\ \A t, u \in d.pasttypes : t.pokemon = u.pokemon => t = u
    /\ \A n \in d.dexnumber : n.num \in Nat
    /\ \A m, n \in d.dexnumber : m.dex = n.dex /\ m.num = n.num => m = n
    /\ \A w \in d.movedescriptions : w.text # ""

\* Every row of d is in e too.
Within(d, e) ==
    /\ d.pokemon \subseteq e.pokemon
    /\ d.dexnumber \subseteq e.dexnumber
    /\ d.movedetails \subseteq e.movedetails
    /\ d.movedescriptions \subseteq e.movedescriptions

LEMMA DataKeyed ==
    ASSUME NEW s \in Scenarios, NEW g \in Stages
    PROVE  Keyed(s[g])
<1>1. \A t \in DOMAIN Tables : s.before[t] \subseteq s.after[t] /\ IsFiniteSet(s.after[t])
    BY ScenariosAssumption
<1>2. /\ s.before.pokemon \subseteq s.after.pokemon /\ IsFiniteSet(s.after.pokemon)
      /\ s.before.dexnumber \subseteq s.after.dexnumber /\ IsFiniteSet(s.after.dexnumber)
      /\ s.before.pasttypes \subseteq s.after.pasttypes
      /\ s.before.movedescriptions \subseteq s.after.movedescriptions
    BY <1>1 DEF Tables
<1>3. Keyed(s.after)
    BY <1>2, ScenariosAssumption DEF Keyed
<1>4. IsFiniteSet(s.before.pokemon) /\ IsFiniteSet(s.before.dexnumber)
    BY <1>2, FS_Subset
<1>5. Keyed(s.before)
    BY <1>2, <1>3, <1>4 DEF Keyed
<1> QED BY <1>3, <1>5 DEF Stages

LEMMA DataGrows ==
    ASSUME NEW s \in Scenarios, NEW g \in Stages, NEW h \in Stages, Till(g, h)
    PROVE  Within(s[g], s[h])
<1>1. \A t \in DOMAIN Tables : s.before[t] \subseteq s.after[t]
    BY ScenariosAssumption
<1>2. Within(s.before, s.after)
    BY <1>1 DEF Tables, Within
<1> QED BY <1>2 DEF Till, Stages, Within

\* With one past typing each, what a Pokemon's types were is no choice.
TypeOf(d, p, gen) == One(TypesIn(d, p, gen))

LEMMA OneTyping ==
    ASSUME NEW d, Keyed(d), NEW p \in d.pokemon, NEW gen
    PROVE  TypesIn(d, p, gen) = {TypeOf(d, p, gen)} /\ TypeOf(d, p, gen) \in AllTypes(d)
<1>1. \A x, y \in TypesIn(d, p, gen) : x = y
    BY DEF TypesIn, OrElse, PastTypes, Keyed
<1>2. TypesIn(d, p, gen) # {} /\ TypesIn(d, p, gen) \subseteq AllTypes(d)
    BY DEF TypesIn, OrElse, PastTypes, AllTypes
<1> QED BY <1>1, <1>2 DEF TypeOf, One

-----------------------------------------------------------------------------
(* The lists                                                                 *)

\* d has the Pokemon in a Pokedex.
InDex(d, dex, id) == \E n \in d.dexnumber : n.dex = dex /\ Lists(n, id)
Learns(d, version, id) == \E m \in d.movedetails : m.pokemon = id /\ m.version = version

\* The rows of a region are its Pokemon, each with the types of its generation.
LEMMA RegionList ==
    ASSUME NEW d, Keyed(d), NEW gen, NEW dex
    PROVE  \E S :
        /\ Shows(GetTeamCandidatesByRegion(d, gen, dex), S)
        /\ \A r \in S : \E p \in d.pokemon :
               InDex(d, dex, p.id) /\ r.id = p.id /\ r.types = TypeOf(d, p, gen)
        /\ \A p \in d.pokemon : InDex(d, dex, p.id) => \E r \in S : r.id = p.id
<1> DEFINE row(n, p) == [num |-> n.num, alt |-> IF p.id = n.default THEN 0 ELSE 1,
                         id |-> p.id, types |-> TypeOf(d, p, gen)]
           pairs == {j \in d.dexnumber \X d.pokemon :
                        j[1].dex = dex /\ Lists(j[1], j[2].id)}
           joined == {j \in d.dexnumber \X d.pokemon \X AllTypes(d) :
                        /\ j[1].dex = dex
                        /\ Lists(j[1], j[2].id)
                        /\ j[3] \in TypesIn(d, j[2], gen)}
           R == {[num |-> j[1].num, alt |-> IF j[2].id = j[1].default THEN 0 ELSE 1,
                  id |-> j[2].id, types |-> j[3]] : j \in joined}
           S == {row(j[1], j[2]) : j \in pairs}
<1>1. R = S
    <2>1. ASSUME NEW j \in joined
          PROVE  /\ <<j[1], j[2]>> \in pairs
                 /\ [num |-> j[1].num, alt |-> IF j[2].id = j[1].default THEN 0 ELSE 1,
                     id |-> j[2].id, types |-> j[3]] = row(j[1], j[2])
        <3>1. j[3] = TypeOf(d, j[2], gen)
            BY OneTyping
        <3> QED BY <3>1
    <2>2. ASSUME NEW j \in pairs
          PROVE  /\ <<j[1], j[2], TypeOf(d, j[2], gen)>> \in joined
        BY OneTyping
    <2>3. ASSUME NEW r \in R PROVE r \in S
        <3>1. PICK j \in joined : r = [num |-> j[1].num,
                  alt |-> IF j[2].id = j[1].default THEN 0 ELSE 1,
                  id |-> j[2].id, types |-> j[3]]
            OBVIOUS
        <3> DEFINE k == <<j[1], j[2]>>
        <3>2. k \in pairs /\ r = row(k[1], k[2])
            BY <2>1, <3>1
        <3> QED BY <3>2
    <2>4. ASSUME NEW r \in S PROVE r \in R
        <3>1. PICK j \in pairs : r = row(j[1], j[2])
            OBVIOUS
        <3> DEFINE k == <<j[1], j[2], TypeOf(d, j[2], gen)>>
        <3>2. k \in joined
            BY <2>2
        <3>3. r = [num |-> k[1].num, alt |-> IF k[2].id = k[1].default THEN 0 ELSE 1,
                   id |-> k[2].id, types |-> k[3]]
            BY <3>1
        <3> QED BY <3>2, <3>3
    <2> QED BY <2>3, <2>4
<1>2. GetTeamCandidatesByRegion(d, gen, dex) = OrderBy(S, LAMBDA r : <<r.num, r.alt, r.id>>)
    BY <1>1 DEF GetTeamCandidatesByRegion, RegionRows
<1>3. IsFiniteSet(S)
    <2>1. IsFiniteSet(d.dexnumber \X d.pokemon)
        BY FS_Product DEF Keyed
    <2>2. IsFiniteSet(pairs)
        BY <2>1, FS_Subset
    <2> DEFINE f == [j \in pairs |-> row(j[1], j[2])]
    <2>3. f \in Surjection(pairs, S)
        BY DEF Surjection
    <2> HIDE DEF f, pairs, S
    <2> QED BY <2>2, <2>3, FS_Surjection
<1>4. \A r \in S : \E n \in d.dexnumber, p \in d.pokemon :
          n.dex = dex /\ Lists(n, p.id) /\ r = row(n, p)
    OBVIOUS
<1>5. \A n \in d.dexnumber, p \in d.pokemon :
          n.dex = dex /\ Lists(n, p.id) => row(n, p) \in S
    <2> SUFFICES ASSUME NEW n \in d.dexnumber, NEW p \in d.pokemon,
                        n.dex = dex, Lists(n, p.id)
                 PROVE  row(n, p) \in S
        OBVIOUS
    <2>1. <<n, p>> \in pairs
        OBVIOUS
    <2> QED BY <2>1
<1> HIDE DEF S, R, joined, pairs
<1>6. ASSUME NEW r \in S PROVE r.num \in Int /\ r.alt \in Int /\ r.id \in Int
    <2>1. PICK n \in d.dexnumber, p \in d.pokemon : r = row(n, p)
        BY <1>4
    <2>2. n.num \in Nat /\ p.id \in Nat
        BY DEF Keyed
    <2> QED BY <2>1, <2>2
<1>7. \A r, s \in S : r.num = s.num /\ r.alt = s.alt /\ r.id = s.id => r = s
    <2> SUFFICES ASSUME NEW r \in S, NEW s \in S, r.num = s.num, r.id = s.id
                 PROVE  r = s
        OBVIOUS
    <2>1. PICK n \in d.dexnumber, p \in d.pokemon : n.dex = dex /\ r = row(n, p)
        BY <1>4
    <2>2. PICK m \in d.dexnumber, q \in d.pokemon : m.dex = dex /\ s = row(m, q)
        BY <1>4
    <2>3. n.num = m.num /\ p.id = q.id
        BY <2>1, <2>2
    <2>4. n = m /\ p = q
        BY <2>1, <2>2, <2>3 DEF Keyed
    <2> QED BY <2>1, <2>2, <2>4
<1>8. Shows(GetTeamCandidatesByRegion(d, gen, dex), S)
    BY <1>2, <1>3, <1>6, <1>7, ByNumAltId
<1>9. \A r \in S : \E p \in d.pokemon :
          InDex(d, dex, p.id) /\ r.id = p.id /\ r.types = TypeOf(d, p, gen)
    <2> SUFFICES ASSUME NEW r \in S
                 PROVE  \E p \in d.pokemon :
                     InDex(d, dex, p.id) /\ r.id = p.id /\ r.types = TypeOf(d, p, gen)
        OBVIOUS
    <2>1. PICK n \in d.dexnumber, p \in d.pokemon :
              n.dex = dex /\ Lists(n, p.id) /\ r = row(n, p)
        BY <1>4
    <2> QED BY <2>1 DEF InDex
<1>10. \A p \in d.pokemon : InDex(d, dex, p.id) => \E r \in S : r.id = p.id
    <2> SUFFICES ASSUME NEW p \in d.pokemon, NEW n \in d.dexnumber,
                        n.dex = dex, Lists(n, p.id)
                 PROVE  \E r \in S : r.id = p.id
        BY DEF InDex
    <2>1. row(n, p) \in S /\ row(n, p).id = p.id
        BY <1>5
    <2> QED BY <2>1
<1> QED BY <1>8, <1>9, <1>10

\* The rows of the national list are all Pokemon with today's types.
LEMMA NationalList ==
    ASSUME NEW d, Keyed(d)
    PROVE  \E S :
        /\ Shows(NationalRows(d), S)
        /\ \A r \in S : \E p \in d.pokemon : r.id = p.id /\ r.types = p.types
        /\ \A p \in d.pokemon : \E r \in S : r.id = p.id
        /\ Rises(NationalRows(d))
        /\ \A r \in S : r.num \in Nat \ {0} /\ r.id \in Nat
        /\ \A r, s \in S : r.id = s.id => r = s
<1> DEFINE row(p) == [num |-> p.species, id |-> p.id, types |-> p.types]
           S == {row(p) : p \in d.pokemon}
<1>1. NationalRows(d) = OrderBy(S, LAMBDA r : <<r.num, r.id>>)
    BY DEF NationalRows
<1>2. IsFiniteSet(S)
    <2> DEFINE f == [p \in d.pokemon |-> row(p)]
    <2>1. f \in Surjection(d.pokemon, S)
        BY DEF Surjection
    <2>2. IsFiniteSet(d.pokemon)
        BY DEF Keyed
    <2> HIDE DEF f, S
    <2> QED BY <2>1, <2>2, FS_Surjection
<1>3. ASSUME NEW r \in S PROVE r.num \in Nat \ {0} /\ r.id \in Nat
    <2>1. PICK p \in d.pokemon : r = row(p)
        OBVIOUS
    <2>2. p.species \in Nat \ {0} /\ p.id \in Nat
        BY DEF Keyed
    <2> QED BY <2>1, <2>2
<1>4. ASSUME NEW r \in S, NEW s \in S, r.id = s.id
      PROVE  r = s
    <2>1. PICK p \in d.pokemon, q \in d.pokemon : r = row(p) /\ s = row(q)
        OBVIOUS
    <2>2. p.id = q.id
        BY <1>4, <2>1
    <2>3. p = q
        BY <2>2 DEF Keyed
    <2> QED BY <2>1, <2>3
<1> HIDE DEF S
<1>5. Shows(NationalRows(d), S) /\ Rises(NationalRows(d))
    <2>1. \A r \in S : r.num \in Int /\ r.id \in Int
        BY <1>3
    <2>2. \A r, s \in S : r.num = s.num /\ r.id = s.id => r = s
        BY <1>4
    <2> QED BY <1>1, <1>2, <2>1, <2>2, ByNumId
<1>6. \A r \in S : \E p \in d.pokemon : r.id = p.id /\ r.types = p.types
    BY DEF S
<1>7. \A p \in d.pokemon : \E r \in S : r.id = p.id
    <2> SUFFICES ASSUME NEW p \in d.pokemon PROVE \E r \in S : r.id = p.id
        OBVIOUS
    <2>1. row(p) \in S /\ row(p).id = p.id
        BY DEF S
    <2> QED BY <2>1
<1> QED BY <1>3, <1>4, <1>5, <1>6, <1>7

\* The rows of a game are the Pokemon with a learnset in it.
LEMMA LearnsetList ==
    ASSUME NEW d, Keyed(d), NEW gen, NEW version
    PROVE  \E S :
        /\ Shows(GetTeamCandidatesNationalByVersionGroup(d, gen, version), S)
        /\ \A r \in S : \E p \in d.pokemon :
               Learns(d, version, p.id) /\ r.id = p.id /\ r.types = TypeOf(d, p, gen)
        /\ \A p \in d.pokemon : Learns(d, version, p.id) => \E r \in S : r.id = p.id
<1> DEFINE row(p) == [num |-> p.species, id |-> p.id, types |-> TypeOf(d, p, gen)]
           those == {p \in d.pokemon : Learns(d, version, p.id)}
           joined == {j \in d.pokemon \X AllTypes(d) :
               /\ \E md \in d.movedetails :
                      md.pokemon = j[1].id /\ md.version = version
               /\ j[2] \in TypesIn(d, j[1], gen)}
           R == {[num |-> j[1].species, id |-> j[1].id, types |-> j[2]] : j \in joined}
           S == {row(p) : p \in those}
<1>1. R = S
    <2>1. ASSUME NEW j \in joined
          PROVE  /\ j[1] \in those
                 /\ [num |-> j[1].species, id |-> j[1].id, types |-> j[2]] = row(j[1])
        <3>1. j[2] = TypeOf(d, j[1], gen)
            BY OneTyping
        <3> QED BY <3>1 DEF Learns
    <2>2. ASSUME NEW p \in those
          PROVE  <<p, TypeOf(d, p, gen)>> \in joined
        BY OneTyping DEF Learns
    <2>3. R \subseteq S
        BY <2>1
    <2>4. ASSUME NEW r \in S PROVE r \in R
        <3>1. PICK p \in those : r = row(p)
            OBVIOUS
        <3> DEFINE k == <<p, TypeOf(d, p, gen)>>
        <3>2. k \in joined
            BY <2>2
        <3>3. r = [num |-> k[1].species, id |-> k[1].id, types |-> k[2]]
            BY <3>1
        <3> QED BY <3>2, <3>3
    <2> QED BY <2>3, <2>4
<1>2. GetTeamCandidatesNationalByVersionGroup(d, gen, version)
          = OrderBy(S, LAMBDA r : <<r.num, r.id>>)
    BY <1>1 DEF GetTeamCandidatesNationalByVersionGroup
<1>3. IsFiniteSet(S)
    <2> DEFINE f == [p \in those |-> row(p)]
    <2>1. f \in Surjection(those, S)
        BY DEF Surjection
    <2>2. IsFiniteSet(those)
        BY FS_Subset DEF Keyed
    <2> HIDE DEF f, S, those
    <2> QED BY <2>1, <2>2, FS_Surjection
<1>4. ASSUME NEW r \in S PROVE r.num \in Int /\ r.id \in Int
    <2>1. PICK p \in those : r = row(p)
        OBVIOUS
    <2>2. p.species \in Nat /\ p.id \in Nat
        BY DEF Keyed
    <2> QED BY <2>1, <2>2
<1>5. ASSUME NEW r \in S, NEW s \in S, r.num = s.num /\ r.id = s.id
      PROVE  r = s
    <2>1. PICK p \in those, q \in those : r = row(p) /\ s = row(q)
        OBVIOUS
    <2>2. p.id = q.id
        BY <1>5, <2>1
    <2>3. p = q
        BY <2>2 DEF Keyed
    <2> QED BY <2>1, <2>3
<1> HIDE DEF S, R, joined
<1>6. Shows(GetTeamCandidatesNationalByVersionGroup(d, gen, version), S)
    BY <1>2, <1>3, <1>4, <1>5, ByNumId
<1>7. \A r \in S : \E p \in d.pokemon :
          Learns(d, version, p.id) /\ r.id = p.id /\ r.types = TypeOf(d, p, gen)
    BY DEF S
<1>8. \A p \in d.pokemon : Learns(d, version, p.id) => \E r \in S : r.id = p.id
    <2> SUFFICES ASSUME NEW p \in those PROVE \E r \in S : r.id = p.id
        OBVIOUS
    <2>1. row(p) \in S /\ row(p).id = p.id
        BY DEF S
    <2> QED BY <2>1
<1> QED BY <1>6, <1>7, <1>8

-----------------------------------------------------------------------------
(* What no region has shown                                                  *)

New(groups, r) == \A g \in DOMAIN groups :
    \A i \in DOMAIN groups[g].pokemon : groups[g].pokemon[i].id # r.id
NewIn(groups, S) == {r \in S : New(groups, r)}
NoneLost(groups, rows) == \A i \in 1 .. Len(rows) : New(groups, rows[i]) =>
    \E j \in 1 .. Len(Unseen(groups, rows)) : Unseen(groups, rows)[j] = rows[i]

\* f is the recursive function Unseen defines, up to m.
Fits(f, m, groups, rows) ==
    f = [i \in 0 .. m |->
            IF i = 0 THEN <<>>
            ELSE IF New(groups, rows[i]) THEN Append(f[i - 1], rows[i])
            ELSE f[i - 1]]

LEMMA FitsAt ==
    ASSUME NEW groups, NEW rows, NEW f, NEW m \in Nat, Fits(f, m, groups, rows),
           NEW n \in 0 .. m
    PROVE  f[n] = IF n = 0 THEN <<>>
                  ELSE IF New(groups, rows[n]) THEN Append(f[n - 1], rows[n])
                  ELSE f[n - 1]
<1> DEFINE At(k) == IF k = 0 THEN <<>>
                    ELSE IF New(groups, rows[k]) THEN Append(f[k - 1], rows[k])
                    ELSE f[k - 1]
<1>1. f = [k \in 0 .. m |-> At(k)]
    BY DEF Fits
<1> HIDE DEF At
<1>2. f[n] = At(n)
    BY <1>1, Zenon
<1> QED BY <1>2 DEF At

LEMMA FitsExists ==
    ASSUME NEW groups, NEW rows, NEW N \in Nat
    PROVE  \E f : Fits(f, N, groups, rows)
<1> DEFINE S == {m \in Nat : ~ \E f : Fits(f, m, groups, rows)}
<1> SUFFICES ASSUME S # {} PROVE FALSE
    OBVIOUS
<1> HIDE DEF S
<1>1. S \in SUBSET Nat
    BY DEF S
<1>2. PICK m \in S : \A n \in S : m <= n
    BY <1>1, Smallest
<1>3. CASE m = 0
    <2> DEFINE f == [n \in 0 .. 0 |-> <<>>]
    <2>1. Fits(f, 0, groups, rows)
        BY DEF Fits
    <2> QED BY <2>1, <1>3, <1>2 DEF S
<1>4. CASE m # 0
    <2>1. m \in Nat /\ m - 1 \in Nat /\ m - 1 \notin S
        BY <1>1, <1>2, <1>4
    <2>2. PICK g : Fits(g, m - 1, groups, rows)
        BY <2>1 DEF S
    <2> DEFINE f == [n \in 0 .. m |->
            IF n = 0 THEN <<>>
            ELSE IF New(groups, rows[n]) THEN Append(g[n - 1], rows[n])
            ELSE g[n - 1]]
    <2>3. ASSUME NEW n \in 0 .. m - 1
          PROVE  f[n] = g[n]
        <3>1. n \in 0 .. m
            BY <2>1
        <3>2. g[n] = IF n = 0 THEN <<>>
                     ELSE IF New(groups, rows[n]) THEN Append(g[n - 1], rows[n])
                     ELSE g[n - 1]
            BY <2>1, <2>2, FitsAt
        <3> QED BY <3>1, <3>2
    <2>4. Fits(f, m, groups, rows)
        <3>1. \A n \in 0 .. m : n # 0 => n - 1 \in 0 .. m - 1
            BY <2>1
        <3> HIDE DEF f
        <3>2. \A n \in 0 .. m : n # 0 => g[n - 1] = f[n - 1]
            BY <2>3, <3>1
        <3> QED BY <3>2 DEF Fits, f
    <2> QED BY <2>4, <1>2 DEF S
<1> QED BY <1>3, <1>4

LEMMA UnseenFits ==
    ASSUME NEW groups, NEW rows, Len(rows) \in Nat
    PROVE  \E f : Fits(f, Len(rows), groups, rows) /\ Unseen(groups, rows) = f[Len(rows)]
<1> DEFINE f == CHOOSE f : Fits(f, Len(rows), groups, rows)
<1>1. Fits(f, Len(rows), groups, rows)
    BY FitsExists, Zenon
<1>2. Unseen(groups, rows) = f[Len(rows)]
    BY DEF Unseen, Fits, New
<1> QED BY <1>1, <1>2

\* The rows that are left are rows of nobody shown, and all of them.
LEMMA UnseenIs ==
    ASSUME NEW groups, NEW S, NEW rows \in Seq(S)
    PROVE  Unseen(groups, rows) \in Seq(NewIn(groups, S)) /\ NoneLost(groups, rows)
<1> DEFINE N == Len(rows)
           T == NewIn(groups, S)
<1>1. N \in Nat /\ \A i \in 1 .. N : rows[i] \in S
    BY LenProperties, ElementOfSeq
<1>2. PICK f : Fits(f, N, groups, rows) /\ Unseen(groups, rows) = f[N]
    BY <1>1, UnseenFits
<1> HIDE DEF N
<1>3. /\ f[0] = <<>>
      /\ \A n \in 1 .. N :
             f[n] = IF New(groups, rows[n]) THEN Append(f[n - 1], rows[n]) ELSE f[n - 1]
    <2>1. 0 \in 0 .. N /\ \A n \in 1 .. N : n \in 0 .. N /\ n # 0
        BY <1>1
    <2>2. f[0] = <<>>
        <3>1. f[0] = IF 0 = 0 THEN <<>>
                     ELSE IF New(groups, rows[0]) THEN Append(f[0 - 1], rows[0])
                     ELSE f[0 - 1]
            BY <1>1, <1>2, <2>1, FitsAt
        <3> QED BY <3>1, Zenon
    <2>3. ASSUME NEW n \in 1 .. N
          PROVE  f[n] = IF New(groups, rows[n]) THEN Append(f[n - 1], rows[n]) ELSE f[n - 1]
        <3>1. f[n] = IF n = 0 THEN <<>>
                     ELSE IF New(groups, rows[n]) THEN Append(f[n - 1], rows[n])
                     ELSE f[n - 1]
            BY <1>1, <1>2, <2>1, FitsAt
        <3> QED BY <2>1, <3>1, Zenon
    <2> QED BY <2>2, <2>3
<1> DEFINE Good(m) ==
        /\ f[m] \in Seq(T)
        /\ \A i \in 1 .. m : New(groups, rows[i]) =>
               \E j \in 1 .. Len(f[m]) : f[m][j] = rows[i]
<1>4. Good(0)
    BY <1>3
<1>5. ASSUME NEW n \in 1 .. N, Good(n - 1)
      PROVE  Good(n)
    <2>1. 1 .. n = 1 .. (n - 1) \cup {n}
        BY <1>1
    <2>2. CASE ~New(groups, rows[n])
        <3>1. f[n] = f[n - 1]
            BY <1>3, <2>2
        <3> QED BY <1>5, <2>1, <2>2, <3>1
    <2>3. CASE New(groups, rows[n])
        <3> DEFINE g == f[n - 1]
        <3>1. f[n] = Append(g, rows[n]) /\ rows[n] \in T
            BY <1>1, <1>3, <2>3 DEF NewIn
        <3>2. g \in Seq(T)
            BY <1>5
        <3>3. \A i \in 1 .. (n - 1) : New(groups, rows[i]) =>
                  \E j \in 1 .. Len(g) : g[j] = rows[i]
            BY <1>5
        <3> HIDE DEF g, T
        <3>4. /\ f[n] \in Seq(T)
              /\ Len(g) \in Nat
              /\ Len(f[n]) = Len(g) + 1
              /\ \A j \in 1 .. Len(g) : f[n][j] = g[j]
              /\ f[n][Len(g) + 1] = rows[n]
            BY <3>1, <3>2, AppendProperties, LenProperties
        <3>5. 1 .. Len(f[n]) = 1 .. Len(g) \cup {Len(g) + 1}
            BY <3>4
        <3>6. \A i \in 1 .. n : New(groups, rows[i]) =>
                  \E j \in 1 .. Len(f[n]) : f[n][j] = rows[i]
            BY <2>1, <3>3, <3>4, <3>5
        <3> QED BY <3>4, <3>6
    <2> QED BY <2>2, <2>3
<1>6. Good(N)
    <2> DEFINE U == {m \in Nat : m <= N /\ ~Good(m)}
    <2> HIDE DEF Good
    <2> SUFFICES ASSUME U # {} PROVE FALSE
        BY <1>1
    <2>1. PICK m \in U : \A n \in U : m <= n
        BY Smallest
    <2>2. m # 0
        BY <1>4, <2>1
    <2>3. m - 1 \in Nat /\ m - 1 \notin U /\ m \in 1 .. N
        BY <2>1, <2>2, <1>1
    <2> QED BY <1>5, <2>1, <2>3, <1>1
<1>7. Unseen(groups, rows) \in Seq(T)
    BY <1>2, <1>6
<1>8. \A i \in 1 .. N : New(groups, rows[i]) =>
          \E j \in 1 .. Len(f[N]) : f[N][j] = rows[i]
    BY <1>6
<1> HIDE DEF Good
<1>9. NoneLost(groups, rows)
    BY <1>2, <1>8, Zenon DEF NoneLost, N
<1> QED BY <1>7, <1>9

-----------------------------------------------------------------------------
(* The games                                                                 *)

LEMMA Rows ==
    /\ \A row \in versionGroupRows :
          /\ DOMAIN row.regions = 1 .. Len(row.regions)
          /\ Len(row.regions) \in Nat \ {0}
          /\ \A i \in 1 .. Len(row.regions) : row.regions[i] # "National"
    /\ \E row \in versionGroupRows : row.name = "national"
BY DEF versionGroupRows, VersionGroup

\* A game but "national" has at least one Pokedex, and none is called "National".
LEMMA RegionsAre ==
    ASSUME NEW name \in DOMAIN versionGroups
    PROVE  /\ Len(TeamRegions(name)) \in Nat
           /\ DOMAIN TeamRegions(name) = 1 .. Len(TeamRegions(name))
           /\ \A i \in DOMAIN TeamRegions(name) : TeamRegions(name)[i] # "National"
           /\ name = "national" => TeamRegions(name) = <<>>
           /\ name # "national" => /\ TeamRegions(name) # <<>>
                                   /\ TeamRegions(name) = versionGroups[name].regions
<1>1. PICK row \in versionGroupRows : versionGroups[name] = row
    BY DEF versionGroups
<1>2. /\ DOMAIN row.regions = 1 .. Len(row.regions)
      /\ Len(row.regions) \in Nat \ {0}
      /\ \A i \in 1 .. Len(row.regions) : row.regions[i] # "National"
    BY Rows
<1>3. CASE name = "national"
    <2>1. TeamRegions(name) = <<>>
        BY <1>3 DEF TeamRegions
    <2> QED BY <1>3, <2>1
<1>4. CASE name # "national"
    <2>1. TeamRegions(name) = row.regions /\ TeamRegions(name) = versionGroups[name].regions
        BY <1>1, <1>4 DEF TeamRegions
    <2>2. row.regions # <<>>
        BY <1>2
    <2> QED BY <1>2, <1>4, <2>1, <2>2
<1> QED BY <1>3, <1>4

\* The k-th query of a team list, and how many there are.
TeamRows(d, name, k) ==
    IF name = "national" THEN NationalRows(d)
    ELSE IF k \in DOMAIN TeamRegions(name)
    THEN GetTeamCandidatesByRegion(d, RegionGen[TeamRegions(name)[k]], TeamRegions(name)[k])
    ELSE GetTeamCandidatesNationalByVersionGroup(d, versionGroups[name].gen, name)
TeamSteps(name) == Len(TeamRegions(name)) + 1

\* Whom that query is for.
Asked(d, name, k, id) ==
    IF name = "national" THEN TRUE
    ELSE IF k \in DOMAIN TeamRegions(name) THEN InDex(d, TeamRegions(name)[k], id)
    ELSE Learns(d, name, id)
GameTypes(d, p, name) ==
    IF name = "national" THEN p.types ELSE TypeOf(d, p, versionGroups[name].gen)

LEMMA MembersAre ==
    ASSUME NEW name \in DOMAIN versionGroups, NEW d
    PROVE  /\ \A id \in Members(d, name) : \E p \in d.pokemon, k \in 1 .. TeamSteps(name) :
                  p.id = id /\ Asked(d, name, k, id)
           /\ \A p \in d.pokemon, k \in 1 .. TeamSteps(name) :
                  Asked(d, name, k, p.id) => p.id \in Members(d, name)
<1> DEFINE n == Len(TeamRegions(name))
<1>1. n \in Nat /\ DOMAIN TeamRegions(name) = 1 .. n
    BY RegionsAre
<1>2. name # "national" => TeamRegions(name) = versionGroups[name].regions
    BY RegionsAre
<1>3. 1 \in 1 .. n + 1 /\ n + 1 \in 1 .. n + 1 /\ n + 1 \notin 1 .. n
      /\ (\A k \in 1 .. n : k \in 1 .. n + 1)
    BY <1>1
<1> HIDE DEF n
<1>4. TeamSteps(name) = n + 1
    BY DEF TeamSteps, n
<1>5. ASSUME NEW id \in Members(d, name)
      PROVE  \E p \in d.pokemon, k \in 1 .. TeamSteps(name) :
                 p.id = id /\ Asked(d, name, k, id)
    <2>1. PICK p \in d.pokemon : /\ p.id = id
              /\ \/ name = "national"
                 \/ \E m \in d.dexnumber : /\ Lists(m, p.id)
                        /\ \E i \in DOMAIN versionGroups[name].regions :
                               versionGroups[name].regions[i] = m.dex
                 \/ \E m \in d.movedetails : m.pokemon = p.id /\ m.version = name
        BY <1>5 DEF Members
    <2>2. CASE name = "national"
        <3>1. Asked(d, name, 1, id)
            BY <2>2 DEF Asked
        <3> QED BY <2>1, <3>1, <1>3, <1>4
    <2>3. ASSUME name # "national", NEW m \in d.dexnumber, Lists(m, p.id),
                 NEW i \in DOMAIN versionGroups[name].regions,
                 versionGroups[name].regions[i] = m.dex
          PROVE  \E k \in 1 .. TeamSteps(name) : Asked(d, name, k, id)
        <3>1. i \in DOMAIN TeamRegions(name) /\ TeamRegions(name)[i] = m.dex
            BY <1>2, <2>3
        <3>2. Asked(d, name, i, id)
            BY <2>1, <2>3, <3>1 DEF Asked, InDex
        <3>3. i \in 1 .. TeamSteps(name)
            BY <1>1, <1>3, <1>4, <3>1
        <3> QED BY <3>2, <3>3
    <2>4. CASE name # "national" /\ \E m \in d.movedetails : m.pokemon = p.id /\ m.version = name
        <3>1. Asked(d, name, n + 1, id)
            BY <1>1, <1>3, <2>1, <2>4 DEF Asked, Learns
        <3> QED BY <2>1, <3>1, <1>3, <1>4
    <2> QED BY <2>1, <2>2, <2>3, <2>4
<1>6. ASSUME NEW p \in d.pokemon, NEW k \in 1 .. TeamSteps(name), Asked(d, name, k, p.id)
      PROVE  p.id \in Members(d, name)
    <2>1. CASE name = "national"
        BY <2>1 DEF Members
    <2>2. CASE name # "national" /\ k \in DOMAIN TeamRegions(name)
        <3>1. PICK m \in d.dexnumber : m.dex = TeamRegions(name)[k] /\ Lists(m, p.id)
            BY <1>6, <2>2 DEF Asked, InDex
        <3>2. k \in DOMAIN versionGroups[name].regions /\ versionGroups[name].regions[k] = m.dex
            BY <1>2, <2>2, <3>1
        <3> QED BY <3>1, <3>2 DEF Members
    <2>3. CASE name # "national" /\ k \notin DOMAIN TeamRegions(name)
        BY <1>6, <2>3 DEF Asked, Learns, Members
    <2> QED BY <2>1, <2>2, <2>3
<1> QED BY <1>5, <1>6

\* Nobody leaves a game.
LEMMA MembersGrow ==
    ASSUME NEW d, NEW e, Within(d, e), NEW name
    PROVE  Members(d, name) \subseteq Members(e, name)
BY DEF Within, Members

\* A query of a team list shows those it is for, members of the game all of
\* them, with the types the game has if its Pokedexes follow its rules.
LEMMA TeamRowsAre ==
    ASSUME NEW d, Keyed(d), NEW name \in DOMAIN versionGroups,
           NEW k \in 1 .. TeamSteps(name)
    PROVE  \E S :
        /\ Shows(TeamRows(d, name, k), S)
        /\ \A r \in S : \E p \in d.pokemon :
               /\ Asked(d, name, k, p.id) /\ r.id = p.id
               /\ RulesAgree(name) => r.types = GameTypes(d, p, name)
        /\ \A p \in d.pokemon : Asked(d, name, k, p.id) => \E r \in S : r.id = p.id
<1>1. CASE name = "national"
    <2>1. PICK S : /\ Shows(NationalRows(d), S)
                   /\ \A r \in S : \E p \in d.pokemon : r.id = p.id /\ r.types = p.types
                   /\ \A p \in d.pokemon : \E r \in S : r.id = p.id
        BY NationalList
    <2> QED BY <1>1, <2>1 DEF TeamRows, Asked, GameTypes
<1>2. CASE name # "national" /\ k \in DOMAIN TeamRegions(name)
    <2> DEFINE dex == TeamRegions(name)[k]
    <2>1. PICK S :
            /\ Shows(GetTeamCandidatesByRegion(d, RegionGen[dex], dex), S)
            /\ \A r \in S : \E p \in d.pokemon :
                   InDex(d, dex, p.id) /\ r.id = p.id /\ r.types = TypeOf(d, p, RegionGen[dex])
            /\ \A p \in d.pokemon : InDex(d, dex, p.id) => \E r \in S : r.id = p.id
        BY RegionList
    <2>2. RulesAgree(name) => RegionGen[dex] = versionGroups[name].gen
        BY <1>2 DEF RulesAgree
    <2>3. /\ TeamRows(d, name, k) = GetTeamCandidatesByRegion(d, RegionGen[dex], dex)
          /\ \A p \in d.pokemon : Asked(d, name, k, p.id) <=> InDex(d, dex, p.id)
          /\ \A p \in d.pokemon :
                 GameTypes(d, p, name) = TypeOf(d, p, versionGroups[name].gen)
        BY <1>2 DEF TeamRows, Asked, GameTypes
    <2> HIDE DEF dex
    <2> QED BY <2>1, <2>2, <2>3
<1>3. CASE name # "national" /\ k \notin DOMAIN TeamRegions(name)
    <2> DEFINE gen == versionGroups[name].gen
    <2>1. PICK S :
            /\ Shows(GetTeamCandidatesNationalByVersionGroup(d, gen, name), S)
            /\ \A r \in S : \E p \in d.pokemon :
                   Learns(d, name, p.id) /\ r.id = p.id /\ r.types = TypeOf(d, p, gen)
            /\ \A p \in d.pokemon : Learns(d, name, p.id) => \E r \in S : r.id = p.id
        BY LearnsetList
    <2>2. /\ TeamRows(d, name, k) = GetTeamCandidatesNationalByVersionGroup(d, gen, name)
          /\ \A p \in d.pokemon : Asked(d, name, k, p.id) <=> Learns(d, name, p.id)
          /\ \A p \in d.pokemon : GameTypes(d, p, name) = TypeOf(d, p, gen)
        BY <1>3 DEF TeamRows, Asked, GameTypes
    <2> HIDE DEF gen
    <2> QED BY <2>1, <2>2
<1> QED BY <1>1, <1>2, <1>3

-----------------------------------------------------------------------------
(* The answer of a team list                                                 *)

TeamBody(name, got) ==
    LET groups == RegionGroups(TeamRegions(name), got)
        national == Unseen(groups, got[Len(got)])
    IN IF name = "national" THEN <<Group("National", got[1])>>
       ELSE IF national = <<>> THEN groups
       ELSE Append(groups, Group("National", national))

LEMMA ListedAre ==
    ASSUME NEW groups
    PROVE  /\ \A id \in Listed(groups) : \E g \in DOMAIN groups :
                  \E i \in DOMAIN groups[g].pokemon : groups[g].pokemon[i].id = id
           /\ \A g \in DOMAIN groups : \A i \in DOMAIN groups[g].pokemon :
                  groups[g].pokemon[i].id \in Listed(groups)
<1>1. ASSUME NEW id \in Listed(groups)
      PROVE  \E g \in DOMAIN groups :
                 \E i \in DOMAIN groups[g].pokemon : groups[g].pokemon[i].id = id
    <2>1. PICK g \in DOMAIN groups :
              id \in {groups[g].pokemon[i].id : i \in DOMAIN groups[g].pokemon}
        BY DEF Listed
    <2> QED BY <2>1
<1>2. ASSUME NEW g \in DOMAIN groups, NEW i \in DOMAIN groups[g].pokemon
      PROVE  groups[g].pokemon[i].id \in Listed(groups)
    BY DEF Listed
<1> QED BY <1>1, <1>2

LEMMA EntriesAre ==
    ASSUME NEW groups, NEW id, NEW r \in Entries(groups, id)
    PROVE  r.id = id /\ \E g \in DOMAIN groups :
               \E i \in DOMAIN groups[g].pokemon : groups[g].pokemon[i] = r
<1>1. PICK g \in DOMAIN groups :
          r \in {s \in {groups[g].pokemon[i] : i \in DOMAIN groups[g].pokemon} : s.id = id}
    BY DEF Entries
<1> QED BY <1>1

\* The groups hold the rows of the queries, one query each, and leave out of
\* the last what another holds.
Arranged(body, name, got) ==
    /\ DOMAIN body \subseteq 1 .. TeamSteps(name)
    /\ \A g \in DOMAIN body : \A h \in 1 .. g : h \in DOMAIN body
    /\ \A g \in DOMAIN body : \A i \in DOMAIN body[g].pokemon :
           \E j \in 1 .. Len(got[g]) : body[g].pokemon[i] = got[g][j]
    /\ \A k \in 1 .. TeamSteps(name) : \A j \in 1 .. Len(got[k]) :
           got[k][j].id \in Listed(body)
    /\ \A g \in DOMAIN body : body[g].list = "National" =>
           \A h \in 1 .. g - 1 : \A i \in DOMAIN body[g].pokemon :
               \A j \in DOMAIN body[h].pokemon :
                   body[g].pokemon[i].id # body[h].pokemon[j].id

LEMMA TeamBodyIs ==
    ASSUME NEW name \in DOMAIN versionGroups, NEW got, Len(got) = TeamSteps(name),
           \A k \in 1 .. TeamSteps(name) : \E S : got[k] \in Seq(S)
    PROVE  Arranged(TeamBody(name, got), name, got)
<1> DEFINE regions == TeamRegions(name)
           n == Len(regions)
           body == TeamBody(name, got)
<1>1. /\ n \in Nat /\ DOMAIN regions = 1 .. n
      /\ \A i \in 1 .. n : regions[i] # "National"
    BY RegionsAre
<1>2. \A k \in 1 .. n + 1 : DOMAIN got[k] = 1 .. Len(got[k])
    BY LenProperties DEF TeamSteps
<1>3. CASE name = "national"
    <2>1. n = 0
        BY <1>1, <1>3, RegionsAre
    <2>2. body = <<Group("National", got[1])>>
        BY <1>3 DEF TeamBody
    <2>3. DOMAIN body = {1} /\ body[1].pokemon = got[1] /\ TeamSteps(name) = 1
        BY <2>1, <2>2 DEF Group, TeamSteps
    <2> HIDE DEF body, n, regions
    <2>4. \A j \in 1 .. Len(got[1]) : got[1][j].id \in Listed(body)
        BY <1>2, <2>1, <2>3, ListedAre
    <2> QED BY <1>2, <2>1, <2>3, <2>4 DEF body, Arranged
<1>4. CASE name # "national"
    <2> DEFINE groups == RegionGroups(regions, got)
               rest == Unseen(groups, got[n + 1])
    <2>1. n # 0
        BY <1>1, <1>4, RegionsAre
    <2>2. /\ DOMAIN groups = 1 .. n
          /\ \A i \in 1 .. n : groups[i] = Group(regions[i], got[i])
        BY <1>1 DEF RegionGroups
    <2>3. \A i \in 1 .. n : groups[i].pokemon = got[i] /\ groups[i].list # "National"
        BY <1>1, <2>2 DEF Group
    <2> DEFINE S == {got[n + 1][j] : j \in 1 .. Len(got[n + 1])}
    <2>4. got[n + 1] \in Seq(S) /\ Len(got[n + 1]) \in Nat
        <3>1. PICK T : got[n + 1] \in Seq(T)
            BY <1>1 DEF TeamSteps
        <3>2. Len(got[n + 1]) \in Nat /\ SubSeq(got[n + 1], 1, Len(got[n + 1])) = got[n + 1]
            BY <3>1, LenProperties, SubSeqFull
        <3>3. \A i \in 1 .. Len(got[n + 1]) : got[n + 1][i] \in S
            OBVIOUS
        <3> DEFINE last == got[n + 1]
        <3> HIDE DEF S, last
        <3>4. SubSeq(last, 1, Len(last)) \in Seq(S)
            BY <3>2, <3>3, SubSeqProperties DEF last
        <3> QED BY <3>2, <3>4 DEF last
    <2>5. /\ rest \in Seq(NewIn(groups, S))
          /\ \A i \in 1 .. Len(got[n + 1]) : New(groups, got[n + 1][i]) =>
                 \E j \in 1 .. Len(rest) : rest[j] = got[n + 1][i]
        <3> DEFINE last == got[n + 1]
        <3> HIDE DEF S, last, groups, rest
        <3>1. last \in Seq(S)
            BY <2>4 DEF last
        <3>2. Unseen(groups, last) \in Seq(NewIn(groups, S)) /\ NoneLost(groups, last)
            BY <3>1, UnseenIs
        <3>3. \A i \in 1 .. Len(last) : New(groups, last[i]) =>
                  \E j \in 1 .. Len(rest) : rest[j] = last[i]
            BY <3>2, Zenon DEF NoneLost, rest, last
        <3> QED BY <3>2, <3>3 DEF last, rest
    <2>6. body = IF rest = <<>> THEN groups ELSE Append(groups, Group("National", rest))
        BY <1>4 DEF TeamBody, TeamSteps
    <2>7. groups \in Seq({groups[i] : i \in 1 .. n}) /\ Len(groups) = n
        <3> DEFINE G == {groups[i] : i \in 1 .. n}
        <3> DEFINE entry(i) == Group(regions[i], got[i])
        <3>0. groups = [i \in 1 .. n |-> entry(i)]
            BY <1>1 DEF RegionGroups
        <3>1. groups \in [1 .. n -> G]
            <4> HIDE DEF groups, entry
            <4> QED BY <3>0, <2>2
        <3>2. [1 .. n -> G] \in {[1 .. k -> G] : k \in Nat}
            BY <1>1
        <3> HIDE DEF groups, G, n
        <3>3. groups \in UNION {[1 .. k -> G] : k \in Nat}
            BY <3>1, <3>2, Zenon
        <3>4. groups \in Seq(G)
            BY <3>3, SeqDef, Zenon
        <3>5. Len(groups) \in Nat /\ DOMAIN groups = 1 .. Len(groups) /\ DOMAIN groups = 1 .. n
            BY <3>1, <3>4, LenProperties
        <3>6. Len(groups) = n
            <4>1. \A k \in Nat : k \in 1 .. n <=> k \in 1 .. Len(groups)
                BY <3>5
            <4>2. n <= Len(groups)
                BY <1>1, <3>5, <4>1
            <4>3. Len(groups) <= n
                BY <1>1, <3>5, <4>1
            <4>4. n \in Nat /\ Len(groups) \in Nat
                BY <1>1, <3>5
            <4> QED BY <4>2, <4>3, <4>4
        <3> QED BY <3>4, <3>6 DEF G
    <2>8. /\ DOMAIN rest = 1 .. Len(rest) /\ Len(rest) \in Nat
          /\ \A i \in 1 .. Len(rest) : rest[i] \in S /\ New(groups, rest[i])
        <3>1. \A i \in 1 .. Len(rest) : rest[i] \in NewIn(groups, S)
            BY <2>5, ElementOfSeq
        <3> QED BY <2>5, <3>1, LenProperties DEF NewIn
    <2> HIDE DEF groups, body, regions, n
    <2>9. \A i \in 1 .. Len(rest) : \E j \in 1 .. Len(got[n + 1]) : rest[i] = got[n + 1][j]
        BY <2>8
    <2> HIDE DEF rest, S
    <2>10. /\ TeamSteps(name) = n + 1 /\ n + 1 \in 1 .. n + 1 /\ n + 1 \notin 1 .. n
           /\ 1 .. n + 1 = 1 .. n \cup {n + 1}
           /\ \A g \in 1 .. n + 1 : \A h \in 1 .. g : h = g \/ h \in 1 .. n
        BY <1>1 DEF TeamSteps, n, regions
    <2>11. CASE rest = <<>>
        <3>1. body = groups
            BY <2>6, <2>11
        <3>2. /\ DOMAIN body = 1 .. n
              /\ \A i \in 1 .. n : body[i].pokemon = got[i] /\ body[i].list # "National"
            BY <2>2, <2>3, <3>1
        <3>3. ASSUME NEW k \in 1 .. n, NEW j \in 1 .. Len(got[k])
              PROVE  got[k][j].id \in Listed(body)
            <4>1. k \in DOMAIN body /\ j \in DOMAIN body[k].pokemon /\ body[k].pokemon = got[k]
                BY <1>2, <3>2, <2>10
            <4>2. body[k].pokemon[j].id \in Listed(body)
                BY <4>1, ListedAre
            <4> QED BY <4>1, <4>2
        <3>4. ASSUME NEW j \in 1 .. Len(got[n + 1])
              PROVE  got[n + 1][j].id \in Listed(body)
            <4>1. ~New(groups, got[n + 1][j])
                BY <2>5, <2>8, <2>11
            <4>2. PICK g \in DOMAIN groups : \E i \in DOMAIN groups[g].pokemon :
                      groups[g].pokemon[i].id = got[n + 1][j].id
                BY <4>1 DEF New
            <4> QED BY <4>2, <3>1, ListedAre
        <3>5. \A k \in 1 .. n + 1 : \A j \in 1 .. Len(got[k]) : got[k][j].id \in Listed(body)
            BY <3>3, <3>4, <2>10
        <3>6. \A g \in DOMAIN body : \A i \in DOMAIN body[g].pokemon :
                  \E j \in 1 .. Len(got[g]) : body[g].pokemon[i] = got[g][j]
            BY <1>2, <3>2, <2>10
        <3>7. \A g \in DOMAIN body : \A h \in 1 .. g : h \in DOMAIN body
            BY <1>1, <3>2
        <3> QED BY <2>10, <3>2, <3>5, <3>6, <3>7 DEF body, Arranged
    <2>12. CASE rest # <<>>
        <3> DEFINE last == Group("National", rest)
        <3>1. body = Append(groups, last)
            BY <2>6, <2>12
        <3>2. last.pokemon = rest
            BY DEF Group
        <3> HIDE DEF last
        <3>3. /\ DOMAIN body = 1 .. n + 1
              /\ \A i \in 1 .. n : body[i] = groups[i]
              /\ body[n + 1] = last
            <4> DEFINE G == {groups[i] : i \in 1 .. n} \cup {last}
            <4>1. groups \in Seq(G) /\ last \in G
                BY <2>7, SeqMonotonic
            <4> HIDE DEF G
            <4>2. /\ body \in Seq(G)
                  /\ Len(body) = n + 1
                  /\ \A i \in 1 .. n : body[i] = groups[i]
                  /\ body[n + 1] = last
                BY <3>1, <4>1, <2>7, AppendProperties
            <4> QED BY <4>2, LenProperties
        <3>4. /\ \A i \in 1 .. n : body[i].pokemon = got[i] /\ body[i].list # "National"
              /\ body[n + 1].pokemon = rest
            BY <2>3, <3>2, <3>3
        <3>5. ASSUME NEW k \in 1 .. n, NEW j \in 1 .. Len(got[k])
              PROVE  got[k][j].id \in Listed(body)
            <4>1. k \in DOMAIN body /\ body[k].pokemon = got[k] /\ k \in 1 .. n + 1
                BY <3>3, <3>4, <2>10
            <4>2. j \in DOMAIN body[k].pokemon
                BY <1>2, <4>1
            <4>3. body[k].pokemon[j].id \in Listed(body)
                BY <4>1, <4>2, ListedAre
            <4> QED BY <4>1, <4>3
        <3>6. ASSUME NEW j \in 1 .. Len(got[n + 1])
              PROVE  got[n + 1][j].id \in Listed(body)
            <4>1. CASE New(groups, got[n + 1][j])
                <5>1. PICK i \in 1 .. Len(rest) : rest[i] = got[n + 1][j]
                    BY <2>5, <4>1
                <5>2. n + 1 \in DOMAIN body /\ i \in DOMAIN body[n + 1].pokemon
                      /\ body[n + 1].pokemon[i] = got[n + 1][j]
                    BY <2>8, <2>10, <3>3, <3>4, <5>1
                <5> QED BY <5>2, ListedAre
            <4>2. CASE ~New(groups, got[n + 1][j])
                <5>1. PICK g \in DOMAIN groups : \E i \in DOMAIN groups[g].pokemon :
                          groups[g].pokemon[i].id = got[n + 1][j].id
                    BY <4>2 DEF New
                <5>2. g \in 1 .. n /\ g \in DOMAIN body /\ body[g] = groups[g]
                    BY <2>2, <2>10, <3>3
                <5>3. \E i \in DOMAIN body[g].pokemon : body[g].pokemon[i].id = got[n + 1][j].id
                    BY <5>1, <5>2
                <5> QED BY <5>2, <5>3, ListedAre
            <4> QED BY <4>1, <4>2
        <3>7. \A k \in 1 .. n + 1 : \A j \in 1 .. Len(got[k]) : got[k][j].id \in Listed(body)
            BY <3>5, <3>6, <2>10
        <3>8. \A g \in DOMAIN body : \A i \in DOMAIN body[g].pokemon :
                  \E j \in 1 .. Len(got[g]) : body[g].pokemon[i] = got[g][j]
            <4>1. ASSUME NEW g \in 1 .. n, NEW i \in DOMAIN body[g].pokemon
                  PROVE  \E j \in 1 .. Len(got[g]) : body[g].pokemon[i] = got[g][j]
                <5>1. i \in 1 .. Len(got[g]) /\ body[g].pokemon[i] = got[g][i]
                    BY <1>2, <2>10, <3>4
                <5> QED BY <5>1
            <4>2. ASSUME NEW i \in DOMAIN body[n + 1].pokemon
                  PROVE  \E j \in 1 .. Len(got[n + 1]) : body[n + 1].pokemon[i] = got[n + 1][j]
                BY <2>8, <2>9, <3>4
            <4>3. ASSUME NEW g \in DOMAIN body, NEW i \in DOMAIN body[g].pokemon
                  PROVE  \E j \in 1 .. Len(got[g]) : body[g].pokemon[i] = got[g][j]
                <5>1. g \in 1 .. n \/ g = n + 1
                    BY <2>10, <3>3
                <5>2. CASE g \in 1 .. n
                    BY <4>1, <5>2
                <5>3. CASE g = n + 1
                    BY <4>2, <5>3
                <5> QED BY <5>1, <5>2, <5>3
            <4> QED BY <4>3
        <3>9. \A g \in DOMAIN body : \A h \in 1 .. g : h \in DOMAIN body
            BY <1>1, <3>3
        <3>10. ASSUME NEW g \in DOMAIN body, body[g].list = "National",
                      NEW h \in 1 .. g - 1, NEW i \in DOMAIN body[g].pokemon,
                      NEW j \in DOMAIN body[h].pokemon
               PROVE  body[g].pokemon[i].id # body[h].pokemon[j].id
            <4>1. g = n + 1
                BY <3>3, <3>4, <3>10, <2>10
            <4>2. h \in 1 .. n
                BY <4>1, <1>1
            <4>3. h \in DOMAIN groups /\ groups[h].pokemon = body[h].pokemon
                BY <4>2, <2>2, <3>3
            <4>4. New(groups, rest[i]) /\ body[g].pokemon[i] = rest[i]
                BY <4>1, <3>4, <2>8
            <4> QED BY <4>3, <4>4 DEF New
        <3> QED BY <2>10, <3>3, <3>7, <3>8, <3>9, <3>10 DEF body, Arranged
    <2> QED BY <2>11, <2>12
<1> QED BY <1>3, <1>4

\* Stage s is one in which a query of answer a can have run.
Between(g, s, h) == s \in Stages /\ Till(g, s) /\ Till(s, h)
During(s, a) == Between(a.began, s, a.ended)

\* What is known of a team list once it is answered.
TeamAnswer(data, a) ==
    /\ a.name \in DOMAIN versionGroups
    /\ \E got :
        /\ Len(got) = TeamSteps(a.name)
        /\ \A k \in 1 .. TeamSteps(a.name) :
               \E s : During(s, a) /\ got[k] = TeamRows(data[s], a.name, k)
        /\ a.body = TeamBody(a.name, got)

LEMMA AskedGrows ==
    ASSUME NEW d, NEW e, Within(d, e), NEW name, NEW k, NEW id, Asked(d, name, k, id)
    PROVE  Asked(e, name, k, id)
BY DEF Within, Asked, InDex, Learns

\* What a team list shows: the members of the game.
LEMMA RosterIs ==
    ASSUME NEW data \in Scenarios, NEW a, a.began \in Stages, a.ended \in Stages,
           TeamAnswer(data, a)
    PROVE  /\ Members(data[a.began], a.name) \subseteq Listed(a.body)
           /\ Listed(a.body) \subseteq Members(data[a.ended], a.name)
           /\ \A g \in DOMAIN a.body : a.body[g].list = "National" =>
                  Listed(<<a.body[g]>>) \cap Listed(SubSeq(a.body, 1, g - 1)) = {}
           /\ \A id : \A r \in Entries(a.body, id) : \E s : During(s, a) /\
                  \E p \in data[s].pokemon :
                      p.id = id /\ (RulesAgree(a.name) => r.types = GameTypes(data[s], p, a.name))
<1> DEFINE name == a.name
           body == a.body
           n == TeamSteps(name)
<1>1. PICK got :
        /\ Len(got) = n
        /\ \A k \in 1 .. n :
               \E s : During(s, a) /\ got[k] = TeamRows(data[s], name, k)
        /\ body = TeamBody(name, got)
    BY DEF TeamAnswer
<1>2. name \in DOMAIN versionGroups
    BY DEF TeamAnswer
<1>3. ASSUME NEW k \in 1 .. n
      PROVE  \E s, S :
        /\ During(s, a)
        /\ Shows(got[k], S)
        /\ \A r \in S : \E p \in data[s].pokemon :
               /\ Asked(data[s], name, k, p.id) /\ r.id = p.id
               /\ RulesAgree(name) => r.types = GameTypes(data[s], p, name)
        /\ \A p \in data[s].pokemon :
               Asked(data[s], name, k, p.id) => \E r \in S : r.id = p.id
    <2>1. PICK s : During(s, a) /\ got[k] = TeamRows(data[s], name, k)
        BY <1>1
    <2>2. Keyed(data[s])
        BY <2>1, DataKeyed DEF During, Between
    <2> DEFINE d == data[s]
    <2> HIDE DEF d, name
    <2>3. \E S : /\ Shows(TeamRows(d, name, k), S)
                 /\ \A r \in S : \E p \in d.pokemon :
                       /\ Asked(d, name, k, p.id) /\ r.id = p.id
                       /\ RulesAgree(name) => r.types = GameTypes(d, p, name)
                 /\ \A p \in d.pokemon : Asked(d, name, k, p.id) => \E r \in S : r.id = p.id
        BY <1>2, <2>2, TeamRowsAre DEF d
    <2> QED BY <2>1, <2>3 DEF d
<1> HIDE DEF n, name, body
<1>4. \A k \in 1 .. TeamSteps(name) : \E S : got[k] \in Seq(S)
    BY <1>3 DEF Shows, n
<1>5. /\ DOMAIN body \subseteq 1 .. n
      /\ \A g \in DOMAIN body : \A h \in 1 .. g : h \in DOMAIN body
      /\ \A g \in DOMAIN body : \A i \in DOMAIN body[g].pokemon :
             \E j \in 1 .. Len(got[g]) : body[g].pokemon[i] = got[g][j]
      /\ \A k \in 1 .. n : \A j \in 1 .. Len(got[k]) :
             got[k][j].id \in Listed(body)
      /\ \A g \in DOMAIN body : body[g].list = "National" =>
             \A h \in 1 .. g - 1 : \A i \in DOMAIN body[g].pokemon :
                 \A j \in DOMAIN body[h].pokemon :
                     body[g].pokemon[i].id # body[h].pokemon[j].id
    <2>1. Arranged(body, name, got)
        BY <1>1, <1>2, <1>4, TeamBodyIs DEF n
    <2> QED BY <2>1 DEF Arranged, n
<1>6. ASSUME NEW id \in Members(data[a.began], name)
      PROVE  id \in Listed(body)
    <2>1. PICK p \in data[a.began].pokemon, k \in 1 .. n :
              p.id = id /\ Asked(data[a.began], name, k, id)
        BY <1>2, <1>6, MembersAre DEF n
    <2>2. PICK s, S : /\ During(s, a)
                      /\ Shows(got[k], S)
                      /\ \A q \in data[s].pokemon :
                             Asked(data[s], name, k, q.id) => \E r \in S : r.id = q.id
        BY <1>3
    <2>3. Within(data[a.began], data[s])
        BY <2>2, DataGrows DEF During, Between
    <2>4. p \in data[s].pokemon /\ Asked(data[s], name, k, id)
        BY <2>1, <2>3, AskedGrows DEF Within
    <2>5. PICK r \in S : r.id = id
        BY <2>1, <2>2, <2>4
    <2>6. PICK j \in 1 .. Len(got[k]) : got[k][j] = r
        BY <2>2 DEF Shows
    <2> QED BY <1>5, <2>5, <2>6
<1>7. ASSUME NEW g \in DOMAIN body, NEW i \in DOMAIN body[g].pokemon
      PROVE  \E s : During(s, a) /\ \E p \in data[s].pokemon :
                 /\ Asked(data[s], name, g, p.id) /\ body[g].pokemon[i].id = p.id
                 /\ RulesAgree(name) =>
                        body[g].pokemon[i].types = GameTypes(data[s], p, name)
    <2>1. PICK j \in 1 .. Len(got[g]) : body[g].pokemon[i] = got[g][j]
        BY <1>5
    <2>2. g \in 1 .. n
        BY <1>5
    <2>3. PICK s, S : /\ During(s, a)
                      /\ Shows(got[g], S)
                      /\ \A r \in S : \E p \in data[s].pokemon :
                             /\ Asked(data[s], name, g, p.id) /\ r.id = p.id
                             /\ RulesAgree(name) => r.types = GameTypes(data[s], p, name)
        BY <1>3, <2>2
    <2>4. got[g][j] \in S
        BY <2>3, ElementOfSeq DEF Shows
    <2> QED BY <2>1, <2>3, <2>4
<1>8. ASSUME NEW id \in Listed(body)
      PROVE  id \in Members(data[a.ended], name)
    <2>1. PICK g \in DOMAIN body : \E i \in DOMAIN body[g].pokemon : body[g].pokemon[i].id = id
        BY <1>8, ListedAre
    <2>2. PICK s : During(s, a) /\ \E p \in data[s].pokemon :
              Asked(data[s], name, g, p.id) /\ p.id = id
        BY <1>7, <2>1
    <2>3. id \in Members(data[s], name)
        BY <1>2, <1>5, <2>2, MembersAre DEF n
    <2>4. Within(data[s], data[a.ended])
        BY <2>2, DataGrows DEF During, Between
    <2> QED BY <2>3, <2>4, MembersGrow
<1>9. ASSUME NEW g \in DOMAIN body, body[g].list = "National"
      PROVE  Listed(<<body[g]>>) \cap Listed(SubSeq(body, 1, g - 1)) = {}
    <2> DEFINE last == <<body[g]>>
               shown == SubSeq(body, 1, g - 1)
    <2>1. n \in Nat /\ g \in 1 .. n
        BY <1>2, <1>5, RegionsAre DEF n, TeamSteps
    <2>2. DOMAIN last = {1} /\ last[1] = body[g]
        OBVIOUS
    <2>3. DOMAIN shown = 1 .. g - 1 /\ \A h \in 1 .. g - 1 : shown[h] = body[h]
        <3> DEFINE G == {body[h] : h \in 1 .. g - 1}
        <3>1. \A h \in 1 .. g - 1 : body[h] \in G
            OBVIOUS
        <3> HIDE DEF G
        <3>2. /\ shown \in Seq(G)
              /\ Len(shown) = IF 1 <= g - 1 THEN g - 1 - 1 + 1 ELSE 0
              /\ \A h \in 1 .. g - 1 - 1 + 1 : shown[h] = body[1 + h - 1]
            BY <2>1, <3>1, SubSeqProperties
        <3>3. DOMAIN shown = 1 .. Len(shown) /\ Len(shown) = g - 1
            BY <2>1, <3>2, LenProperties
        <3> QED BY <2>1, <3>2, <3>3
    <2> HIDE DEF last, shown
    <2>4. ASSUME NEW id \in Listed(last), id \in Listed(shown)
          PROVE  FALSE
        <3>1. PICK i \in DOMAIN body[g].pokemon : body[g].pokemon[i].id = id
            BY <2>2, <2>4, ListedAre
        <3>2. PICK h \in DOMAIN shown : \E j \in DOMAIN shown[h].pokemon : shown[h].pokemon[j].id = id
            BY <2>4, ListedAre
        <3>3. h \in 1 .. g - 1 /\ \E j \in DOMAIN body[h].pokemon : body[h].pokemon[j].id = id
            BY <2>3, <3>2
        <3> QED BY <1>5, <1>9, <3>1, <3>3
    <2> QED BY <2>4 DEF last, shown
<1>10. ASSUME NEW id, NEW r \in Entries(body, id)
       PROVE  \E s : During(s, a) /\ \E p \in data[s].pokemon :
                  p.id = id /\ (RulesAgree(name) => r.types = GameTypes(data[s], p, name))
    <2>1. PICK g \in DOMAIN body : r.id = id /\ \E i \in DOMAIN body[g].pokemon : body[g].pokemon[i] = r
        BY <1>10, EntriesAre
    <2> QED BY <1>7, <2>1
<1> QED BY <1>6, <1>8, <1>9, <1>10 DEF name, body

-----------------------------------------------------------------------------
(* The answer of a candidate                                                 *)

\* The query that finds a candidate.
CandidateRows(d, name, id) ==
    IF name = "national" THEN GetTeamCandidateNationalByID(d, id)
    ELSE GetTeamCandidateByID(d, versionGroups[name].gen, id,
             {versionGroups[name].regions[i] : i \in DOMAIN versionGroups[name].regions}, name)

LEMMA MemberRow ==
    ASSUME NEW d, Keyed(d), NEW gen, NEW id, NEW regions, NEW name,
           NEW r \in GetTeamCandidateByID(d, gen, id, regions, name)
    PROVE  \E p \in d.pokemon : p.id = id /\ r.id = id /\ r.types = TypeOf(d, p, gen)
<1> DEFINE earliest(p) == OrElse({t.types : t \in {
            u \in PastTypes(d, id, gen) :
                \A w \in PastTypes(d, id, gen) : u.gen <= w.gen}}, p.types)
<1>1. PICK p \in d.pokemon : p.id = id /\ r = [id |-> p.id, types |-> One(earliest(p))]
    BY DEF GetTeamCandidateByID, ByID
<1>2. \A u, w \in PastTypes(d, id, gen) : u = w /\ u.gen <= w.gen
    <2>1. \A u \in PastTypes(d, id, gen) : u \in d.pasttypes /\ u.pokemon = id
        BY DEF PastTypes
    <2>2. \A u \in d.pasttypes : u.gen \in Nat
        BY DEF Keyed
    <2>3. \A u, w \in d.pasttypes : u.pokemon = w.pokemon => u = w
        BY DEF Keyed
    <2> QED BY <2>1, <2>2, <2>3
<1>3. {u \in PastTypes(d, id, gen) : \A w \in PastTypes(d, id, gen) : u.gen <= w.gen}
          = PastTypes(d, id, gen)
    BY <1>2
<1>4. earliest(p) = TypesIn(d, p, gen)
    BY <1>1, <1>3 DEF TypesIn
<1> QED BY <1>1, <1>4 DEF TypeOf

\* It finds the members of the game, with the game's types.
LEMMA CandidateRowsAre ==
    ASSUME NEW d, Keyed(d), NEW name \in DOMAIN versionGroups, NEW id
    PROVE  /\ CandidateRows(d, name, id) = {} <=> id \notin Members(d, name)
           /\ \A r \in CandidateRows(d, name, id) : \E p \in d.pokemon :
                  p.id = id /\ r.id = id /\ r.types = GameTypes(d, p, name)
<1>1. CASE name = "national"
    <2>1. CandidateRows(d, name, id) =
              {[id |-> p.id, types |-> p.types] : p \in {q \in d.pokemon : q.id = id}}
        BY <1>1 DEF CandidateRows, GetTeamCandidateNationalByID, ByID
    <2>2. Members(d, name) = {p.id : p \in d.pokemon}
        BY <1>1 DEF Members
    <2>3. \A r \in CandidateRows(d, name, id) : \E p \in d.pokemon :
              p.id = id /\ r.id = id /\ r.types = GameTypes(d, p, name)
        BY <1>1, <2>1 DEF GameTypes
    <2>4. CandidateRows(d, name, id) = {} <=> ~ \E p \in d.pokemon : p.id = id
        BY <2>1
    <2>5. id \in Members(d, name) <=> \E p \in d.pokemon : p.id = id
        BY <2>2
    <2> QED BY <2>3, <2>4, <2>5
<1>2. CASE name # "national"
    <2> DEFINE gen == versionGroups[name].gen
               regions == {versionGroups[name].regions[i] :
                           i \in DOMAIN versionGroups[name].regions}
               rows == GetTeamCandidateByID(d, gen, id, regions, name)
    <2>1. CandidateRows(d, name, id) = rows
        BY <1>2 DEF CandidateRows
    <2>2. \A r \in rows : \E p \in d.pokemon :
              p.id = id /\ r.id = id /\ r.types = GameTypes(d, p, name)
        <3> HIDE DEF regions, gen
        <3>1. \A r \in rows : \E p \in d.pokemon :
                  p.id = id /\ r.id = id /\ r.types = TypeOf(d, p, gen)
            BY MemberRow
        <3> QED BY <1>2, <3>1 DEF GameTypes, gen
    <2>3. rows = {} <=> ~ \E q \in d.pokemon : q.id = id /\
              \/ \E n \in d.dexnumber : n.dex \in regions /\ Lists(n, id)
              \/ \E md \in d.movedetails : md.pokemon = id /\ md.version = name
        <3> HIDE DEF regions, gen
        <3> QED BY DEF GetTeamCandidateByID, ByID
    <2>4. id \in Members(d, name) <=> \E q \in d.pokemon : q.id = id /\
              \/ \E n \in d.dexnumber : n.dex \in regions /\ Lists(n, id)
              \/ \E md \in d.movedetails : md.pokemon = id /\ md.version = name
        BY <1>2 DEF Members
    <2> QED BY <2>1, <2>2, <2>3, <2>4
<1> QED BY <1>1, <1>2

\* What is known of a candidate once it is answered.
CandidateMissing(data, a) ==
    /\ a.name \in DOMAIN versionGroups
    /\ \E s : During(s, a) /\ CandidateRows(data[s], a.name, a.id) = {}
CandidateAnswer(data, a) ==
    /\ a.name \in DOMAIN versionGroups
    /\ \E rows, abilities, learnt, wordings :
        /\ \E s : During(s, a) /\ rows = CandidateRows(data[s], a.name, a.id)
        /\ rows # {}
        /\ \E s : During(s, a) /\ wordings = GetCandidateMoveDescriptions(
               data[s], {m.move : m \in learnt}, versionGroups[a.name].games)
        /\ \E moves \in OneOfEachMove(learnt) :
               a.body = buildCandidateDetail(One(rows), abilities, moves, wordings,
                                             versionGroups[a.name].gen)

\* A client that follows a list up asks for the same game, and later.
LEMMA Served ==
    ASSUME NEW data \in Scenarios, NEW e, NEW a,
           e.began \in Stages, e.ended \in Stages, a.began \in Stages, a.ended \in Stages,
           Till(e.began, e.ended), Till(e.ended, a.began), Till(a.began, a.ended),
           e.name = a.name, TeamAnswer(data, e)
    PROVE  /\ CandidateMissing(data, a) => a.id \notin Listed(e.body)
           /\ CandidateAnswer(data, a) /\ e.began = a.ended =>
                  /\ a.id \in Listed(e.body)
                  /\ RulesAgree(a.name) =>
                         \A r \in Entries(e.body, a.id) : r.types = a.body.types
<1> DEFINE name == a.name
           id == a.id
<1>1. name \in DOMAIN versionGroups
    BY DEF TeamAnswer
<1>2. /\ Members(data[e.began], name) \subseteq Listed(e.body)
      /\ Listed(e.body) \subseteq Members(data[e.ended], name)
    BY RosterIs
<1>3. ASSUME NEW r \in Entries(e.body, id)
      PROVE  \E s : During(s, e) /\ \E p \in data[s].pokemon :
                 p.id = id /\ (RulesAgree(name) => r.types = GameTypes(data[s], p, name))
    BY RosterIs
<1>4. ASSUME CandidateMissing(data, a), id \in Listed(e.body) PROVE FALSE
    <2>1. PICK s : During(s, a) /\ CandidateRows(data[s], name, id) = {}
        BY <1>4 DEF CandidateMissing
    <2>2. s \in Stages /\ Till(e.ended, s)
        BY <2>1 DEF During, Between, Till, Stages
    <2>3. id \in Members(data[s], name)
        BY <1>2, <1>4, <2>2, DataGrows, MembersGrow
    <2>4. Keyed(data[s])
        BY <2>2, DataKeyed
    <2> QED BY <1>1, <2>1, <2>3, <2>4, CandidateRowsAre
<1>5. ASSUME CandidateAnswer(data, a), e.began = a.ended
      PROVE  /\ id \in Listed(e.body)
             /\ RulesAgree(name) => \A r \in Entries(e.body, id) : r.types = a.body.types
    <2> DEFINE d == data[e.began]
    <2>1. PICK rows, s : /\ During(s, a) /\ rows = CandidateRows(data[s], name, id)
                         /\ rows # {} /\ a.body.types = One(rows).types
        BY <1>5 DEF CandidateAnswer, buildCandidateDetail
    <2>2. s = e.began /\ Keyed(d)
        BY <1>5, <2>1, DataKeyed DEF During, Between, Till, Stages
    <2>3. /\ id \in Members(d, name)
          /\ \E p \in d.pokemon : p.id = id /\ One(rows).types = GameTypes(d, p, name)
        <3>1. One(rows) \in rows
            BY <2>1 DEF One
        <3>2. rows = CandidateRows(d, name, id)
            BY <2>1, <2>2
        <3> HIDE DEF d, name, id
        <3> QED BY <1>1, <2>1, <2>2, <3>1, <3>2, CandidateRowsAre
    <2>4. PICK p \in d.pokemon : p.id = id /\ a.body.types = GameTypes(d, p, name)
        BY <2>1, <2>3
    <2>5. ASSUME RulesAgree(name), NEW r \in Entries(e.body, id)
          PROVE  r.types = a.body.types
        <3>1. PICK t : During(t, e) /\ \E q \in data[t].pokemon :
                  q.id = id /\ r.types = GameTypes(data[t], q, name)
            BY <1>3, <2>5
        <3>2. t = e.began
            BY <1>5, <3>1 DEF During, Between, Till, Stages
        <3>3. PICK q \in d.pokemon : q.id = id /\ r.types = GameTypes(d, q, name)
            BY <3>1, <3>2
        <3>4. q = p
            BY <2>2, <2>4, <3>3 DEF Keyed
        <3> QED BY <2>4, <3>3, <3>4
    <2> QED BY <1>2, <2>3, <2>5
<1> QED BY <1>4, <1>5

\* Of some games' wordings one is the newest.
LEMMA Newest ==
    ASSUME NEW W, W # {}
    PROVE  \E w \in W : \A o \in W : Position(o.version, GameOrder) <= Position(w.version, GameOrder)
<1> DEFINE age(w) == Position(w.version, GameOrder)
           left == {39 - age(w) : w \in W}
<1>1. \A w \in W : age(w) \in 1 .. 39
    <2>1. Len(GameOrder) = 38 /\ DOMAIN GameOrder = 1 .. 38
        BY DEF GameOrder
    <2> SUFFICES ASSUME NEW w \in W PROVE age(w) \in 1 .. 39
        OBVIOUS
    <2> DEFINE at == {i \in 1 .. 38 : GameOrder[i] = w.version}
    <2>3. age(w) = IF at = {} THEN 39 ELSE CHOOSE i \in at : \A j \in at : i <= j
        BY <2>1 DEF Position
    <2>4. at \in SUBSET Nat /\ at \subseteq 1 .. 38
        OBVIOUS
    <2> HIDE DEF at, age
    <2>5. at # {} => \E i \in at : \A j \in at : i <= j
        BY <2>4, Smallest
    <2>6. CASE at = {}
        BY <2>3, <2>6
    <2>7. CASE at # {}
        <3>1. age(w) \in at
            BY <2>3, <2>5, <2>7
        <3>2. age(w) \in 1 .. 38
            BY <2>4, <3>1
        <3> QED BY <3>2
    <2> QED BY <2>6, <2>7
<1> HIDE DEF age
<1>2. left \in SUBSET Nat /\ left # {}
    BY <1>1
<1>3. PICK m \in left : \A n \in left : m <= n
    BY <1>2, Smallest
<1>4. PICK w \in W : m = 39 - age(w)
    BY <1>3
<1>5. ASSUME NEW o \in W PROVE age(o) <= age(w)
    <2>1. 39 - age(o) \in left
        OBVIOUS
    <2>2. 39 - age(w) <= 39 - age(o)
        BY <1>3, <1>4, <2>1
    <2> QED BY <1>1, <2>2
<1> QED BY <1>5 DEF age

\* Each move of the answer has the newest wording there was when it was looked up.
LEMMA MovesDescribed ==
    ASSUME NEW data \in Scenarios, NEW a, a.began \in Stages, a.ended \in Stages,
           CandidateAnswer(data, a), NEW m \in a.body.moves
    PROVE  LET games == versionGroups[a.name].games
               wordings(d) == {w \in d.movedescriptions : w.of = m.move
                                   /\ (games = {} \/ w.version \in games)}
               age(w) == Position(w.version, GameOrder)
           IN IF m.text = "" THEN wordings(data[a.began]) = {}
              ELSE \E w \in wordings(data[a.ended]) :
                       /\ w.text = m.text
                       /\ \A o \in wordings(data[a.began]) : age(o) <= age(w)
<1> DEFINE games == versionGroups[a.name].games
           wordings(d) == {w \in d.movedescriptions : w.of = m.move
                               /\ (games = {} \/ w.version \in games)}
           age(w) == Position(w.version, GameOrder)
           entry(n, found) == [move |-> n.move, power |-> n.power, pp |-> n.pp,
                               cooldown |-> n.cooldown, text |-> DescriptionOf(n.move, found)]
<1>1. PICK rows, abilities, learnt, found :
        /\ \E s : During(s, a) /\ found = GetCandidateMoveDescriptions(
               data[s], {n.move : n \in learnt}, games)
        /\ \E moves \in OneOfEachMove(learnt) :
               a.body = buildCandidateDetail(One(rows), abilities, moves, found,
                                             versionGroups[a.name].gen)
    BY DEF CandidateAnswer
<1>2. PICK s : During(s, a) /\ found = GetCandidateMoveDescriptions(
          data[s], {n.move : n \in learnt}, games)
    BY <1>1
<1>3. PICK moves \in OneOfEachMove(learnt) :
          a.body = buildCandidateDetail(One(rows), abilities, moves, found,
                                        versionGroups[a.name].gen)
    BY <1>1
<1>4. /\ During(s, a)
      /\ found = GetCandidateMoveDescriptions(data[s], {n.move : n \in learnt}, games)
      /\ moves \in OneOfEachMove(learnt)
      /\ a.body.moves = {entry(n, found) : n \in moves}
    BY <1>2, <1>3 DEF buildCandidateDetail
<1>5. PICK n \in moves : m.move = n.move /\ m.text = DescriptionOf(n.move, found)
    <2>1. PICK n \in moves : m = entry(n, found)
        BY <1>4
    <2> QED BY <2>1
<1>6. n \in learnt
    BY <1>4, <1>5 DEF OneOfEachMove
<1> DEFINE d == data[s]
           mine == {e \in found : e.of = m.move}
<1>7. mine = {w \in wordings(d) : \A o \in wordings(d) : age(o) <= age(w)}
    <2>1. \A w : w \in mine <=> w \in wordings(d) /\ \A o \in wordings(d) : age(o) <= age(w)
        BY <1>4, <1>5, <1>6 DEF GetCandidateMoveDescriptions
    <2> QED BY <2>1
<1>8. m.text = One(OrElse({w.text : w \in mine}, ""))
    BY <1>5 DEF DescriptionOf
<1>9. Keyed(d) /\ Within(data[a.began], d) /\ Within(d, data[a.ended])
    BY <1>4, DataKeyed, DataGrows DEF During, Between
<1>10. wordings(data[a.began]) \subseteq wordings(d) /\ wordings(d) \subseteq wordings(data[a.ended])
    BY <1>9 DEF Within
<1>11. \A w \in wordings(d) : w.text # ""
    BY <1>9 DEF Keyed
<1> HIDE DEF wordings, mine, games
<1>12. CASE wordings(d) = {}
    <2>1. mine = {} /\ wordings(data[a.began]) = {}
        BY <1>7, <1>10, <1>12
    <2>2. m.text = ""
        BY <1>8, <2>1 DEF OrElse, One
    <2> QED BY <2>1, <2>2 DEF wordings, games
<1>13. CASE wordings(d) # {}
    <2>1. mine # {}
        BY <1>7, <1>13, Newest
    <2>2. PICK w \in mine : m.text = w.text
        BY <1>8, <2>1 DEF OrElse, One
    <2>3. w \in wordings(d) /\ \A o \in wordings(d) : age(o) <= age(w)
        BY <1>7
    <2>4. m.text # "" /\ w \in wordings(data[a.ended])
        BY <1>10, <1>11, <2>2, <2>3
    <2>5. \A o \in wordings(data[a.began]) : age(o) <= age(w)
        BY <1>10, <2>3
    <2> HIDE DEF age
    <2>6. \E v \in wordings(data[a.ended]) :
              v.text = m.text /\ \A o \in wordings(data[a.began]) : age(o) <= age(v)
        BY <2>2, <2>4, <2>5
    <2> QED BY <2>4, <2>6 DEF wordings, age, games
<1> QED BY <1>12, <1>13

-----------------------------------------------------------------------------
(* The national Pokedex                                                      *)

\* groups are the rows cut before start[1], start[2] and so on; start[10] is
\* behind the last row.
Cuts(start, rows, groups) ==
    /\ start \in [1 .. 10 -> Nat] /\ start[1] = 1 /\ start[10] = Len(rows) + 1
    /\ \A g \in 1 .. 9 : start[g] < start[g + 1]
    /\ DOMAIN groups = 1 .. 9 /\ Len(groups) = 9
    /\ \A g \in 1 .. 9 : groups[g].pokemon = SubSeq(rows, start[g], start[g + 1] - 1)
    /\ \A g \in 1 .. 9 : \A i \in start[g] .. start[g + 1] - 1 :
           /\ separatorNums[g] <= rows[i].num
           /\ g < 9 => rows[i].num < separatorNums[g + 1]

LEMMA Separators ==
    /\ Len(separatorNums) = 9 /\ DOMAIN separatorNums = 1 .. 9 /\ separatorNums[1] = 1
    /\ \A g \in 1 .. 9 : separatorNums[g] \in Nat
    /\ \A g \in 1 .. 8 : separatorNums[g] < separatorNums[g + 1]
BY DEF separatorNums

LEMMA CutsAre ==
    ASSUME NEW S, NEW rows \in Seq(S), \A r \in S : r.num \in Nat \ {0} /\ r.id \in Nat,
           Rises(rows), NEW groups \in GenGroups(rows)
    PROVE  \E start : Cuts(start, rows, groups)
<1> DEFINE N == Len(rows)
           first(g) == One(SeparatorIndices(rows, separatorNums[g]))
           start == [g \in 1 .. 10 |-> IF g = 10 THEN N + 1 ELSE first(g)]
<1>1. N \in Nat /\ DOMAIN rows = 1 .. N
    BY LenProperties
<1>2. \A i \in 1 .. N : rows[i].num \in Nat \ {0}
    BY ElementOfSeq
<1>3. ASSUME NEW i \in 1 .. N, NEW j \in 1 .. N, i <= j
      PROVE  rows[i].num <= rows[j].num
    <2>1. rows[i].num \in Nat /\ rows[j].num \in Nat
        BY <1>2
    <2>2. i < j => rows[i].num <= rows[j].num
        BY <2>1 DEF Rises
    <2> QED BY <1>1, <1>3, <2>1, <2>2
<1>4. \A g \in 1 .. 9 : SeparatorIndices(rows, separatorNums[g]) # {}
    BY Separators, Zenon DEF GenGroups
<1>5. ASSUME NEW g \in 1 .. 9
      PROVE  /\ first(g) \in 1 .. N /\ rows[first(g)].num = separatorNums[g]
             /\ \A j \in 1 .. first(g) - 1 : rows[j].num # separatorNums[g]
    <2>1. first(g) \in SeparatorIndices(rows, separatorNums[g])
        BY <1>4 DEF One
    <2> HIDE DEF first
    <2> QED BY <1>1, <2>1 DEF SeparatorIndices
<1>6. groups = [i \in DOMAIN separatorNums |-> Group(
          "Gen " \o ToString(i),
          SubSeq(rows, first(i), IF i < Len(separatorNums) THEN first(i + 1) - 1 ELSE N))]
    BY <1>4, Separators, Zenon DEF GenGroups
<1> HIDE DEF N, first
<1>7. /\ start \in [1 .. 10 -> Nat] /\ start[10] = N + 1
      /\ \A g \in 1 .. 9 : start[g] = first(g)
    <2>1. \A g \in 1 .. 10 : start[g] = IF g = 10 THEN N + 1 ELSE first(g)
        OBVIOUS
    <2>2. ASSUME NEW g \in 1 .. 10 PROVE (IF g = 10 THEN N + 1 ELSE first(g)) \in Nat
        <3>1. CASE g = 10
            BY <1>1, <3>1
        <3>2. CASE g # 10
            <4>1. g \in 1 .. 9
                BY <3>2
            <4>2. first(g) \in 1 .. N
                BY <1>5, <4>1
            <4> QED BY <1>1, <3>2, <4>2
        <3> QED BY <3>1, <3>2
    <2>3. start \in [1 .. 10 -> Nat]
        BY <2>2
    <2>4. 10 \in 1 .. 10 /\ \A g \in 1 .. 9 : g \in 1 .. 10 /\ g # 10
        OBVIOUS
    <2> HIDE DEF start
    <2> QED BY <2>1, <2>3, <2>4
<1> HIDE DEF start
<1>8. start[1] = 1
    <2>1. first(1) \in 1 .. N /\ rows[first(1)].num = 1
        BY <1>5, Separators
    <2>2. 1 \in 1 .. N /\ rows[1].num <= rows[first(1)].num
        BY <1>1, <1>3, <2>1
    <2>3. rows[1].num = 1
        BY <1>2, <2>1, <2>2
    <2>4. \A j \in 1 .. first(1) - 1 : rows[j].num # 1
        BY <1>5, Separators
    <2>5. ~(1 <= first(1) - 1)
        BY <2>3, <2>4, <2>1
    <2>6. first(1) = 1
        BY <1>1, <2>1, <2>5
    <2>7. start[1] = first(1)
        BY <1>7
    <2> QED BY <2>6, <2>7
<1>9. ASSUME NEW g \in 1 .. 9 PROVE start[g] < start[g + 1]
    <2>1. CASE g = 9
        <3>1. start[g] = first(g) /\ start[g + 1] = N + 1
            BY <1>7, <2>1
        <3>2. first(g) \in 1 .. N
            BY <1>5
        <3> QED BY <1>1, <3>1, <3>2
    <2>2. CASE g # 9
        <3>1. g \in 1 .. 8 /\ g + 1 \in 1 .. 9
            BY <2>2
        <3>2. /\ first(g) \in 1 .. N /\ rows[first(g)].num = separatorNums[g]
              /\ first(g + 1) \in 1 .. N /\ rows[first(g + 1)].num = separatorNums[g + 1]
            BY <1>5, <3>1
        <3>3. ~(separatorNums[g + 1] <= separatorNums[g])
            <4>1. separatorNums[g] \in Nat /\ separatorNums[g + 1] \in Nat
                BY <3>1, Separators
            <4>2. separatorNums[g] < separatorNums[g + 1]
                BY <3>1, Separators
            <4> QED BY <4>1, <4>2
        <3>4. ~(first(g + 1) <= first(g))
            BY <1>3, <3>2, <3>3
        <3>5. first(g) < first(g + 1)
            BY <1>1, <3>2, <3>4
        <3>6. start[g] = first(g) /\ start[g + 1] = first(g + 1)
            BY <1>7, <3>1
        <3> QED BY <3>5, <3>6
    <2> QED BY <2>1, <2>2
<1>10. ASSUME NEW g \in 1 .. 9
       PROVE  groups[g].pokemon = SubSeq(rows, start[g], start[g + 1] - 1)
    <2>1. groups[g].pokemon =
              SubSeq(rows, first(g), IF g < 9 THEN first(g + 1) - 1 ELSE N)
        BY <1>6, Separators DEF Group
    <2>2. CASE g = 9
        <3>1. start[g] = first(g) /\ start[g + 1] - 1 = N
            BY <1>1, <1>7, <2>2
        <3>2. groups[g].pokemon = SubSeq(rows, first(g), N)
            BY <2>1, <2>2
        <3> QED BY <3>1, <3>2
    <2>3. CASE g # 9
        <3>1. start[g] = first(g) /\ start[g + 1] = first(g + 1) /\ g < 9
            <4>1. g \in 1 .. 9 /\ g + 1 \in 1 .. 9 /\ g < 9
                BY <2>3
            <4> QED BY <1>7, <4>1
        <3> QED BY <2>1, <3>1
    <2> QED BY <2>2, <2>3
<1>11. ASSUME NEW g \in 1 .. 9, NEW i \in start[g] .. start[g + 1] - 1
       PROVE  /\ separatorNums[g] <= rows[i].num
              /\ g < 9 => rows[i].num < separatorNums[g + 1]
    <2>1. start[g] = first(g) /\ first(g) \in 1 .. N /\ rows[first(g)].num = separatorNums[g]
        BY <1>5, <1>7
    <2>2. start[g + 1] \in 1 .. N + 1
        <3>1. CASE g = 9
            <4>1. start[g + 1] = N + 1
                BY <1>7, <3>1
            <4> QED BY <1>1, <4>1
        <3>2. CASE g # 9
            <4>1. g + 1 \in 1 .. 9
                BY <3>2
            <4>2. start[g + 1] = first(g + 1) /\ first(g + 1) \in 1 .. N
                BY <1>5, <1>7, <4>1
            <4> QED BY <1>1, <4>2
        <3> QED BY <3>1, <3>2
    <2>3. i \in 1 .. N /\ first(g) <= i /\ i < start[g + 1]
        BY <1>1, <2>1, <2>2
    <2>4. separatorNums[g] <= rows[i].num
        BY <1>3, <2>1, <2>3
    <2>5. ASSUME g < 9 PROVE rows[i].num < separatorNums[g + 1]
        <3>1. g + 1 \in 1 .. 9
            BY <2>5
        <3>2. /\ start[g + 1] = first(g + 1) /\ first(g + 1) \in 1 .. N
              /\ rows[first(g + 1)].num = separatorNums[g + 1]
              /\ \A j \in 1 .. first(g + 1) - 1 : rows[j].num # separatorNums[g + 1]
            BY <1>5, <1>7, <3>1
        <3>3. i \in 1 .. first(g + 1) - 1
            BY <1>1, <2>3, <3>2
        <3>4. i <= first(g + 1)
            BY <2>3, <3>2
        <3>5. rows[i].num <= separatorNums[g + 1]
            BY <1>3, <2>3, <3>2, <3>4
        <3>6. rows[i].num # separatorNums[g + 1]
            BY <3>2, <3>3
        <3>7. rows[i].num \in Nat /\ separatorNums[g + 1] \in Nat
            BY <1>2, <2>3, <3>1, Separators
        <3> QED BY <3>5, <3>6, <3>7
    <2> QED BY <2>4, <2>5
<1>12. DOMAIN groups = 1 .. 9
    BY <1>6, Separators
<1>13. Len(groups) = 9
    <2>1. groups \in Seq({groups[g] : g \in 1 .. 9})
        <3>1. groups = [g \in 1 .. 9 |-> groups[g]]
            BY <1>6, Separators
        <3>2. groups \in [1 .. 9 -> {groups[g] : g \in 1 .. 9}]
            BY <3>1
        <3>3. [1 .. 9 -> {groups[g] : g \in 1 .. 9}] \in
                  {[1 .. k -> {groups[g] : g \in 1 .. 9}] : k \in Nat}
            OBVIOUS
        <3>4. groups \in UNION {[1 .. k -> {groups[g] : g \in 1 .. 9}] : k \in Nat}
            BY <3>2, <3>3, Zenon
        <3> QED BY <3>4, SeqDef, Zenon
    <2> DEFINE n == Len(groups)
    <2>2. n \in Nat /\ 1 .. n = 1 .. 9
        BY <1>12, <2>1, LenProperties
    <2> HIDE DEF n
    <2>3. 9 \in 1 .. n
        <3>1. 9 \in 1 .. 9
            OBVIOUS
        <3> QED BY <2>2, <3>1, Zenon
    <2>4. n >= 9
        BY <2>2, <2>3
    <2>5. n <= 9
        <3>1. n \in 1 .. n
            BY <2>2, <2>4
        <3>2. n \in 1 .. 9
            BY <2>2, <3>1, Zenon
        <3> QED BY <3>2
    <2>6. n = 9
        BY <2>2, <2>4, <2>5
    <2> QED BY <2>6 DEF n
<1>14. start[10] = Len(rows) + 1
    BY <1>7 DEF N
<1>15. Cuts(start, rows, groups)
    BY <1>7, <1>8, <1>9, <1>10, <1>11, <1>12, <1>13, <1>14 DEF Cuts
<1> QED BY <1>15

\* The cuts miss no row and no two of them overlap.
LEMMA CutsTile ==
    ASSUME NEW rows, Len(rows) \in Nat, NEW start, NEW groups, Cuts(start, rows, groups)
    PROVE  /\ \A i \in 1 .. Len(rows) : \E g \in 1 .. 9 : start[g] <= i /\ i < start[g + 1]
           /\ \A g, h \in 1 .. 9 : g < h => start[g + 1] <= start[h]
           /\ \A g \in 1 .. 9 : start[g] \in Nat /\ 1 <= start[g]
           /\ \A g \in 1 .. 9 : start[g + 1] \in Nat /\ start[g + 1] <= Len(rows) + 1
<1> DEFINE N == Len(rows)
           a == start[1] b == start[2] c == start[3] d == start[4] e == start[5]
           f == start[6] k == start[7] l == start[8] m == start[9] n == start[10]
<1>1. \A g \in 1 .. 10 : start[g] \in Nat
    BY DEF Cuts
<1>2. /\ a \in Nat /\ b \in Nat /\ c \in Nat /\ d \in Nat /\ e \in Nat
      /\ f \in Nat /\ k \in Nat /\ l \in Nat /\ m \in Nat /\ n \in Nat
    BY <1>1
<1>3. a = 1 /\ n = N + 1 /\ N \in Nat
    BY DEF Cuts
<1>4. \A g \in 1 .. 9 : start[g] < start[g + 1]
    BY DEF Cuts
<1>5. /\ start[1] < start[1 + 1] /\ start[2] < start[2 + 1] /\ start[3] < start[3 + 1]
      /\ start[4] < start[4 + 1] /\ start[5] < start[5 + 1] /\ start[6] < start[6 + 1]
      /\ start[7] < start[7 + 1] /\ start[8] < start[8 + 1] /\ start[9] < start[9 + 1]
    BY <1>4
<1>6. a < b /\ b < c /\ c < d /\ d < e /\ e < f /\ f < k /\ k < l /\ l < m /\ m < n
    BY <1>5
<1>7. /\ start[1] = a /\ start[1 + 1] = b /\ start[2] = b /\ start[2 + 1] = c
      /\ start[3] = c /\ start[3 + 1] = d /\ start[4] = d /\ start[4 + 1] = e
      /\ start[5] = e /\ start[5 + 1] = f /\ start[6] = f /\ start[6 + 1] = k
      /\ start[7] = k /\ start[7 + 1] = l /\ start[8] = l /\ start[8 + 1] = m
      /\ start[9] = m /\ start[9 + 1] = n
    OBVIOUS
<1> HIDE DEF a, b, c, d, e, f, k, l, m, n, N
<1>8. ASSUME NEW i \in 1 .. N
      PROVE  \E g \in 1 .. 9 : start[g] <= i /\ i < start[g + 1]
    <2>1. \/ a <= i /\ i < b
          \/ b <= i /\ i < c
          \/ c <= i /\ i < d
          \/ d <= i /\ i < e
          \/ e <= i /\ i < f
          \/ f <= i /\ i < k
          \/ k <= i /\ i < l
          \/ l <= i /\ i < m
          \/ m <= i /\ i < n
        BY <1>2, <1>3
    <2> QED BY <1>7, <2>1
<1>9. ASSUME NEW g \in 1 .. 9, NEW h \in 1 .. 9, g < h
       PROVE  start[g + 1] <= start[h]
    <2> DEFINE q == start[g + 1]
               u == start[h]
    <2>1. /\ g = 1 => q = b
          /\ g = 2 => q = c
          /\ g = 3 => q = d
          /\ g = 4 => q = e
          /\ g = 5 => q = f
          /\ g = 6 => q = k
          /\ g = 7 => q = l
          /\ g = 8 => q = m
        BY <1>7
    <2>2. /\ h = 2 => u = b
          /\ h = 3 => u = c
          /\ h = 4 => u = d
          /\ h = 5 => u = e
          /\ h = 6 => u = f
          /\ h = 7 => u = k
          /\ h = 8 => u = l
          /\ h = 9 => u = m
        BY <1>7
    <2> HIDE DEF q, u
    <2>3. q <= u
        BY <1>2, <1>6, <1>9, <2>1, <2>2
    <2> QED BY <2>3 DEF q, u
<1>10. ASSUME NEW g \in 1 .. 9
       PROVE  /\ start[g] \in Nat /\ 1 <= start[g]
              /\ start[g + 1] \in Nat /\ start[g + 1] <= N + 1
    <2> DEFINE p == start[g]
               q == start[g + 1]
    <2>1. /\ g = 1 => p = a /\ q = b
          /\ g = 2 => p = b /\ q = c
          /\ g = 3 => p = c /\ q = d
          /\ g = 4 => p = d /\ q = e
          /\ g = 5 => p = e /\ q = f
          /\ g = 6 => p = f /\ q = k
          /\ g = 7 => p = k /\ q = l
          /\ g = 8 => p = l /\ q = m
          /\ g = 9 => p = m /\ q = n
        BY <1>7
    <2> HIDE DEF p, q
    <2>2. p \in Nat /\ 1 <= p /\ q \in Nat /\ q <= N + 1
        BY <1>2, <1>3, <1>6, <2>1
    <2> QED BY <2>2 DEF p, q
<1> QED BY <1>8, <1>9, <1>10 DEF N

DexRows(body) == UNION {{<<g, i>> : i \in DOMAIN body[g].pokemon} : g \in DOMAIN body}
RowAt(body, r) == body[r[1]].pokemon[r[2]]

\* The groups are a national Pokedex of the Pokemon ids.
WholeDex(body, ids) ==
    /\ Len(body) = 9
    /\ {RowAt(body, r).id : r \in DexRows(body)} = ids
    /\ Cardinality(DexRows(body)) = Cardinality(ids)
    /\ \A r \in DexRows(body) :
           /\ separatorNums[r[1]] <= RowAt(body, r).num
           /\ r[1] < 9 => RowAt(body, r).num < separatorNums[r[1] + 1]

LEMMA WholeDexIs ==
    ASSUME NEW d, Keyed(d), NEW groups \in GenGroups(NationalRows(d))
    PROVE  WholeDex(groups, {p.id : p \in d.pokemon})
<1> DEFINE rows == NationalRows(d)
           ids == {p.id : p \in d.pokemon}
           N == Len(rows)
           R == DexRows(groups)
           at(r) == RowAt(groups, r)
<1>1. PICK S : /\ Shows(rows, S)
               /\ \A r \in S : \E p \in d.pokemon : r.id = p.id /\ r.types = p.types
               /\ \A p \in d.pokemon : \E r \in S : r.id = p.id
               /\ Rises(rows)
               /\ \A r \in S : r.num \in Nat \ {0} /\ r.id \in Nat
               /\ \A r, s \in S : r.id = s.id => r = s
    BY NationalList
<1>2. /\ rows \in Seq(S) /\ N \in Nat
      /\ \A i \in 1 .. N : rows[i] \in S
      /\ \A r \in S : \E i \in 1 .. N : rows[i] = r
    BY <1>1, LenProperties, ElementOfSeq DEF Shows
<1>3. PICK start : Cuts(start, rows, groups)
    BY <1>1, <1>2, CutsAre
<1>4. /\ \A i \in 1 .. N : \E g \in 1 .. 9 : start[g] <= i /\ i < start[g + 1]
      /\ \A g, h \in 1 .. 9 : g < h => start[g + 1] <= start[h]
      /\ \A g \in 1 .. 9 : start[g] \in Nat /\ 1 <= start[g]
      /\ \A g \in 1 .. 9 : start[g + 1] \in Nat /\ start[g + 1] <= N + 1
    BY <1>2, <1>3, CutsTile
<1>5. /\ DOMAIN groups = 1 .. 9 /\ Len(groups) = 9
      /\ \A g \in 1 .. 9 : start[g] < start[g + 1]
      /\ \A g \in 1 .. 9 : groups[g].pokemon = SubSeq(rows, start[g], start[g + 1] - 1)
      /\ \A g \in 1 .. 9 : \A i \in start[g] .. start[g + 1] - 1 :
             /\ separatorNums[g] <= rows[i].num
             /\ g < 9 => rows[i].num < separatorNums[g + 1]
    BY <1>3 DEF Cuts
<1>6. /\ \A i \in 1 .. N : rows[i].id \in ids
      /\ \A id \in ids : \E i \in 1 .. N : rows[i].id = id
    <2>1. \A i \in 1 .. N : \E p \in d.pokemon : rows[i].id = p.id
        BY <1>1, <1>2
    <2>2. \A p \in d.pokemon : \E i \in 1 .. N : rows[i].id = p.id
        <3> SUFFICES ASSUME NEW p \in d.pokemon PROVE \E i \in 1 .. N : rows[i].id = p.id
            OBVIOUS
        <3>1. PICK r \in S : r.id = p.id
            BY <1>1
        <3>2. PICK i \in 1 .. N : rows[i] = r
            BY <1>2
        <3> QED BY <3>1, <3>2
    <2> HIDE DEF rows, N
    <2> QED BY <2>1, <2>2
<1>7. ASSUME NEW i \in 1 .. N, NEW j \in 1 .. N, rows[i].id = rows[j].id
      PROVE  i = j
    <2>1. rows[i] = rows[j] /\ rows[i].num \in Nat /\ rows[i].id \in Nat
        BY <1>1, <1>2, <1>7
    <2>2. ~(i < j) /\ ~(j < i)
        BY <1>1, <2>1 DEF Rises
    <2> QED BY <1>2, <2>2
<1> HIDE DEF rows, ids, N, R, at
<1> DEFINE size(g) == start[g + 1] - start[g]
           pos(g, i) == start[g] + i - 1
<1>8. ASSUME NEW g \in 1 .. 9
      PROVE  /\ DOMAIN groups[g].pokemon = 1 .. size(g)
             /\ \A i \in 1 .. size(g) : groups[g].pokemon[i] = rows[pos(g, i)]
    <2> DEFINE m == start[g]
               next == start[g + 1]
               n == next - 1
    <2>1. m \in Nat /\ next \in Nat /\ 1 <= m /\ m < next /\ next <= N + 1
        BY <1>4, <1>5
    <2>2. size(g) = next - m
        OBVIOUS
    <2> HIDE DEF m, next, size
    <2>3. /\ m \in Int /\ n \in Int /\ m <= n /\ 1 <= m /\ n <= N
          /\ size(g) = n - m + 1
        BY <1>2, <2>1, <2>2
    <2>4. groups[g].pokemon = SubSeq(rows, m, n)
        BY <1>5 DEF m, next
    <2> HIDE DEF m, n
    <2>5. \A i \in m .. n : rows[i] \in S
        BY <1>2, <2>3
    <2>6. /\ SubSeq(rows, m, n) \in Seq(S)
          /\ Len(SubSeq(rows, m, n)) = n - m + 1
          /\ \A i \in 1 .. n - m + 1 : SubSeq(rows, m, n)[i] = rows[m + i - 1]
        BY <2>3, <2>5, SubSeqProperties
    <2>7. DOMAIN groups[g].pokemon = 1 .. n - m + 1
        BY <2>4, <2>6, LenProperties
    <2>8. \A i \in 1 .. n - m + 1 : groups[g].pokemon[i] = rows[m + i - 1]
        BY <2>4, <2>6
    <2>9. \A i \in 1 .. size(g) : groups[g].pokemon[i] = rows[m + i - 1]
        BY <2>3, <2>8
    <2> QED BY <2>3, <2>7, <2>9 DEF m
<1>9. ASSUME NEW g \in 1 .. 9, NEW i \in 1 .. size(g)
      PROVE  /\ pos(g, i) \in 1 .. N
             /\ start[g] <= pos(g, i) /\ pos(g, i) < start[g + 1]
             /\ pos(g, i) \in start[g] .. start[g + 1] - 1
    <2> DEFINE m == start[g]
               next == start[g + 1]
    <2>1. m \in Nat /\ next \in Nat /\ 1 <= m /\ m < next /\ next <= N + 1
        BY <1>4, <1>5
    <2>2. i \in 1 .. next - m
        OBVIOUS
    <2> HIDE DEF m, next
    <2>3. /\ m + i - 1 \in 1 .. N /\ m <= m + i - 1 /\ m + i - 1 < next
          /\ m + i - 1 \in m .. next - 1
        BY <1>2, <2>1, <2>2
    <2> QED BY <2>3 DEF m, next
<1>10. \A r : r \in R <=> \E g \in 1 .. 9 : \E i \in 1 .. size(g) : r = <<g, i>>
    <2> HIDE DEF size
    <2>1. \A r : r \in R <=> \E g \in 1 .. 9 : r \in {<<g, i>> : i \in DOMAIN groups[g].pokemon}
        BY <1>5 DEF R, DexRows
    <2>2. \A g \in 1 .. 9 : DOMAIN groups[g].pokemon = 1 .. size(g)
        BY <1>8
    <2>3. \A g \in 1 .. 9 : {<<g, i>> : i \in DOMAIN groups[g].pokemon} = {<<g, i>> : i \in 1 .. size(g)}
        BY <2>2, Zenon
    <2>4. \A r : \A g \in 1 .. 9 :
              r \in {<<g, i>> : i \in 1 .. size(g)} <=> \E i \in 1 .. size(g) : r = <<g, i>>
        OBVIOUS
    <2>5. ASSUME NEW r
          PROVE  r \in R <=> \E g \in 1 .. 9 : \E i \in 1 .. size(g) : r = <<g, i>>
        <3>1. r \in R <=> \E g \in 1 .. 9 : r \in {<<g, i>> : i \in 1 .. size(g)}
            BY <2>1, <2>3
        <3> QED BY <2>4, <3>1
    <2> QED BY <2>5
<1>11. \A g \in 1 .. 9 : \A i \in 1 .. size(g) : at(<<g, i>>) = rows[pos(g, i)]
    BY <1>8 DEF at, RowAt
<1>12. \A r \in R : at(r).id \in ids
    BY <1>6, <1>9, <1>10, <1>11
<1>13. ASSUME NEW id \in ids PROVE \E r \in R : at(r).id = id
    <2>1. PICK i \in 1 .. N : rows[i].id = id
        BY <1>6
    <2>2. PICK g \in 1 .. 9 : start[g] <= i /\ i < start[g + 1]
        BY <1>4
    <2> DEFINE j == i - start[g] + 1
    <2>3. j \in 1 .. size(g) /\ pos(g, j) = i
        BY <1>4, <2>2
    <2> HIDE DEF j, pos
    <2>4. <<g, j>> \in R /\ at(<<g, j>>) = rows[i]
        BY <1>10, <1>11, <2>3
    <2> QED BY <2>1, <2>4
<1>14. ASSUME NEW r \in R, NEW s \in R, at(r).id = at(s).id PROVE r = s
    <2>1. PICK g \in 1 .. 9 : \E i \in 1 .. size(g) : r = <<g, i>>
        BY <1>10
    <2>2. PICK i \in 1 .. size(g) : r = <<g, i>>
        BY <2>1
    <2>3. PICK h \in 1 .. 9 : \E j \in 1 .. size(h) : s = <<h, j>>
        BY <1>10
    <2>4. PICK j \in 1 .. size(h) : s = <<h, j>>
        BY <2>3
    <2>5. pos(g, i) = pos(h, j)
        <3> HIDE DEF pos
        <3>1. rows[pos(g, i)].id = rows[pos(h, j)].id
            BY <1>11, <1>14, <2>2, <2>4
        <3> QED BY <1>7, <1>9, <3>1
    <2>6. ~(g < h)
        <3>1. g < h => start[g + 1] <= start[h]
            BY <1>4
        <3> QED BY <1>4, <1>9, <2>5, <3>1
    <2>7. ~(h < g)
        <3>1. h < g => start[h + 1] <= start[g]
            BY <1>4
        <3> QED BY <1>4, <1>9, <2>5, <3>1
    <2>8. g = h
        BY <2>6, <2>7
    <2>9. i = j
        BY <1>4, <2>5, <2>8
    <2> QED BY <2>2, <2>4, <2>8, <2>9
<1>15. {at(r).id : r \in R} = ids
    BY <1>12, <1>13
<1>16. Cardinality(R) = Cardinality(ids)
    <2> DEFINE f == [r \in R |-> at(r).id]
               e == [p \in d.pokemon |-> p.id]
    <2>1. f \in Injection(R, ids) /\ f \in Surjection(R, ids)
        <3>1. f \in [R -> ids] /\ \A r \in R : f[r] = at(r).id
            BY <1>12
        <3> HIDE DEF f
        <3>2. \A r, s \in R : f[r] = f[s] => r = s
            BY <1>14, <3>1
        <3>3. \A id \in ids : \E r \in R : f[r] = id
            BY <1>13, <3>1
        <3>4. f \in Injection(R, ids)
            BY <3>1, <3>2 DEF Injection, IsInjective
        <3>5. f \in Surjection(R, ids)
            BY <3>1, <3>3 DEF Surjection
        <3> QED BY <3>4, <3>5
    <2>2. e \in Surjection(d.pokemon, ids)
        BY DEF Surjection, ids
    <2>3. IsFiniteSet(d.pokemon)
        BY DEF Keyed
    <2> HIDE DEF f, e
    <2>4. IsFiniteSet(ids)
        BY <2>2, <2>3, FS_Surjection
    <2> QED BY <2>1, <2>4, FS_Injection
<1>17. ASSUME NEW r \in R
       PROVE  /\ separatorNums[r[1]] <= at(r).num
              /\ r[1] < 9 => at(r).num < separatorNums[r[1] + 1]
    <2>1. PICK g \in 1 .. 9 : \E i \in 1 .. size(g) : r = <<g, i>>
        BY <1>10
    <2>2. PICK i \in 1 .. size(g) : r = <<g, i>>
        BY <2>1
    <2>3. pos(g, i) \in start[g] .. start[g + 1] - 1
        BY <1>9
    <2> HIDE DEF pos
    <2>4. at(r) = rows[pos(g, i)] /\ r[1] = g
        BY <1>11, <2>2
    <2> QED BY <1>5, <2>3, <2>4
<1> QED BY <1>5, <1>15, <1>16, <1>17 DEF WholeDex, R, at, ids

\* A national Pokedex answer was cut from the rows of one moment.
DexAnswer(data, a) ==
    \E s : During(s, a) /\ a.body \in GenGroups(NationalRows(data[s]))

-----------------------------------------------------------------------------
(* Lists of rows and enumerations                                            *)

\* What a function makes of a finite set is finite.
LEMMA ImageFinite ==
    ASSUME NEW S, IsFiniteSet(S), NEW T, NEW f \in [S -> T]
    PROVE  IsFiniteSet({f[x] : x \in S})
<1> DEFINE U == {f[x] : x \in S}
<1>1. f \in Surjection(S, U)
    BY DEF Surjection
<1> HIDE DEF U
<1>2. IsFiniteSet(U)
    BY <1>1, FS_Surjection
<1> QED BY <1>2 DEF U

\* A list shows its members, at the places 1 to its length.
LEMMA ShownBy ==
    ASSUME NEW S, NEW list, Shows(list, S)
    PROVE  /\ DOMAIN list = 1 .. Len(list) /\ Len(list) \in Nat
           /\ S = {list[i] : i \in DOMAIN list}
           /\ \A i \in DOMAIN list : list[i] \in S
           /\ IsFiniteSet(DOMAIN list) /\ IsFiniteSet(S)
<1>1. list \in Seq(S) /\ \A r \in S : \E i \in 1 .. Len(list) : list[i] = r
    BY DEF Shows
<1>2. DOMAIN list = 1 .. Len(list) /\ Len(list) \in Nat /\ list \in [DOMAIN list -> S]
    BY <1>1, LenProperties
<1>3. IsFiniteSet(DOMAIN list)
    BY <1>2, FS_Interval
<1>4. \A i \in DOMAIN list : list[i] \in S
    BY <1>2
<1>5. S = {list[i] : i \in DOMAIN list}
    BY <1>1, <1>2, <1>4
<1>6. IsFiniteSet({list[i] : i \in DOMAIN list})
    BY <1>2, <1>3, ImageFinite
<1> QED BY <1>2, <1>3, <1>4, <1>5, <1>6

\* A list written out by its places.
LEMMA Written ==
    ASSUME NEW n \in Nat, NEW list, DOMAIN list = 1 .. n, list = [i \in 1 .. n |-> list[i]],
           NEW S, S = {list[i] : i \in 1 .. n}
    PROVE  Shows(list, S) /\ Len(list) = n
<1>1. list \in [1 .. n -> S]
    OBVIOUS
<1>2. list \in Seq(S)
    <2>1. [1 .. n -> S] \in {[1 .. k -> S] : k \in Nat}
        OBVIOUS
    <2>2. list \in UNION {[1 .. k -> S] : k \in Nat}
        BY <1>1, <2>1, Zenon
    <2> QED BY <2>2, SeqDef, Zenon
<1>3. Len(list) \in Nat /\ DOMAIN list = 1 .. Len(list)
    BY <1>2, LenProperties
<1>4. \A k \in Nat : k \in 1 .. n <=> k \in 1 .. Len(list)
    BY <1>3
<1>5. n <= Len(list)
    BY <1>3, <1>4
<1>6. Len(list) <= n
    BY <1>3, <1>4
<1>7. Len(list) = n
    BY <1>3, <1>5, <1>6
<1>8. \A r \in S : \E i \in 1 .. Len(list) : list[i] = r
    BY <1>7
<1> QED BY <1>2, <1>7, <1>8 DEF Shows

\* The places of a list, in their order.
LEMMA PlacesShown ==
    ASSUME NEW at \in SUBSET Nat, IsFiniteSet(at)
    PROVE  Shows(OrderBy(at, LAMBDA i : <<i>>), at)
<1> DEFINE key == [i \in at |-> <<i>>]
           list == OrderBy(at, LAMBDA i : <<i>>)
<1>1. key \in [at -> [1 .. 1 -> Int]]
    OBVIOUS
<1>2. KeyOf(key, at, 1)
    BY <1>1 DEF KeyOf
<1>3. list = ByKey(at, key)
    BY DEF OrderBy
<1> HIDE DEF key, list
<1>4. Shows(ByKey(at, key), at)
    BY <1>2, Arranging
<1>5. Shows(list, at)
    BY <1>3, <1>4, Zenon
<1> QED BY <1>5 DEF list

\* What is kept of a list at some of its places are the rows at those places.
LEMMA KeptShown ==
    ASSUME NEW R, NEW rows, Shows(rows, R), NEW at \in SUBSET DOMAIN rows
    PROVE  Shows(Kept(rows, at), {rows[i] : i \in at})
<1> DEFINE place == OrderBy(at, LAMBDA i : <<i>>)
           list == Kept(rows, at)
           S == {rows[i] : i \in at}
<1>1. at \in SUBSET Nat /\ IsFiniteSet(at)
    <2>1. DOMAIN rows = 1 .. Len(rows) /\ Len(rows) \in Nat /\ IsFiniteSet(DOMAIN rows)
        BY ShownBy
    <2>2. IsFiniteSet(at)
        BY <2>1, FS_Subset
    <2> QED BY <2>1, <2>2
<1>2. Shows(place, at)
    BY <1>1, PlacesShown
<1>3. list = [i \in DOMAIN place |-> rows[place[i]]]
    BY DEF Kept
<1> HIDE DEF place, list
<1> DEFINE n == Len(place)
<1>4. n \in Nat /\ DOMAIN place = 1 .. n /\ at = {place[i] : i \in 1 .. n}
    BY <1>2, ShownBy
<1> HIDE DEF n
<1>5. DOMAIN list = 1 .. n /\ list = [i \in 1 .. n |-> list[i]]
    BY <1>3, <1>4
<1>6. S = {list[i] : i \in 1 .. n}
    <2>1. \A x : x \in S <=> \E i \in 1 .. n : x = rows[place[i]]
        BY <1>4
    <2>2. \A i \in 1 .. n : list[i] = rows[place[i]]
        BY <1>3, <1>4
    <2> QED BY <2>1, <2>2
<1> HIDE DEF S
<1>7. Shows(list, S)
    BY <1>4, <1>5, <1>6, Written
<1> QED BY <1>7 DEF list, S

\* Enumerations: a member is where Position says it is.
LEMMA Positioned ==
    ASSUME NEW list, NEW n \in Nat, DOMAIN list = 1 .. n, NEW x, Enumerates(list, x)
    PROVE  Position(x, list) \in Nat /\ list[Position(x, list)] = x
<1> DEFINE at == {i \in DOMAIN list : list[i] = x}
<1>1. at \in SUBSET Nat /\ at # {}
    BY DEF Enumerates
<1>2. \E i \in at : \A j \in at : i <= j
    <2> HIDE DEF at
    <2> QED BY <1>1, Smallest
<1>3. Position(x, list) = CHOOSE i \in at : \A j \in at : i <= j
    BY <1>1 DEF Position
<1>4. Position(x, list) \in at
    BY <1>2, <1>3
<1> QED BY <1>1, <1>4

\* The enumerations of the games, the version groups and the learn methods.
LEMMA Enumerations ==
    /\ DOMAIN GameOrder = 1 .. 38
    /\ DOMAIN VersionGroupOrder = 1 .. 23
    /\ DOMAIN MethodColumnOrder = 1 .. 7 /\ DOMAIN LearnMethodOrder = 1 .. 7
    /\ \A x : Enumerates(MethodColumnOrder, x) => Enumerates(LearnMethodOrder, x)
<1>1. DOMAIN GameOrder = 1 .. 38
    BY DEF GameOrder
<1>2. DOMAIN VersionGroupOrder = 1 .. 23
    BY DEF VersionGroupOrder
<1>3. /\ DOMAIN MethodColumnOrder = 1 .. 7 /\ DOMAIN LearnMethodOrder = 1 .. 7
    BY DEF MethodColumnOrder, LearnMethodOrder
<1>4. ASSUME NEW x, Enumerates(MethodColumnOrder, x) PROVE Enumerates(LearnMethodOrder, x)
    <2>1. /\ LearnMethodOrder[1] = MethodColumnOrder[1]
          /\ LearnMethodOrder[4] = MethodColumnOrder[2]
          /\ LearnMethodOrder[3] = MethodColumnOrder[3]
          /\ LearnMethodOrder[2] = MethodColumnOrder[4]
          /\ LearnMethodOrder[5] = MethodColumnOrder[5]
          /\ LearnMethodOrder[6] = MethodColumnOrder[6]
          /\ LearnMethodOrder[7] = MethodColumnOrder[7]
        BY DEF MethodColumnOrder, LearnMethodOrder
    <2>2. \A i \in 1 .. 7 : \E j \in 1 .. 7 : LearnMethodOrder[j] = MethodColumnOrder[i]
        BY <2>1
    <2> QED BY <1>3, <1>4, <2>2 DEF Enumerates
<1> QED BY <1>1, <1>2, <1>3, <1>4

\* Keys of one number are compared as numbers.
LEMMA Before1 ==
    ASSUME NEW a \in Int, NEW b \in Int
    PROVE  Before(<<a>>, <<b>>) <=> a < b
<1> DEFINE s == <<a>>  t == <<b>>
<1>1. DOMAIN s = {1} /\ s[1] = a /\ t[1] = b
    OBVIOUS
<1> HIDE DEF s, t
<1>2. Before(s, t) <=> \E k \in DOMAIN s : s[k] < t[k] /\ \A j \in 1 .. k - 1 : s[j] = t[j]
    BY DEF Before
<1>3. 1 .. 1 - 1 = {}
    OBVIOUS
<1> QED BY <1>1, <1>2, <1>3 DEF s, t

\* Members of an enumeration, in its order.
LEMMA InOrderIs ==
    ASSUME NEW list, NEW n \in Nat, DOMAIN list = 1 .. n,
           NEW values, IsFiniteSet(values), \A v \in values : Enumerates(list, v)
    PROVE  /\ Shows(InOrder(values, list), values)
           /\ Ascending(Ranks(InOrder(values, list), list))
<1> DEFINE key == [v \in values |-> <<Position(v, list)>>]
           shown == InOrder(values, list)
<1>1. \A v \in values : Position(v, list) \in Nat /\ list[Position(v, list)] = v
    BY Positioned
<1>2. key \in [values -> [1 .. 1 -> Int]]
    BY <1>1
<1>3. \A v, w \in values : key[v] = key[w] => v = w
    BY <1>1
<1>4. KeyOf(key, values, 1)
    BY <1>2, <1>3 DEF KeyOf
<1>5. shown = ByKey(values, key)
    BY DEF InOrder, OrderBy
<1>6. \A v \in values : key[v] = <<Position(v, list)>>
    OBVIOUS
<1> HIDE DEF key, shown
<1>7. Shows(shown, values) /\ Sorted(shown, key)
    BY <1>4, <1>5, Arranging
<1>8. DOMAIN shown = 1 .. Len(shown) /\ \A i \in DOMAIN shown : shown[i] \in values
    BY <1>7, ShownBy
<1>9. ASSUME NEW i \in DOMAIN shown, NEW j \in DOMAIN shown, i < j
      PROVE  Position(shown[i], list) < Position(shown[j], list)
    <2>1. Before(<<Position(shown[i], list)>>, <<Position(shown[j], list)>>)
        BY <1>6, <1>7, <1>8, <1>9 DEF Sorted
    <2>2. Position(shown[i], list) \in Int /\ Position(shown[j], list) \in Int
        BY <1>1, <1>8
    <2> QED BY <2>1, <2>2, Before1
<1>10. Ascending(Ranks(shown, list))
    BY <1>9 DEF Ascending, Ranks
<1> QED BY <1>7, <1>10 DEF shown

\* Rows by level: none is lost.
LEMMA ByLevelIs ==
    ASSUME NEW R, NEW rows, Shows(rows, R), \A r \in R : r.level \in Int
    PROVE  /\ Shows(ByLevel(rows), R)
           /\ \A i, j \in DOMAIN ByLevel(rows) :
                  i < j => ByLevel(rows)[i].level <= ByLevel(rows)[j].level
<1> DEFINE at == DOMAIN rows
           key == [i \in at |-> <<rows[i].level, i>>]
           place == OrderBy(DOMAIN rows, LAMBDA i : <<rows[i].level, i>>)
           list == ByLevel(rows)
<1>1. /\ at = 1 .. Len(rows) /\ Len(rows) \in Nat /\ IsFiniteSet(at)
      /\ R = {rows[i] : i \in at} /\ \A i \in at : rows[i] \in R
    BY ShownBy
<1>2. \A i \in at : rows[i].level \in Int
    BY <1>1
<1>3. key \in [at -> [1 .. 2 -> Int]]
    <2>1. \A i \in at : i \in Int
        BY <1>1
    <2> QED BY <1>2, <2>1
<1>4. \A i, j \in at : key[i] = key[j] => i = j
    OBVIOUS
<1>5. KeyOf(key, at, 2)
    BY <1>3, <1>4 DEF KeyOf
<1>6. place = ByKey(at, key)
    BY DEF OrderBy
<1>7. \A i \in at : key[i] = <<rows[i].level, i>>
    OBVIOUS
<1>8. list = [i \in at |-> rows[place[i]]]
    BY DEF ByLevel
<1> HIDE DEF key, place, list, at
<1>9. Shows(place, at) /\ Sorted(place, key)
    BY <1>1, <1>5, <1>6, Arranging
<1> DEFINE n == Len(rows)
<1>10. n \in Nat /\ at = 1 .. n
    BY <1>1
<1>11. DOMAIN place = at
    <2>1. DOMAIN place = 1 .. Cardinality(at)
        BY <1>6 DEF ByKey
    <2>2. Cardinality(at) = n
        <3>1. Cardinality(1 .. n) = IF 1 > n THEN 0 ELSE n - 1 + 1
            BY <1>10, FS_Interval
        <3> HIDE DEF n
        <3>2. Cardinality(1 .. n) = n
            BY <1>10, <3>1
        <3> QED BY <1>10, <3>2
    <2> QED BY <1>10, <2>1, <2>2
<1>12. at = {place[i] : i \in at} /\ \A i \in at : place[i] \in at
    BY <1>9, <1>11, ShownBy
<1> HIDE DEF n
<1>13. Shows(list, R)
    <2>1. R = {list[i] : i \in 1 .. n}
        <3>1. \A i \in at : list[i] = rows[place[i]]
            BY <1>8
        <3>2. ASSUME NEW r \in R PROVE \E i \in at : r = list[i]
            <4>1. PICK j \in at : r = rows[j]
                BY <1>1
            <4>2. PICK i \in at : place[i] = j
                BY <1>12
            <4> QED BY <3>1, <4>1, <4>2
        <3>3. \A i \in at : list[i] \in R
            BY <1>1, <1>12, <3>1
        <3> QED BY <1>10, <3>2, <3>3
    <2>2. DOMAIN list = 1 .. n /\ list = [i \in 1 .. n |-> list[i]]
        BY <1>8, <1>10
    <2> QED BY <1>10, <2>1, <2>2, Written
<1>14. ASSUME NEW i \in at, NEW j \in at, i < j
       PROVE  list[i].level <= list[j].level
    <2> DEFINE a == rows[place[i]].level  b == place[i]
               c == rows[place[j]].level  d == place[j]
    <2>1. a \in Int /\ b \in Int /\ c \in Int /\ d \in Int
        BY <1>2, <1>10, <1>12
    <2>2. Before(key[place[i]], key[place[j]])
        <3>1. at = 1 .. Len(place)
            BY <1>9, <1>11, ShownBy
        <3> QED BY <1>9, <1>14, <3>1 DEF Sorted
    <2>3. Before(<<a, b>>, <<c, d>>)
        BY <1>7, <1>12, <2>2
    <2>4. list[i].level = a /\ list[j].level = c
        BY <1>8
    <2> HIDE DEF a, b, c, d
    <2>5. a < c \/ (a = c /\ b < d)
        BY <2>1, <2>3, Before2
    <2> QED BY <2>1, <2>4, <2>5
<1>15. DOMAIN list = at
    BY <1>8
<1> QED BY <1>13, <1>14, <1>15 DEF list

\* What ScenariosAssumption says of the tables the pages join.
LEMMA DataLinked ==
    ASSUME NEW s \in Scenarios, NEW g \in Stages
    PROVE  /\ Linked(s[g]) /\ Shipped(s[g])
           /\ IsFiniteSet(s[g].pokemon) /\ IsFiniteSet(s[g].movedetails)
           /\ IsFiniteSet(s[g].abilitydetails) /\ IsFiniteSet(s[g].movedescriptions)
<1>1. \A t \in DOMAIN Tables : s.before[t] \subseteq s.after[t] /\ IsFiniteSet(s.after[t])
    BY ScenariosAssumption
<1>2. /\ s.before.pokemon \subseteq s.after.pokemon /\ IsFiniteSet(s.after.pokemon)
      /\ s.before.movedetails \subseteq s.after.movedetails /\ IsFiniteSet(s.after.movedetails)
      /\ s.before.abilitydetails \subseteq s.after.abilitydetails
      /\ IsFiniteSet(s.after.abilitydetails)
      /\ s.before.movedescriptions \subseteq s.after.movedescriptions
      /\ IsFiniteSet(s.after.movedescriptions)
    BY <1>1 DEF Tables
<1>3. /\ IsFiniteSet(s.before.pokemon) /\ IsFiniteSet(s.before.movedetails)
      /\ IsFiniteSet(s.before.abilitydetails) /\ IsFiniteSet(s.before.movedescriptions)
    BY <1>2, FS_Subset
<1>4. \A d \in {s.before, s.after} : Linked(d) /\ Shipped(d)
    BY ScenariosAssumption
<1>5. Linked(s.before) /\ Shipped(s.before) /\ Linked(s.after) /\ Shipped(s.after)
    BY <1>4
<1> QED BY <1>2, <1>3, <1>5 DEF Stages

-----------------------------------------------------------------------------
(* The abilities of a candidate                                              *)

AbilityOf(d, a) == CHOOSE b \in d.ability : b.id = a.ability
AbilityRow(d, a) == [pokemon |-> a.pokemon, id |-> a.ability, gen |-> AbilityOf(d, a).gen,
                     hidden |-> a.hidden, removed |-> a.gen]
AbilitiesOf(d, id) == {a \in d.abilitydetails : a.pokemon = id}

\* The query answers the abilities of a Pokemon, each once.
LEMMA AbilityRowsAre ==
    ASSUME NEW d, Linked(d), IsFiniteSet(d.abilitydetails), NEW id
    PROVE  Shows(GetCandidateAbilitiesByIDs(d, {id}),
                 {AbilityRow(d, a) : a \in AbilitiesOf(d, id)})
<1> DEFINE mine == AbilitiesOf(d, id)
           R == {AbilityRow(d, a) : a \in mine}
           joined == {k \in d.abilitydetails \X d.ability :
                         k[1].pokemon \in {id} /\ k[2].id = k[1].ability}
           S == {[pokemon |-> j[1].pokemon, id |-> j[2].id, gen |-> j[2].gen,
                  hidden |-> j[1].hidden, removed |-> j[1].gen] : j \in joined}
           list == GetCandidateAbilitiesByIDs(d, {id})
           key == [r \in S |-> <<r.pokemon, IF r.hidden THEN 1 ELSE 0, r.id>>]
<1>1. ASSUME NEW a \in d.abilitydetails
      PROVE  /\ a.pokemon \in Nat /\ a.ability \in Nat /\ a.hidden \in BOOLEAN
             /\ AbilityOf(d, a) \in d.ability /\ AbilityOf(d, a).id = a.ability
             /\ \A b \in d.ability : b.id = a.ability => b = AbilityOf(d, a)
    <2>1. \E b \in d.ability : b.id = a.ability
        BY DEF Linked
    <2>2. AbilityOf(d, a) \in d.ability /\ AbilityOf(d, a).id = a.ability
        BY <2>1 DEF AbilityOf
    <2>3. \A b, c \in d.ability : b.id = c.id => b = c
        BY DEF Linked
    <2>4. a.pokemon \in Nat /\ a.ability \in Nat /\ a.hidden \in BOOLEAN
        BY DEF Linked
    <2> QED BY <2>2, <2>3, <2>4
<1>2. S = R
    <2>1. ASSUME NEW r \in S PROVE r \in R
        <3>1. PICK j \in joined : r = [pokemon |-> j[1].pokemon, id |-> j[2].id,
                  gen |-> j[2].gen, hidden |-> j[1].hidden, removed |-> j[1].gen]
            OBVIOUS
        <3>2. j[1] \in mine /\ j[2] = AbilityOf(d, j[1]) /\ j[2].id = j[1].ability
            BY <1>1 DEF AbilitiesOf
        <3>3. r = AbilityRow(d, j[1])
            BY <3>1, <3>2 DEF AbilityRow
        <3> QED BY <3>2, <3>3
    <2>2. ASSUME NEW r \in R PROVE r \in S
        <3>1. PICK a \in mine : r = AbilityRow(d, a)
            OBVIOUS
        <3> DEFINE j == <<a, AbilityOf(d, a)>>
        <3>2. j \in joined
            BY <1>1 DEF AbilitiesOf
        <3>3. r = [pokemon |-> j[1].pokemon, id |-> j[2].id,
                   gen |-> j[2].gen, hidden |-> j[1].hidden, removed |-> j[1].gen]
            BY <1>1, <3>1 DEF AbilityRow, AbilitiesOf
        <3> QED BY <3>2, <3>3
    <2> QED BY <2>1, <2>2
<1>3. list = ByKey(S, key)
    BY DEF GetCandidateAbilitiesByIDs, OrderBy
<1>4. \A r \in S : key[r] = <<r.pokemon, IF r.hidden THEN 1 ELSE 0, r.id>>
    OBVIOUS
<1>5. IsFiniteSet(S)
    <2> DEFINE f == [a \in mine |-> AbilityRow(d, a)]
    <2>1. IsFiniteSet(mine)
        BY FS_Subset DEF AbilitiesOf
    <2>2. f \in Surjection(mine, R)
        BY DEF Surjection
    <2> HIDE DEF f, mine, R, S
    <2>3. IsFiniteSet(R)
        BY <2>1, <2>2, FS_Surjection
    <2> QED BY <1>2, <2>3
<1>6. ASSUME NEW r \in S
      PROVE  \E a \in mine : r.pokemon = a.pokemon /\ r.id = a.ability /\ r.hidden = a.hidden
                 /\ r = AbilityRow(d, a)
    <2>1. PICK a \in mine : r = AbilityRow(d, a)
        BY <1>2
    <2> QED BY <2>1 DEF AbilityRow
<1>7. key \in [S -> [1 .. 3 -> Int]]
    <2>1. \A r \in S : r.pokemon \in Int /\ r.id \in Int
        BY <1>1, <1>6 DEF AbilitiesOf
    <2> HIDE DEF S
    <2> QED BY <2>1
<1>8. ASSUME NEW r \in S, NEW s \in S, key[r] = key[s]
      PROVE  r = s
    <2>1. PICK a \in mine : r.pokemon = a.pokemon /\ r.id = a.ability /\ r.hidden = a.hidden
                 /\ r = AbilityRow(d, a)
        BY <1>6
    <2>2. PICK b \in mine : s.pokemon = b.pokemon /\ s.id = b.ability /\ s.hidden = b.hidden
                 /\ s = AbilityRow(d, b)
        BY <1>6
    <2>3. /\ r.pokemon = s.pokemon /\ r.id = s.id
          /\ (IF r.hidden THEN 1 ELSE 0) = (IF s.hidden THEN 1 ELSE 0)
        BY <1>8
    <2>4. a.hidden \in BOOLEAN /\ b.hidden \in BOOLEAN
        BY <1>1 DEF AbilitiesOf
    <2>5. a.hidden = b.hidden
        BY <2>1, <2>2, <2>3, <2>4
    <2>6. a = b
        BY <2>1, <2>2, <2>3, <2>5 DEF Linked, AbilitiesOf
    <2> QED BY <2>1, <2>2, <2>6
<1> HIDE DEF key, list, S, R
<1>9. KeyOf(key, S, 3)
    BY <1>7, <1>8 DEF KeyOf
<1>10. Shows(list, S)
    BY <1>3, <1>5, <1>9, Arranging
<1> QED BY <1>2, <1>10 DEF list, R

\* A removed ability is there up to its removal, and never with what replaced it.
LEMMA AbilitiesAre ==
    ASSUME NEW d, Linked(d), Shipped(d), IsFiniteSet(d.abilitydetails), NEW id, NEW gen,
           NEW a \in AbilitiesOf(d, id), a.gen # Null
    PROVE  LET shown == AbilitiesIn(id, GetCandidateAbilitiesByIDs(d, {id}), gen)
           IN /\ a.ability \in shown <=> gen <= a.gen
              /\ a.ability \in shown =>
                     \A b \in AbilitiesOf(d, id) :
                         b.gen = Null /\ ((a.hidden /\ b.hidden) \/ (a.ability = 48 /\ b.ability = 274))
                             => b.ability \notin shown
<1> DEFINE rows == GetCandidateAbilitiesByIDs(d, {id})
           mine == AbilitiesOf(d, id)
           R == {AbilityRow(d, b) : b \in mine}
           removed == {i \in DOMAIN rows : rows[i].removed # Null}
           first == CHOOSE i \in removed : \A j \in removed : i <= j
           shown == AbilitiesIn(id, rows, gen)
<1>1. /\ a.hidden \in BOOLEAN
      /\ \/ a.hidden /\ a.ability # 48
         \/ ~a.hidden /\ a.pokemon = 94 /\ a.ability = 26
         \/ ~a.hidden /\ a.pokemon = 275 /\ a.ability = 48
    <2>1. a \in {r \in d.abilitydetails : r.gen # Null}
        BY DEF AbilitiesOf
    <2>2. a.hidden \in BOOLEAN
        BY <2>1 DEF Linked
    <2>3. \/ a.hidden /\ a.ability # 48
          \/ ~a.hidden /\ <<a.pokemon, a.ability>> \in {<<94, 26>>, <<275, 48>>}
        BY <2>1 DEF Shipped
    <2> QED BY <2>2, <2>3
<1>2. \A b \in mine : b # a =>
          b.gen = Null /\ \A c \in mine : c.ability = b.ability => c = b
    <2>1. a \in {r \in d.abilitydetails : r.gen # Null}
        BY DEF AbilitiesOf
    <2>2. \A b \in d.abilitydetails : b.pokemon = a.pokemon /\ b # a =>
              /\ b.gen = Null
              /\ \A c \in d.abilitydetails :
                     c.pokemon = a.pokemon /\ c.ability = b.ability => c = b
        BY <2>1 DEF Shipped
    <2> QED BY <2>2 DEF AbilitiesOf
<1>3. a.pokemon = id
    BY DEF AbilitiesOf
<1>4. \A b \in mine : LET r == AbilityRow(d, b)
                      IN r.id = b.ability /\ r.hidden = b.hidden /\ r.removed = b.gen
    BY DEF AbilityRow
<1>5. /\ {rows[i] : i \in DOMAIN rows} = R
      /\ DOMAIN rows \in SUBSET Nat
      /\ \A i \in DOMAIN rows : rows[i] \in R
    <2> HIDE DEF rows, R
    <2>1. Shows(rows, R)
        BY AbilityRowsAre DEF rows, R
    <2>2. DOMAIN rows = 1 .. Len(rows) /\ Len(rows) \in Nat
        BY <2>1, ShownBy
    <2> QED BY <2>1, <2>2, ShownBy
<1> HIDE DEF rows, mine
<1>6. \A i \in removed : rows[i] = AbilityRow(d, a)
    <2>1. ASSUME NEW i \in removed PROVE rows[i] = AbilityRow(d, a)
        <3>1. PICK b \in mine : rows[i] = AbilityRow(d, b)
            BY <1>5
        <3>2. b.gen # Null
            BY <1>4, <3>1
        <3> QED BY <1>2, <3>1, <3>2
    <2> QED BY <2>1
<1>7. a \in mine
    BY DEF mine
<1>8. removed # {}
    <2>1. AbilityRow(d, a) \in R
        BY <1>7
    <2>2. PICK i \in DOMAIN rows : rows[i] = AbilityRow(d, a)
        BY <1>5, <2>1
    <2>3. i \in removed
        BY <1>4, <1>7, <2>2
    <2> QED BY <2>3
<1>9. first \in removed
    <2>1. removed \in SUBSET Nat
        BY <1>5
    <2> HIDE DEF removed
    <2>2. \E i \in removed : \A j \in removed : i <= j
        BY <1>8, <2>1, Smallest
    <2> QED BY <2>2
<1>10. rows[first] = AbilityRow(d, a)
    BY <1>6, <1>9
<1> DEFINE still == gen <= a.gen
           all == {rows[i] : i \in DOMAIN rows}
<1>11. shown = IF ~still
               THEN {r.id : r \in {s \in all : s.gen <= gen /\ s.removed = Null}}
               ELSE IF \E i \in removed : rows[i].hidden
               THEN {r.id : r \in {s \in all : ~(s.removed = Null /\ s.hidden)}}
               ELSE CASE id = 94 -> {26}
                      [] id = 275 -> {r.id : r \in {s \in all : s.id # 274}}
                      [] OTHER -> {}
    <2>1. StillThere(rows[first], gen) <=> still
        BY <1>4, <1>7, <1>10 DEF StillThere
    <2>2. shown = IF removed = {} \/ ~StillThere(rows[first], gen)
               THEN {r.id : r \in {s \in all : s.gen <= gen /\ s.removed = Null}}
               ELSE IF \E i \in removed : rows[i].hidden
               THEN {r.id : r \in {s \in all : ~(s.removed = Null /\ s.hidden)}}
               ELSE CASE id = 94 -> {26}
                      [] id = 275 -> {r.id : r \in {s \in all : s.id # 274}}
                      [] OTHER -> {}
        BY DEF AbilitiesIn
    <2> HIDE DEF first, removed, shown, all, still
    <2> QED BY <1>8, <2>1, <2>2
<1>12. all = R /\ ((\E i \in removed : rows[i].hidden) <=> a.hidden)
    BY <1>4, <1>5, <1>6, <1>7, <1>8
<1> HIDE DEF first, removed, shown, all, still
<1> DEFINE replacing(b) == b.gen = Null /\ ((a.hidden /\ b.hidden)
                                            \/ (a.ability = 48 /\ b.ability = 274))
<1>13. CASE ~still
    <2>1. shown = {r.id : r \in {s \in R : s.gen <= gen /\ s.removed = Null}}
        BY <1>11, <1>12, <1>13
    <2>2. ASSUME a.ability \in shown PROVE FALSE
        <3>1. PICK r \in R : r.removed = Null /\ r.id = a.ability
            BY <2>1, <2>2
        <3>2. PICK b \in mine : r = AbilityRow(d, b)
            OBVIOUS
        <3>3. b.gen = Null /\ b.ability = a.ability
            BY <1>4, <3>1, <3>2
        <3> QED BY <1>2, <1>7, <3>3
    <2> QED BY <1>13, <2>2 DEF still, shown, rows
<1>14. CASE still /\ a.hidden
    <2>1. shown = {r.id : r \in {s \in R : ~(s.removed = Null /\ s.hidden)}}
        BY <1>11, <1>12, <1>14
    <2>2. a.ability \in shown
        <3>1. AbilityRow(d, a) \in {s \in R : ~(s.removed = Null /\ s.hidden)}
            BY <1>4, <1>7
        <3> QED BY <1>4, <1>7, <2>1, <3>1
    <2>3. ASSUME NEW b \in mine, replacing(b), b.ability \in shown PROVE FALSE
        <3>1. PICK r \in R : ~(r.removed = Null /\ r.hidden) /\ r.id = b.ability
            BY <2>1, <2>3
        <3>2. PICK c \in mine : r = AbilityRow(d, c)
            OBVIOUS
        <3>3. c.ability = b.ability /\ ~(c.gen = Null /\ c.hidden)
            BY <1>4, <3>1, <3>2
        <3>4. b # a /\ b.hidden
            BY <1>1, <1>14, <2>3
        <3> QED BY <1>2, <2>3, <3>3, <3>4
    <2> QED BY <1>14, <2>2, <2>3 DEF still, shown, rows, mine
<1>15. CASE still /\ ~a.hidden /\ a.pokemon = 94 /\ a.ability = 26
    <2>1. shown = {26}
        BY <1>3, <1>11, <1>12, <1>15
    <2> QED BY <1>15, <2>1 DEF still, shown, rows
<1>16. CASE still /\ ~a.hidden /\ a.pokemon = 275 /\ a.ability = 48
    <2>1. shown = {r.id : r \in {s \in R : s.id # 274}}
        <3>1. shown = {r.id : r \in {s \in all : s.id # 274}}
            BY <1>3, <1>11, <1>12, <1>16
        <3> QED BY <1>12, <3>1
    <2>2. 274 \notin shown
        BY <2>1
    <2>3. a.ability \in shown
        <3>1. AbilityRow(d, a) \in {s \in R : s.id # 274}
            BY <1>4, <1>7, <1>16
        <3> QED BY <1>4, <1>7, <2>1, <3>1
    <2> QED BY <1>16, <2>2, <2>3 DEF still, shown, rows
<1> QED BY <1>1, <1>13, <1>14, <1>15, <1>16

-----------------------------------------------------------------------------
(* The moves of a Pokemon                                                    *)

\* What a learnset row is joined with.
MoveOf(d, m) == CHOOSE v \in d.move : v.id = m.move
PastOf(d, m) == One(PastValues(d, m))
LegendsOf(d, m) == One(LegendsValues(d, m))
Joined(d, m) == <<m, MoveOf(d, m), PastOf(d, m), LegendsOf(d, m)>>
LearntBy(d, ids) == {m \in d.movedetails : m.pokemon \in ids}

\* The power and PP of a move in a game: of the Legends games, or else past ones.
PowerOf(d, m) == IF LegendsOf(d, m).pokemon # Null THEN LegendsOf(d, m).power
                 ELSE Coalesce(PastOf(d, m).power, MoveOf(d, m).power)
PPOf(d, m) == IF LegendsOf(d, m).pokemon # Null THEN LegendsOf(d, m).pp
              ELSE Coalesce(PastOf(d, m).pp, MoveOf(d, m).pp)
CooldownOf(d, m) == LegendsOf(d, m).cooldown
MoveRow(d, m) ==
    [pokemon |-> m.pokemon, move |-> m.move, method |-> m.method, level |-> m.level,
     version |-> m.version, power |-> PowerOf(d, m), pp |-> PPOf(d, m),
     cooldown |-> CooldownOf(d, m)]

\* A move has one past value in a game, or none.
LEMMA OnePast ==
    ASSUME NEW d, Shipped(d), NEW m
    PROVE  PastValues(d, m) = {PastOf(d, m)}
           /\ PastOf(d, m) \in d.pastmovevalues \cup {NoPastValues}
<1> DEFINE past == {v \in d.pastmovevalues : v.move = m.move /\ m.version \in v.versions}
<1>1. \A u, v \in past : u = v
    <2> SUFFICES ASSUME NEW u \in past, NEW v \in past PROVE u = v
        OBVIOUS
    <2>1. u.versions \cap v.versions # {} /\ u.move = v.move
        OBVIOUS
    <2> QED BY <2>1 DEF Shipped
<1>2. PastValues(d, m) = IF past = {} THEN {NoPastValues} ELSE past
    BY DEF PastValues, OrElse
<1>3. past \subseteq d.pastmovevalues
    OBVIOUS
<1> HIDE DEF past
<1> QED BY <1>1, <1>2, <1>3 DEF PastOf, One

\* A Pokemon's move has one value in a Legends game, or none.
LEMMA OneLegends ==
    ASSUME NEW d, Linked(d), NEW m
    PROVE  LegendsValues(d, m) = {LegendsOf(d, m)}
           /\ LegendsOf(d, m) \in d.legendsmovevalues \cup {NoLegendsValues}
<1> DEFINE values == {v \in d.legendsmovevalues :
               v.pokemon = m.pokemon /\ v.move = m.move /\ v.version = m.version}
<1>1. \A u, v \in values : u = v
    BY DEF Linked
<1>2. LegendsValues(d, m) = IF values = {} THEN {NoLegendsValues} ELSE values
    BY DEF LegendsValues, OrElse
<1>3. values \subseteq d.legendsmovevalues
    OBVIOUS
<1> HIDE DEF values
<1> QED BY <1>1, <1>2, <1>3 DEF LegendsOf, One

\* A learnset row names one move.
LEMMA OneMove ==
    ASSUME NEW d, Linked(d), NEW m \in d.movedetails
    PROVE  /\ MoveOf(d, m) \in d.move /\ MoveOf(d, m).id = m.move
           /\ \A v \in d.move : v.id = m.move => v = MoveOf(d, m)
<1>1. \E v \in d.move : v.id = m.move
    BY DEF Linked
<1>2. MoveOf(d, m) \in d.move /\ MoveOf(d, m).id = m.move
    BY <1>1 DEF MoveOf
<1>3. \A v, w \in d.move : v.id = w.id => v = w
    BY DEF Linked
<1> QED BY <1>2, <1>3

\* Each learnset row is joined with one row of each table.
LEMMA JoinedAre ==
    ASSUME NEW d, Linked(d), Shipped(d), NEW ids
    PROVE  LearntMoves(d, ids) = {Joined(d, m) : m \in LearntBy(d, ids)}
<1>1. ASSUME NEW j \in LearntMoves(d, ids)
      PROVE  j \in {Joined(d, m) : m \in LearntBy(d, ids)}
    <2>1. /\ j \in d.movedetails \X d.move \X (d.pastmovevalues \cup {NoPastValues})
                     \X (d.legendsmovevalues \cup {NoLegendsValues})
          /\ j[1].pokemon \in ids /\ j[2].id = j[1].move
          /\ j[3] \in PastValues(d, j[1]) /\ j[4] \in LegendsValues(d, j[1])
        BY DEF LearntMoves
    <2>2. j = <<j[1], j[2], j[3], j[4]>> /\ j[1] \in d.movedetails /\ j[2] \in d.move
        BY <2>1
    <2>3. j[2] = MoveOf(d, j[1])
        BY <2>1, <2>2, OneMove
    <2>4. j[3] = PastOf(d, j[1])
        BY <2>1, OnePast
    <2>5. j[4] = LegendsOf(d, j[1])
        BY <2>1, OneLegends
    <2>6. j = Joined(d, j[1])
        BY <2>2, <2>3, <2>4, <2>5 DEF Joined
    <2>7. j[1] \in LearntBy(d, ids)
        BY <2>1, <2>2 DEF LearntBy
    <2> QED BY <2>6, <2>7
<1>2. ASSUME NEW m \in LearntBy(d, ids)
      PROVE  Joined(d, m) \in LearntMoves(d, ids)
    <2>1. m \in d.movedetails /\ m.pokemon \in ids
        BY DEF LearntBy
    <2> DEFINE a == MoveOf(d, m) b == PastOf(d, m) c == LegendsOf(d, m)
    <2>2. a \in d.move /\ a.id = m.move
        BY <2>1, OneMove
    <2>3. b \in PastValues(d, m) /\ b \in d.pastmovevalues \cup {NoPastValues}
        BY OnePast
    <2>4. c \in LegendsValues(d, m) /\ c \in d.legendsmovevalues \cup {NoLegendsValues}
        BY OneLegends
    <2> HIDE DEF a, b, c
    <2>5. <<m, a, b, c>> \in LearntMoves(d, ids)
        BY <2>1, <2>2, <2>3, <2>4 DEF LearntMoves
    <2> QED BY <2>5 DEF Joined, a, b, c
<1> QED BY <1>1, <1>2

\* The moves of some Pokemon, each row of their learnsets once.
LEMMA MoveRowsAre ==
    ASSUME NEW d, Keyed(d), Linked(d), Shipped(d), IsFiniteSet(d.movedetails), NEW ids
    PROVE  Shows(GetPokemonMovesByIDs(d, ids), {MoveRow(d, m) : m \in LearntBy(d, ids)})
<1> DEFINE R == {MoveRow(d, m) : m \in LearntBy(d, ids)}
           row(j) == [pokemon |-> j[1].pokemon, move |-> j[1].move,
                  method |-> j[1].method, level |-> j[1].level,
                  version |-> j[1].version,
                  power |-> IF j[4].pokemon # Null THEN j[4].power
                            ELSE Coalesce(j[3].power, j[2].power),
                  pp |-> IF j[4].pokemon # Null THEN j[4].pp
                         ELSE Coalesce(j[3].pp, j[2].pp),
                  cooldown |-> j[4].cooldown]
           rows == {row(j) : j \in LearntMoves(d, ids)}
           keyOf(r) == <<r.pokemon, Position(r.version, VersionGroupOrder),
                         Position(r.method, MethodColumnOrder), r.level, r.move>>
           key == [r \in rows |-> keyOf(r)]
           list == GetPokemonMovesByIDs(d, ids)
<1>1. \A m \in LearntBy(d, ids) : row(Joined(d, m)) = MoveRow(d, m)
    BY DEF Joined, MoveRow, PowerOf, PPOf, CooldownOf
<1>2. list = ByKey(rows, key)
    BY DEF GetPokemonMovesByIDs, OrderBy
<1> HIDE DEF row
<1>3. rows = R
    <2> DEFINE L == LearntMoves(d, ids)
               M == LearntBy(d, ids)
    <2>1. L = {Joined(d, m) : m \in M}
        BY JoinedAre
    <2> HIDE DEF L, M
    <2>2. {row(j) : j \in L} = {row(Joined(d, m)) : m \in M}
        BY <2>1
    <2>3. {row(Joined(d, m)) : m \in M} = {MoveRow(d, m) : m \in M}
        BY <1>1 DEF M
    <2> QED BY <2>2, <2>3 DEF L, M
<1>4. IsFiniteSet(R)
    <2> DEFINE mine == LearntBy(d, ids)
               f == [m \in mine |-> MoveRow(d, m)]
    <2>1. IsFiniteSet(mine)
        BY FS_Subset DEF LearntBy
    <2>2. f \in Surjection(mine, R)
        BY DEF Surjection
    <2> HIDE DEF f, mine, R
    <2> QED BY <2>1, <2>2, FS_Surjection
<1>5. \A r \in rows : key[r] = keyOf(r)
    OBVIOUS
<1> HIDE DEF list, key, rows
<1>6. ASSUME NEW m \in LearntBy(d, ids)
      PROVE  /\ m.pokemon \in Nat /\ m.level \in Nat /\ m.move \in Nat
             /\ Position(m.version, VersionGroupOrder) \in Nat
             /\ VersionGroupOrder[Position(m.version, VersionGroupOrder)] = m.version
             /\ Position(m.method, MethodColumnOrder) \in Nat
             /\ MethodColumnOrder[Position(m.method, MethodColumnOrder)] = m.method
    <2>1. m \in d.movedetails
        BY DEF LearntBy
    <2>2. /\ m.level \in Nat /\ m.move \in Nat
          /\ Enumerates(VersionGroupOrder, m.version)
          /\ Enumerates(MethodColumnOrder, m.method)
          /\ \E p \in d.pokemon : p.id = m.pokemon
        BY <2>1 DEF Linked
    <2>3. m.pokemon \in Nat
        BY <2>2 DEF Keyed
    <2> QED BY <2>2, <2>3, Positioned, Enumerations
<1>7. key \in [rows -> [1 .. 5 -> Int]]
    <2>1. ASSUME NEW r \in rows PROVE keyOf(r) \in [1 .. 5 -> Int]
        <3>1. PICK m \in LearntBy(d, ids) : r = MoveRow(d, m)
            BY <1>3
        <3>2. r.pokemon = m.pokemon /\ r.version = m.version /\ r.method = m.method
              /\ r.level = m.level /\ r.move = m.move
            BY <3>1 DEF MoveRow
        <3> DEFINE a == Position(r.version, VersionGroupOrder)
                   b == Position(r.method, MethodColumnOrder)
        <3>3. r.pokemon \in Int /\ a \in Int /\ b \in Int /\ r.level \in Int /\ r.move \in Int
            BY <1>6, <3>2
        <3> HIDE DEF a, b
        <3>4. <<r.pokemon, a, b, r.level, r.move>> \in [1 .. 5 -> Int]
            BY <3>3
        <3> QED BY <3>4 DEF a, b
    <2> HIDE DEF keyOf
    <2> QED BY <2>1 DEF key
<1>8. ASSUME NEW r \in rows, NEW s \in rows, key[r] = key[s]
      PROVE  r = s
    <2>1. PICK m \in LearntBy(d, ids) : r = MoveRow(d, m)
        BY <1>3
    <2>2. PICK n \in LearntBy(d, ids) : s = MoveRow(d, n)
        BY <1>3
    <2>3. /\ r.pokemon = m.pokemon /\ r.version = m.version /\ r.method = m.method
          /\ r.level = m.level /\ r.move = m.move
          /\ s.pokemon = n.pokemon /\ s.version = n.version /\ s.method = n.method
          /\ s.level = n.level /\ s.move = n.move
        BY <2>1, <2>2 DEF MoveRow
    <2>4. keyOf(r) = keyOf(s)
        BY <1>5, <1>8
    <2>5. /\ r.pokemon = s.pokemon /\ r.level = s.level /\ r.move = s.move
          /\ Position(r.version, VersionGroupOrder) = Position(s.version, VersionGroupOrder)
          /\ Position(r.method, MethodColumnOrder) = Position(s.method, MethodColumnOrder)
        BY <2>4
    <2>6. r.version = s.version /\ r.method = s.method
        BY <1>6, <2>3, <2>5
    <2>7. /\ m.pokemon = n.pokemon /\ m.version = n.version /\ m.method = n.method
          /\ m.level = n.level /\ m.move = n.move
        BY <2>3, <2>5, <2>6
    <2>8. /\ MoveOf(d, m) = MoveOf(d, n) /\ PastOf(d, m) = PastOf(d, n)
          /\ LegendsOf(d, m) = LegendsOf(d, n)
        BY <2>7 DEF MoveOf, PastOf, PastValues, LegendsOf, LegendsValues
    <2> QED BY <2>1, <2>2, <2>7, <2>8 DEF MoveRow, PowerOf, PPOf, CooldownOf
<1>9. KeyOf(key, rows, 5)
    BY <1>7, <1>8 DEF KeyOf
<1> HIDE DEF R
<1>10. Shows(list, rows)
    BY <1>2, <1>3, <1>4, <1>9, Arranging
<1> QED BY <1>3, <1>10 DEF list, R

\* A candidate's moves in a game, with the same values as on its page.
LEMMA CandidateMovesAre ==
    ASSUME NEW d, Linked(d), Shipped(d), NEW ids, NEW version
    PROVE  GetCandidateMovesByIDsAndVersion(d, ids, version) =
               {[pokemon |-> m.pokemon, move |-> m.move, power |-> PowerOf(d, m),
                 pp |-> PPOf(d, m), cooldown |-> CooldownOf(d, m)] :
                m \in {n \in LearntBy(d, ids) : n.version = version}}
<1> DEFINE row(j) == [pokemon |-> j[1].pokemon, move |-> j[2].id,
                      power |-> IF j[4].pokemon # Null THEN j[4].power
                                ELSE Coalesce(j[3].power, j[2].power),
                      pp |-> IF j[4].pokemon # Null THEN j[4].pp
                             ELSE Coalesce(j[3].pp, j[2].pp),
                      cooldown |-> j[4].cooldown]
           entry(m) == [pokemon |-> m.pokemon, move |-> m.move, power |-> PowerOf(d, m),
                        pp |-> PPOf(d, m), cooldown |-> CooldownOf(d, m)]
           L == LearntMoves(d, ids)
           M == LearntBy(d, ids)
<1>1. \A m \in M : row(Joined(d, m)) = entry(m) /\ Joined(d, m)[1] = m
    <2>1. \A m \in M : MoveOf(d, m).id = m.move
        BY OneMove DEF LearntBy
    <2> QED BY <2>1 DEF Joined, PowerOf, PPOf, CooldownOf
<1>2. L = {Joined(d, m) : m \in M}
    BY JoinedAre
<1>3. GetCandidateMovesByIDsAndVersion(d, ids, version) = {row(j) : j \in {k \in L : k[1].version = version}}
    BY DEF GetCandidateMovesByIDsAndVersion
<1> HIDE DEF row, entry, L, M
<1>4. {row(j) : j \in {k \in L : k[1].version = version}} =
          {entry(m) : m \in {n \in M : n.version = version}}
    <2>1. ASSUME NEW x \in {row(j) : j \in {k \in L : k[1].version = version}}
          PROVE  x \in {entry(m) : m \in {n \in M : n.version = version}}
        BY <1>1, <1>2, <2>1
    <2>2. ASSUME NEW x \in {entry(m) : m \in {n \in M : n.version = version}}
          PROVE  x \in {row(j) : j \in {k \in L : k[1].version = version}}
        BY <1>1, <1>2, <2>2
    <2> QED BY <2>1, <2>2
<1> QED BY <1>3, <1>4 DEF entry, M

\* Where no two rows have one move, there is nothing to choose.
LEMMA AllOfEachMove ==
    ASSUME NEW rows, \A r, s \in rows : r.move = s.move => r = s,
           NEW some \in OneOfEachMove(rows)
    PROVE  some = rows
<1>1. /\ some \in SUBSET rows
      /\ \A r \in rows : Cardinality({s \in some : s.move = r.move}) = 1
    BY DEF OneOfEachMove
<1>2. ASSUME NEW r \in rows PROVE r \in some
    <2>1. {s \in some : s.move = r.move} # {}
        BY <1>1, FS_EmptySet
    <2> QED BY <1>1, <2>1
<1> QED BY <1>1, <1>2

-----------------------------------------------------------------------------
(* Groups of rows                                                            *)

GroupBy(rows, values, field) ==
    [g \in DOMAIN values |->
        [of |-> values[g],
         rows |-> Kept(rows, {i \in DOMAIN rows : field[rows[i]] = values[g]})]]
Values(rows, field, list) == InOrder({field[rows[i]] : i \in DOMAIN rows}, list)

\* Rows split by a field: each group shows those of its value, no row is lost,
\* and the groups are in the order of an enumeration.
Split(groups, R, field, list) ==
    /\ \A g \in DOMAIN groups : Shows(groups[g].rows, {r \in R : field[r] = groups[g].of})
    /\ \A r \in R : \E g \in DOMAIN groups : groups[g].of = field[r]
    /\ Ascending(Ranks([g \in DOMAIN groups |-> groups[g].of], list))

\* Rows grouped by a field, in the order of an enumeration.
LEMMA GroupedBy ==
    ASSUME NEW R, NEW rows, Shows(rows, R), NEW field,
           NEW list, NEW n \in Nat, DOMAIN list = 1 .. n,
           \A r \in R : Enumerates(list, field[r])
    PROVE  Split(GroupBy(rows, Values(rows, field, list), field), R, field, list)
<1> DEFINE all == {field[rows[i]] : i \in DOMAIN rows}
           values == Values(rows, field, list)
           groups == GroupBy(rows, values, field)
<1>1. /\ IsFiniteSet(DOMAIN rows) /\ R = {rows[i] : i \in DOMAIN rows}
      /\ \A i \in DOMAIN rows : rows[i] \in R
    BY ShownBy
<1>2. IsFiniteSet(all)
    <2> DEFINE f == [i \in DOMAIN rows |-> field[rows[i]]]
    <2>1. f \in Surjection(DOMAIN rows, all)
        BY DEF Surjection
    <2> HIDE DEF f, all
    <2> QED BY <1>1, <2>1, FS_Surjection
<1>3. \A v \in all : Enumerates(list, v)
    BY <1>1
<1>4. values = InOrder(all, list)
    BY DEF Values
<1> HIDE DEF all, values
<1>5. Shows(values, all) /\ Ascending(Ranks(values, list))
    BY <1>2, <1>3, <1>4, InOrderIs
<1>6. /\ DOMAIN groups = DOMAIN values
      /\ \A g \in DOMAIN values : /\ groups[g].of = values[g]
             /\ groups[g].rows = Kept(rows, {i \in DOMAIN rows : field[rows[i]] = values[g]})
    BY DEF GroupBy
<1> HIDE DEF groups
<1>7. ASSUME NEW g \in DOMAIN groups
      PROVE  Shows(groups[g].rows, {r \in R : field[r] = groups[g].of})
    <2> DEFINE at == {i \in DOMAIN rows : field[rows[i]] = values[g]}
    <2>1. at \in SUBSET DOMAIN rows
        OBVIOUS
    <2>2. {rows[i] : i \in at} = {r \in R : field[r] = groups[g].of}
        <3>1. ASSUME NEW r \in R, field[r] = groups[g].of PROVE \E i \in at : r = rows[i]
            <4>1. PICK i \in DOMAIN rows : r = rows[i]
                BY <1>1
            <4>2. i \in at
                BY <1>6, <3>1, <4>1
            <4> QED BY <4>1, <4>2
        <3>2. ASSUME NEW i \in at PROVE rows[i] \in R /\ field[rows[i]] = groups[g].of
            BY <1>1, <1>6
        <3> HIDE DEF at
        <3> QED BY <3>1, <3>2
    <2>3. groups[g].rows = Kept(rows, at)
        BY <1>6
    <2> HIDE DEF at
    <2>4. Shows(Kept(rows, at), {rows[i] : i \in at})
        BY <2>1, KeptShown
    <2> QED BY <2>2, <2>3, <2>4
<1>8. ASSUME NEW r \in R PROVE \E g \in DOMAIN groups : groups[g].of = field[r]
    <2>1. field[r] \in all
        BY <1>1 DEF all
    <2>2. all = {values[g] : g \in DOMAIN values}
        BY <1>5, ShownBy
    <2>3. PICK g \in DOMAIN values : values[g] = field[r]
        BY <2>1, <2>2
    <2> QED BY <1>6, <2>3
<1>9. Ascending(Ranks([g \in DOMAIN groups |-> groups[g].of], list))
    <2>1. \A i, j \in DOMAIN values : i < j => Position(values[i], list) < Position(values[j], list)
        BY <1>5 DEF Ascending, Ranks
    <2>2. ASSUME NEW i \in DOMAIN groups, NEW j \in DOMAIN groups, i < j
          PROVE  Position(groups[i].of, list) < Position(groups[j].of, list)
        <3>1. Position(values[i], list) < Position(values[j], list)
            BY <1>6, <2>1, <2>2
        <3>2. groups[i].of = values[i] /\ groups[j].of = values[j]
            BY <1>6
        <3> QED BY <3>1, <3>2
    <2> QED BY <2>2 DEF Ascending, Ranks
<1>10. Split(groups, R, field, list)
    BY <1>7, <1>8, <1>9 DEF Split
<1> QED BY <1>10 DEF groups, values

VersionsOf(rows) == Groups(rows,
    InOrder(Distinct(rows, LAMBDA m : m.version), VersionGroupOrder), LAMBDA m : m.version)
MethodsOf(rows) == Groups(rows,
    InOrder(Distinct(rows, LAMBDA m : m.method), LearnMethodOrder), LAMBDA m : m.method)

\* groupMoveset splits by version group, every row in the group of its own.
LEMMA SplitByVersion ==
    ASSUME NEW R, NEW rows, Shows(rows, R),
           \A r \in R : Enumerates(VersionGroupOrder, r.version)
    PROVE  Split(VersionsOf(rows), R, [r \in R |-> r.version], VersionGroupOrder)
<1> DEFINE field == [r \in R |-> r.version]
           values == Values(rows, field, VersionGroupOrder)
<1>1. \A i \in DOMAIN rows : field[rows[i]] = rows[i].version
    BY ShownBy
<1>2. \A r \in R : Enumerates(VersionGroupOrder, field[r])
    OBVIOUS
<1> HIDE DEF field, values
<1>3. values = InOrder({rows[i].version : i \in DOMAIN rows}, VersionGroupOrder)
    <2>1. {field[rows[i]] : i \in DOMAIN rows} = {rows[i].version : i \in DOMAIN rows}
        BY <1>1
    <2> QED BY <2>1, Zenon DEF values, Values
<1>4. VersionsOf(rows) = [g \in DOMAIN values |->
        [of |-> values[g],
         rows |-> Kept(rows, {i \in DOMAIN rows : rows[i].version = values[g]})]]
    BY <1>3 DEF VersionsOf, Groups, Distinct
<1>5. \A g : {i \in DOMAIN rows : rows[i].version = values[g]} =
                 {i \in DOMAIN rows : field[rows[i]] = values[g]}
    BY <1>1
<1>6. VersionsOf(rows) = GroupBy(rows, values, field)
    BY <1>4, <1>5 DEF GroupBy
<1>7. Split(GroupBy(rows, values, field), R, field, VersionGroupOrder)
    <2>1. DOMAIN VersionGroupOrder = 1 .. 23 /\ 23 \in Nat
        BY Enumerations
    <2> QED BY <1>2, <2>1, GroupedBy DEF values
<1> QED BY <1>6, <1>7 DEF field

\* groupMoveset and groupPokemonLearnable split by learn method.
LEMMA SplitByMethod ==
    ASSUME NEW R, NEW rows, Shows(rows, R),
           \A r \in R : Enumerates(MethodColumnOrder, r.method)
    PROVE  Split(MethodsOf(rows), R, [r \in R |-> r.method], LearnMethodOrder)
<1> DEFINE field == [r \in R |-> r.method]
           values == Values(rows, field, LearnMethodOrder)
<1>1. \A i \in DOMAIN rows : field[rows[i]] = rows[i].method
    BY ShownBy
<1>2. \A r \in R : Enumerates(LearnMethodOrder, field[r])
    BY Enumerations
<1> HIDE DEF field, values
<1>3. values = InOrder({rows[i].method : i \in DOMAIN rows}, LearnMethodOrder)
    <2>1. {field[rows[i]] : i \in DOMAIN rows} = {rows[i].method : i \in DOMAIN rows}
        BY <1>1
    <2> QED BY <2>1, Zenon DEF values, Values
<1>4. MethodsOf(rows) = [g \in DOMAIN values |->
        [of |-> values[g],
         rows |-> Kept(rows, {i \in DOMAIN rows : rows[i].method = values[g]})]]
    BY <1>3 DEF MethodsOf, Groups, Distinct
<1>5. \A g : {i \in DOMAIN rows : rows[i].method = values[g]} =
                 {i \in DOMAIN rows : field[rows[i]] = values[g]}
    BY <1>1
<1>6. MethodsOf(rows) = GroupBy(rows, values, field)
    BY <1>4, <1>5 DEF GroupBy
<1>7. Split(GroupBy(rows, values, field), R, field, LearnMethodOrder)
    <2>1. DOMAIN LearnMethodOrder = 1 .. 7 /\ 7 \in Nat
        BY Enumerations
    <2> QED BY <1>2, <2>1, GroupedBy DEF values
<1> QED BY <1>6, <1>7 DEF field

\* Movesets that hold the rows R: each under its game and its method, in order.
Movesets(sets, R) ==
    /\ Ascending(Ranks([v \in DOMAIN sets |-> sets[v].version], VersionGroupOrder))
    /\ \A v \in DOMAIN sets :
           Ascending(Ranks([m \in DOMAIN sets[v].methods |-> sets[v].methods[m].of],
                           LearnMethodOrder))
    /\ \A v \in DOMAIN sets : \A m \in DOMAIN sets[v].methods :
           /\ Shows(sets[v].methods[m].rows,
                    {r \in R : r.version = sets[v].version /\ r.method = sets[v].methods[m].of})
           /\ \A i, j \in DOMAIN sets[v].methods[m].rows : i < j =>
                  sets[v].methods[m].rows[i].level <= sets[v].methods[m].rows[j].level
    /\ \A r \in R : \E v \in DOMAIN sets : \E m \in DOMAIN sets[v].methods :
           sets[v].version = r.version /\ sets[v].methods[m].of = r.method

\* groupMoveset loses no row of a Pokemon's moves and orders them.
LEMMA MovesetsAre ==
    ASSUME NEW R, NEW moves, Shows(moves, R),
           \A r \in R : /\ Enumerates(VersionGroupOrder, r.version)
                        /\ Enumerates(MethodColumnOrder, r.method) /\ r.level \in Int
    PROVE  Movesets(groupMoveset(moves), R)
<1> DEFINE versions == VersionsOf(moves)
           sets == groupMoveset(moves)
           of(v) == {r \in R : r.version = versions[v].of}
           methods(v) == MethodsOf(versions[v].rows)
<1>1. /\ DOMAIN sets = DOMAIN versions
      /\ \A v \in DOMAIN versions :
             /\ sets[v].version = versions[v].of
             /\ DOMAIN sets[v].methods = DOMAIN methods(v)
             /\ \A m \in DOMAIN methods(v) :
                    sets[v].methods[m] = [methods(v)[m] EXCEPT !.rows = ByLevel(@)]
    <2>1. sets = [v \in DOMAIN versions |->
              [version |-> versions[v].of,
               methods |-> [m \in DOMAIN methods(v) |-> [methods(v)[m] EXCEPT !.rows = ByLevel(@)]]]]
        BY DEF groupMoveset, VersionsOf, MethodsOf
    <2> HIDE DEF sets, versions, methods
    <2> QED BY <2>1
<1>2. Split(versions, R, [r \in R |-> r.version], VersionGroupOrder)
    BY SplitByVersion
<1>3. /\ \A v \in DOMAIN versions : Shows(versions[v].rows, of(v))
      /\ \A r \in R : \E v \in DOMAIN versions : versions[v].of = r.version
      /\ Ascending(Ranks([v \in DOMAIN versions |-> versions[v].of], VersionGroupOrder))
    <2> HIDE DEF versions
    <2>1. \A r \in R : [s \in R |-> s.version][r] = r.version
        OBVIOUS
    <2>2. ASSUME NEW v \in DOMAIN versions PROVE Shows(versions[v].rows, of(v))
        <3>1. {r \in R : [s \in R |-> s.version][r] = versions[v].of} = of(v)
            OBVIOUS
        <3>2. Shows(versions[v].rows, {r \in R : [s \in R |-> s.version][r] = versions[v].of})
            BY <1>2 DEF Split
        <3> HIDE DEF of
        <3> QED BY <3>1, <3>2, Zenon
    <2> QED BY <1>2, <2>1, <2>2 DEF Split
<1> HIDE DEF versions, sets
<1>4. ASSUME NEW v \in DOMAIN versions
      PROVE  /\ \A m \in DOMAIN methods(v) :
                    Shows(methods(v)[m].rows, {r \in of(v) : r.method = methods(v)[m].of})
             /\ \A r \in of(v) : \E m \in DOMAIN methods(v) : methods(v)[m].of = r.method
             /\ Ascending(Ranks([m \in DOMAIN methods(v) |-> methods(v)[m].of], LearnMethodOrder))
    <2> DEFINE field == [r \in of(v) |-> r.method]
    <2>1. Shows(versions[v].rows, of(v)) /\ \A r \in of(v) : Enumerates(MethodColumnOrder, r.method)
        BY <1>3
    <2>2. \A r \in of(v) : field[r] = r.method
        OBVIOUS
    <2> HIDE DEF of
    <2>3. Split(methods(v), of(v), field, LearnMethodOrder)
        BY <2>1, SplitByMethod
    <2> HIDE DEF field, methods
    <2>4. ASSUME NEW m \in DOMAIN methods(v)
          PROVE  Shows(methods(v)[m].rows, {r \in of(v) : r.method = methods(v)[m].of})
        <3>1. {r \in of(v) : field[r] = methods(v)[m].of} = {r \in of(v) : r.method = methods(v)[m].of}
            BY <2>2
        <3>2. Shows(methods(v)[m].rows, {r \in of(v) : field[r] = methods(v)[m].of})
            BY <2>3 DEF Split
        <3> QED BY <3>1, <3>2, Zenon
    <2> QED BY <2>2, <2>3, <2>4 DEF Split
<1>5. ASSUME NEW v \in DOMAIN versions, NEW m \in DOMAIN methods(v)
      PROVE  /\ sets[v].methods[m].of = methods(v)[m].of
             /\ sets[v].methods[m].rows = ByLevel(methods(v)[m].rows)
    <2> DEFINE group == methods(v)[m]
    <2>1. group = [of |-> group.of, rows |-> group.rows]
        BY DEF MethodsOf, Groups
    <2> HIDE DEF group
    <2>2. sets[v].methods[m] = [group EXCEPT !.rows = ByLevel(@)]
        BY <1>1 DEF group
    <2>3. /\ [group EXCEPT !.rows = ByLevel(@)].of = group.of
          /\ [group EXCEPT !.rows = ByLevel(@)].rows = ByLevel(group.rows)
        BY <2>1
    <2> QED BY <2>2, <2>3 DEF group
<1> HIDE DEF methods
<1>6. ASSUME NEW v \in DOMAIN sets, NEW m \in DOMAIN sets[v].methods
      PROVE  /\ Shows(sets[v].methods[m].rows,
                      {r \in R : r.version = sets[v].version /\ r.method = sets[v].methods[m].of})
             /\ \A i, j \in DOMAIN sets[v].methods[m].rows : i < j =>
                    sets[v].methods[m].rows[i].level <= sets[v].methods[m].rows[j].level
    <2> DEFINE T == {r \in of(v) : r.method = methods(v)[m].of}
               rows == methods(v)[m].rows
    <2>1. v \in DOMAIN versions /\ m \in DOMAIN methods(v)
        BY <1>1
    <2>2. Shows(rows, T) /\ \A r \in T : r.level \in Int
        BY <1>4, <2>1
    <2>3. T = {r \in R : r.version = sets[v].version /\ r.method = sets[v].methods[m].of}
        BY <1>1, <1>5, <2>1
    <2>4. sets[v].methods[m].rows = ByLevel(rows)
        BY <1>5, <2>1
    <2> HIDE DEF T, rows
    <2>5. /\ Shows(ByLevel(rows), T)
          /\ \A i, j \in DOMAIN ByLevel(rows) :
                 i < j => ByLevel(rows)[i].level <= ByLevel(rows)[j].level
        BY <2>2, ByLevelIs
    <2> QED BY <2>3, <2>4, <2>5
<1>7. Ascending(Ranks([v \in DOMAIN sets |-> sets[v].version], VersionGroupOrder))
    BY <1>1, <1>3 DEF Ascending, Ranks
<1>8. \A v \in DOMAIN sets :
          Ascending(Ranks([m \in DOMAIN sets[v].methods |-> sets[v].methods[m].of],
                          LearnMethodOrder))
    BY <1>1, <1>4, <1>5 DEF Ascending, Ranks
<1>9. ASSUME NEW r \in R
      PROVE  \E v \in DOMAIN sets : \E m \in DOMAIN sets[v].methods :
                 sets[v].version = r.version /\ sets[v].methods[m].of = r.method
    <2>1. PICK v \in DOMAIN versions : versions[v].of = r.version
        BY <1>3
    <2>2. PICK m \in DOMAIN methods(v) : methods(v)[m].of = r.method
        BY <1>4, <2>1
    <2> QED BY <1>1, <1>5, <2>1, <2>2
<1>10. Movesets(sets, R)
    BY <1>6, <1>7, <1>8, <1>9 DEF Movesets
<1> QED BY <1>10 DEF sets

\* A Pokemon's own rows of a batch.
LEMMA OwnShown ==
    ASSUME NEW R, NEW rows, Shows(rows, R), NEW id
    PROVE  Shows(Own(rows, id), {r \in R : r.pokemon = id})
<1> DEFINE at == {i \in DOMAIN rows : rows[i].pokemon = id}
<1>1. /\ R = {rows[i] : i \in DOMAIN rows}
      /\ \A i \in DOMAIN rows : rows[i] \in R
    BY ShownBy
<1>2. at \in SUBSET DOMAIN rows
    OBVIOUS
<1>3. {rows[i] : i \in at} = {r \in R : r.pokemon = id}
    <2>1. ASSUME NEW r \in R, r.pokemon = id PROVE \E i \in at : r = rows[i]
        <3>1. PICK i \in DOMAIN rows : r = rows[i]
            BY <1>1
        <3> QED BY <2>1, <3>1
    <2>2. ASSUME NEW i \in at PROVE rows[i] \in R /\ rows[i].pokemon = id
        BY <1>1
    <2> HIDE DEF at
    <2> QED BY <2>1, <2>2
<1>4. Own(rows, id) = Kept(rows, at)
    BY DEF Own
<1> HIDE DEF at
<1>5. Shows(Kept(rows, at), {rows[i] : i \in at})
    BY <1>2, KeptShown
<1> QED BY <1>3, <1>4, <1>5

\* A move of movesets is one of their rows.
LEMMA InMovesets ==
    ASSUME NEW sets, NEW R, Movesets(sets, R)
    PROVE  /\ \A v \in DOMAIN sets : \A m \in DOMAIN sets[v].methods :
                  \A i \in DOMAIN sets[v].methods[m].rows :
                      /\ sets[v].methods[m].rows[i] \in R
                      /\ sets[v].methods[m].rows[i].version = sets[v].version
                      /\ sets[v].methods[m].rows[i].method = sets[v].methods[m].of
           /\ \A r \in R : \E v \in DOMAIN sets : \E m \in DOMAIN sets[v].methods :
                  \E i \in DOMAIN sets[v].methods[m].rows :
                      sets[v].methods[m].rows[i] = r
<1> DEFINE rows(v, m) == sets[v].methods[m].rows
           T(v, m) == {r \in R : r.version = sets[v].version /\ r.method = sets[v].methods[m].of}
<1>1. ASSUME NEW v \in DOMAIN sets, NEW m \in DOMAIN sets[v].methods
      PROVE  /\ T(v, m) = {rows(v, m)[i] : i \in DOMAIN rows(v, m)}
             /\ \A i \in DOMAIN rows(v, m) : rows(v, m)[i] \in T(v, m)
    <2>1. Shows(rows(v, m), T(v, m))
        BY DEF Movesets
    <2> HIDE DEF rows, T
    <2> QED BY <2>1, ShownBy
<1>2. ASSUME NEW r \in R
      PROVE  \E v \in DOMAIN sets : \E m \in DOMAIN sets[v].methods :
                 \E i \in DOMAIN rows(v, m) : rows(v, m)[i] = r
    <2>1. PICK v \in DOMAIN sets : \E m \in DOMAIN sets[v].methods :
              sets[v].version = r.version /\ sets[v].methods[m].of = r.method
        BY DEF Movesets
    <2>2. PICK m \in DOMAIN sets[v].methods :
              sets[v].version = r.version /\ sets[v].methods[m].of = r.method
        BY <2>1
    <2>3. r \in T(v, m)
        BY <2>2
    <2> HIDE DEF T, rows
    <2>4. \E i \in DOMAIN rows(v, m) : r = rows(v, m)[i]
        BY <1>1, <2>3
    <2> QED BY <2>4
<1> QED BY <1>1, <1>2

MovesTaught(R) == {<<r.version, r.method, r.move, r.level>> : r \in R}

\* What a page with such movesets teaches are the rows.
LEMMA TaughtIs ==
    ASSUME NEW page, NEW R, Movesets(page.movesets, R)
    PROVE  Taught(page) = MovesTaught(R)
<1> DEFINE sets == page.movesets
           set(v, m) == sets[v].methods[m]
           move(v, m, i) == <<sets[v].version, set(v, m).of,
                              set(v, m).rows[i].move, set(v, m).rows[i].level>>
<1>1. \A x : x \in Taught(page) <=> \E v \in DOMAIN sets : \E m \in DOMAIN sets[v].methods :
                 \E i \in DOMAIN set(v, m).rows : x = move(v, m, i)
    <2>1. Taught(page) = UNION {UNION {{move(v, m, i) : i \in DOMAIN set(v, m).rows} :
                     m \in DOMAIN sets[v].methods} : v \in DOMAIN sets}
        BY DEF Taught
    <2> HIDE DEF sets, set, move
    <2>2. \A x : x \in UNION {UNION {{move(v, m, i) : i \in DOMAIN set(v, m).rows} :
                     m \in DOMAIN sets[v].methods} : v \in DOMAIN sets}
              <=> \E v \in DOMAIN sets : x \in UNION {{move(v, m, i) : i \in DOMAIN set(v, m).rows} :
                     m \in DOMAIN sets[v].methods}
        OBVIOUS
    <2>3. \A x : \A v \in DOMAIN sets :
              x \in UNION {{move(v, m, i) : i \in DOMAIN set(v, m).rows} : m \in DOMAIN sets[v].methods}
              <=> \E m \in DOMAIN sets[v].methods : \E i \in DOMAIN set(v, m).rows : x = move(v, m, i)
        OBVIOUS
    <2> QED BY <2>1, <2>2, <2>3
<1>2. \A v \in DOMAIN sets : \A m \in DOMAIN sets[v].methods : \A i \in DOMAIN set(v, m).rows :
          LET r == set(v, m).rows[i]
          IN r \in R /\ move(v, m, i) = <<r.version, r.method, r.move, r.level>>
    BY InMovesets
<1>3. \A r \in R : \E v \in DOMAIN sets : \E m \in DOMAIN sets[v].methods :
          \E i \in DOMAIN set(v, m).rows : set(v, m).rows[i] = r
    BY InMovesets
<1> HIDE DEF sets, set, move
<1>4. ASSUME NEW x \in Taught(page) PROVE x \in MovesTaught(R)
    BY <1>1, <1>2, <1>4 DEF MovesTaught
<1>5. ASSUME NEW x \in MovesTaught(R) PROVE x \in Taught(page)
    <2>1. PICK r \in R : x = <<r.version, r.method, r.move, r.level>>
        BY <1>5 DEF MovesTaught
    <2>2. PICK v \in DOMAIN sets : \E m \in DOMAIN sets[v].methods :
              \E i \in DOMAIN set(v, m).rows : set(v, m).rows[i] = r
        BY <1>3
    <2>3. PICK m \in DOMAIN sets[v].methods :
              \E i \in DOMAIN set(v, m).rows : set(v, m).rows[i] = r
        BY <2>2
    <2>4. PICK i \in DOMAIN set(v, m).rows : set(v, m).rows[i] = r
        BY <2>3
    <2>5. x = move(v, m, i)
        BY <1>2, <2>1, <2>4
    <2> QED BY <1>1, <2>5
<1> QED BY <1>4, <1>5

ValueOf(r) == [move |-> r.move, power |-> r.power, pp |-> r.pp, cooldown |-> r.cooldown]

\* The values a page shows in a game are those of its rows.
LEMMA PageValuesAre ==
    ASSUME NEW page, NEW R, Movesets(page.movesets, R), NEW version
    PROVE  ValuesOnPage(page, version) = {ValueOf(r) : r \in {s \in R : s.version = version}}
<1> DEFINE sets == page.movesets
           rows(v, m) == sets[v].methods[m].rows
           here == {v \in DOMAIN sets : sets[v].version = version}
           shown == ValuesOnPage(page, version)
           those == {s \in R : s.version = version}
<1>1. \A x : x \in shown <=> \E v \in here : \E m \in DOMAIN sets[v].methods :
                 \E i \in DOMAIN rows(v, m) : x = ValueOf(rows(v, m)[i])
    <2>1. shown = UNION {UNION {{ValueOf(rows(v, m)[i]) : i \in DOMAIN rows(v, m)} :
                     m \in DOMAIN sets[v].methods} : v \in here}
        BY DEF ValuesOnPage, ValueOf
    <2> HIDE DEF sets, rows, here, shown
    <2>2. \A x : x \in UNION {UNION {{ValueOf(rows(v, m)[i]) : i \in DOMAIN rows(v, m)} :
                     m \in DOMAIN sets[v].methods} : v \in here}
              <=> \E v \in here : x \in UNION {{ValueOf(rows(v, m)[i]) : i \in DOMAIN rows(v, m)} :
                     m \in DOMAIN sets[v].methods}
        OBVIOUS
    <2>3. \A x : \A v \in here :
              x \in UNION {{ValueOf(rows(v, m)[i]) : i \in DOMAIN rows(v, m)} : m \in DOMAIN sets[v].methods}
              <=> \E m \in DOMAIN sets[v].methods : \E i \in DOMAIN rows(v, m) :
                      x = ValueOf(rows(v, m)[i])
        OBVIOUS
    <2> QED BY <2>1, <2>2, <2>3
<1>2. \A v \in DOMAIN sets : \A m \in DOMAIN sets[v].methods : \A i \in DOMAIN rows(v, m) :
          rows(v, m)[i] \in R /\ rows(v, m)[i].version = sets[v].version
    BY InMovesets
<1>3. \A r \in R : \E v \in DOMAIN sets : \E m \in DOMAIN sets[v].methods :
          \E i \in DOMAIN rows(v, m) : rows(v, m)[i] = r
    BY InMovesets
<1> HIDE DEF sets, rows, shown
<1>4. ASSUME NEW x \in shown PROVE \E r \in those : x = ValueOf(r)
    BY <1>1, <1>2, <1>4
<1>5. ASSUME NEW r \in those PROVE ValueOf(r) \in shown
    <2>1. r \in R /\ r.version = version
        OBVIOUS
    <2>2. PICK v \in DOMAIN sets : \E m \in DOMAIN sets[v].methods :
              \E i \in DOMAIN rows(v, m) : rows(v, m)[i] = r
        BY <1>3, <2>1
    <2>3. PICK m \in DOMAIN sets[v].methods : \E i \in DOMAIN rows(v, m) : rows(v, m)[i] = r
        BY <2>2
    <2>4. PICK i \in DOMAIN rows(v, m) : rows(v, m)[i] = r
        BY <2>3
    <2>5. v \in here
        BY <1>2, <2>1, <2>4
    <2> QED BY <1>1, <2>4, <2>5
<1>6. shown = {ValueOf(r) : r \in those}
    <2> HIDE DEF those
    <2> QED BY <1>4, <1>5
<1> QED BY <1>6 DEF shown

\* And they are in order.
LEMMA OrderedAre ==
    ASSUME NEW page, NEW R, Movesets(page.movesets, R)
    PROVE  MovesetsOrdered(page)
BY DEF Movesets, MovesetsOrdered

\* The values of a Pokemon's moves in a game.
ValuesIn(d, id, version) ==
    {[move |-> m.move, power |-> PowerOf(d, m), pp |-> PPOf(d, m),
      cooldown |-> CooldownOf(d, m)] :
     m \in {n \in LearntBy(d, {id}) : n.version = version}}

\* A page has the moves that database d has for its Pokemon.
PageOf(d, page) ==
    /\ Taught(page) = TaughtIn(d, page.id)
    /\ MovesetsOrdered(page)
    /\ \A version : ValuesOnPage(page, version) = ValuesIn(d, page.id, version)

\* assembleDetail makes a page of the moves its Pokemon has, whatever the batch.
LEMMA DetailIs ==
    ASSUME NEW d, Keyed(d), Linked(d), Shipped(d), IsFiniteSet(d.movedetails),
           NEW ids, NEW p, p.id \in ids, NEW numbers, NEW entries, NEW evolution, NEW abilities
    PROVE  LET page == assembleDetail(p, numbers, entries, evolution,
                                      GetPokemonMovesByIDs(d, ids), abilities)
           IN page.id = p.id /\ PageOf(d, page)
<1> DEFINE moves == GetPokemonMovesByIDs(d, ids)
           page == assembleDetail(p, numbers, entries, evolution, moves, abilities)
           all == {MoveRow(d, m) : m \in LearntBy(d, ids)}
           mine == LearntBy(d, {p.id})
           R == {r \in all : r.pokemon = p.id}
<1>1. page.id = p.id /\ page.movesets = groupMoveset(Own(moves, p.id))
    BY DEF assembleDetail
<1>2. Shows(moves, all)
    BY MoveRowsAre
<1>3. R = {MoveRow(d, m) : m \in mine}
    <2>1. ASSUME NEW r \in R PROVE \E m \in mine : r = MoveRow(d, m)
        <3>1. PICK m \in LearntBy(d, ids) : r = MoveRow(d, m)
            OBVIOUS
        <3>2. m \in d.movedetails /\ m.pokemon = p.id
            BY <3>1 DEF LearntBy, MoveRow
        <3> QED BY <3>1, <3>2 DEF LearntBy
    <2>2. ASSUME NEW m \in mine PROVE MoveRow(d, m) \in R
        <3>1. m \in LearntBy(d, ids) /\ m.pokemon = p.id
            BY DEF LearntBy
        <3> QED BY <3>1 DEF MoveRow
    <2> HIDE DEF R, mine
    <2> QED BY <2>1, <2>2
<1> HIDE DEF page, moves, all
<1>4. Shows(Own(moves, p.id), R)
    BY <1>2, OwnShown
<1> HIDE DEF R
<1>5. \A r \in R : /\ Enumerates(VersionGroupOrder, r.version)
                   /\ Enumerates(MethodColumnOrder, r.method) /\ r.level \in Int
    <2>1. ASSUME NEW m \in mine
          PROVE  /\ Enumerates(VersionGroupOrder, m.version)
                 /\ Enumerates(MethodColumnOrder, m.method) /\ m.level \in Int
        BY DEF LearntBy, Linked
    <2> HIDE DEF mine
    <2> QED BY <1>3, <2>1 DEF MoveRow
<1>6. Movesets(page.movesets, R)
    BY <1>1, <1>4, <1>5, MovesetsAre
<1>7. Taught(page) = TaughtIn(d, page.id)
    <2>1. Taught(page) = MovesTaught(R)
        BY <1>6, TaughtIs
    <2>2. TaughtIn(d, page.id) = {<<r.version, r.method, r.move, r.level>> : r \in mine}
        BY <1>1 DEF TaughtIn, LearntBy
    <2>3. \A m \in mine : LET r == MoveRow(d, m)
              IN r.version = m.version /\ r.method = m.method /\ r.move = m.move /\ r.level = m.level
        BY DEF MoveRow
    <2> HIDE DEF mine
    <2>4. MovesTaught(R) = {<<r.version, r.method, r.move, r.level>> : r \in mine}
        <3>1. ASSUME NEW m \in mine
              PROVE  LET r == MoveRow(d, m)
                     IN <<r.version, r.method, r.move, r.level>> = <<m.version, m.method, m.move, m.level>>
            BY <2>3
        <3> QED BY <1>3, <3>1 DEF MovesTaught
    <2> QED BY <2>1, <2>2, <2>4
<1>8. ASSUME NEW version
      PROVE  ValuesOnPage(page, version) = ValuesIn(d, page.id, version)
    <2> DEFINE S == {s \in R : s.version = version}
               M == {n \in mine : n.version = version}
               value(m) == [move |-> m.move, power |-> PowerOf(d, m), pp |-> PPOf(d, m),
                            cooldown |-> CooldownOf(d, m)]
    <2>1. ValuesOnPage(page, version) = {ValueOf(r) : r \in S}
        BY <1>6, PageValuesAre
    <2>2. ValuesIn(d, page.id, version) = {value(m) : m \in M}
        BY <1>1 DEF ValuesIn
    <2>3. \A m \in mine : ValueOf(MoveRow(d, m)) = value(m) /\ MoveRow(d, m).version = m.version
        BY DEF ValueOf, MoveRow
    <2> HIDE DEF mine, value
    <2>4. {ValueOf(r) : r \in S} = {value(m) : m \in M}
        <3>1. ASSUME NEW x \in {ValueOf(r) : r \in S} PROVE x \in {value(m) : m \in M}
            BY <1>3, <2>3, <3>1
        <3>2. ASSUME NEW x \in {value(m) : m \in M} PROVE x \in {ValueOf(r) : r \in S}
            BY <1>3, <2>3, <3>2
        <3> QED BY <3>1, <3>2
    <2> QED BY <2>1, <2>2, <2>4
<1>9. MovesetsOrdered(page)
    BY <1>6, OrderedAre
<1>10. PageOf(d, page)
    BY <1>7, <1>8, <1>9 DEF PageOf
<1> QED BY <1>1, <1>10 DEF page, moves

-----------------------------------------------------------------------------
(* The forms of a species and the pages of a move                            *)

\* The forms of a species, each once.
LEMMA FormsAre ==
    ASSUME NEW d, Keyed(d), NEW id
    PROVE  Shows(GetPokemonBySpeciesID(d, id), {p \in d.pokemon : p.species = id})
<1> DEFINE S == {p \in d.pokemon : p.species = id}
           key == [p \in S |-> <<p.id>>]
           list == GetPokemonBySpeciesID(d, id)
<1>1. IsFiniteSet(S)
    BY FS_Subset DEF Keyed
<1>2. \A p \in S : p.id \in Int
    <2>1. ASSUME NEW p \in S PROVE p.id \in Int
        <3>1. p \in d.pokemon
            OBVIOUS
        <3>2. p.id \in Nat
            BY <3>1 DEF Keyed
        <3> QED BY <3>2
    <2> QED BY <2>1
<1>3. key \in [S -> [1 .. 1 -> Int]]
    BY <1>2
<1>4. \A p, q \in S : key[p] = key[q] => p = q
    BY DEF Keyed
<1>5. list = ByKey(S, key)
    BY DEF GetPokemonBySpeciesID, OrderBy
<1> HIDE DEF key, list, S
<1>6. KeyOf(key, S, 1)
    BY <1>3, <1>4 DEF KeyOf
<1>7. Shows(list, S)
    BY <1>1, <1>5, <1>6, Arranging
<1> QED BY <1>7 DEF list, S

Learners(d, move) ==
    {[id |-> j[2].id, species |-> j[2].species, method |-> j[1].method] :
     j \in {k \in d.movedetails \X d.pokemon : k[1].move = move /\ k[2].id = k[1].pokemon}}

\* The query answers the learners of a move, each once.
LEMMA LearnerRowsAre ==
    ASSUME NEW d, Keyed(d), Linked(d), IsFiniteSet(d.movedetails), NEW move
    PROVE  Shows(GetPokemonLearnableMove(d, move), Learners(d, move))
<1> DEFINE S == Learners(d, move)
           joined == {k \in d.movedetails \X d.pokemon :
                         k[1].move = move /\ k[2].id = k[1].pokemon}
           row(j) == [id |-> j[2].id, species |-> j[2].species, method |-> j[1].method]
           keyOf(r) == <<r.species, r.id, Position(r.method, MethodColumnOrder)>>
           key == [r \in S |-> keyOf(r)]
           list == GetPokemonLearnableMove(d, move)
<1>1. S = {row(j) : j \in joined}
    BY DEF Learners
<1>2. list = ByKey(S, key)
    BY DEF GetPokemonLearnableMove, OrderBy, Learners
<1>3. IsFiniteSet(S)
    <2> DEFINE pairs == d.movedetails \X d.pokemon
               f == [j \in joined |-> row(j)]
    <2>1. IsFiniteSet(pairs)
        BY FS_Product DEF Keyed
    <2>2. IsFiniteSet(joined)
        BY <2>1, FS_Subset
    <2>3. f \in Surjection(joined, S)
        BY <1>1 DEF Surjection
    <2> HIDE DEF f, joined, S
    <2> QED BY <2>2, <2>3, FS_Surjection
<1>4. ASSUME NEW r \in S
      PROVE  \E j \in joined : r = row(j) /\ r.id \in Nat /\ r.species \in Nat
                 /\ Enumerates(MethodColumnOrder, r.method)
    <2>1. PICK j \in joined : r = row(j)
        BY <1>1
    <2>2. j[1] \in d.movedetails /\ j[2] \in d.pokemon
        OBVIOUS
    <2>3. Enumerates(MethodColumnOrder, j[1].method)
        BY <2>2 DEF Linked
    <2>4. j[2].id \in Nat /\ j[2].species \in Nat
        BY <2>2 DEF Keyed
    <2>5. r.id = j[2].id /\ r.species = j[2].species /\ r.method = j[1].method
        BY <2>1
    <2> QED BY <2>1, <2>3, <2>4, <2>5
<1>5. \A r \in S : key[r] = keyOf(r)
    OBVIOUS
<1> HIDE DEF key, list, S
<1>6. \A r \in S : Position(r.method, MethodColumnOrder) \in Nat
                   /\ MethodColumnOrder[Position(r.method, MethodColumnOrder)] = r.method
    BY <1>4, Positioned, Enumerations
<1>7. key \in [S -> [1 .. 3 -> Int]]
    <2>1. ASSUME NEW r \in S PROVE keyOf(r) \in [1 .. 3 -> Int]
        <3> DEFINE a == Position(r.method, MethodColumnOrder)
        <3>1. r.species \in Int /\ r.id \in Int /\ a \in Int
            BY <1>4, <1>6
        <3> HIDE DEF a
        <3>2. <<r.species, r.id, a>> \in [1 .. 3 -> Int]
            BY <3>1
        <3> QED BY <3>2 DEF a
    <2> HIDE DEF keyOf
    <2> QED BY <2>1 DEF key
<1>8. ASSUME NEW r \in S, NEW s \in S, key[r] = key[s] PROVE r = s
    <2>1. keyOf(r) = keyOf(s)
        BY <1>5, <1>8
    <2>2. /\ r.species = s.species /\ r.id = s.id
          /\ Position(r.method, MethodColumnOrder) = Position(s.method, MethodColumnOrder)
        BY <2>1
    <2>3. r.method = s.method
        BY <1>6, <2>2
    <2>4. PICK j \in joined : r = row(j)
        BY <1>4
    <2>5. PICK k \in joined : s = row(k)
        BY <1>4
    <2> QED BY <2>2, <2>3, <2>4, <2>5
<1>9. KeyOf(key, S, 3)
    BY <1>7, <1>8 DEF KeyOf
<1>10. Shows(list, S)
    BY <1>2, <1>3, <1>9, Arranging
<1> QED BY <1>10 DEF list, S

\* The learners of a move, split by method: whom a database has, and in order.
LearnersOn(groups) ==
    UNION {{<<groups[g].of, groups[g].rows[i].id>> : i \in DOMAIN groups[g].rows} :
           g \in DOMAIN groups}
LearnersIn(d, move) ==
    {<<m.method, m.pokemon>> : m \in {n \in d.movedetails : n.move = move}}

\* groupPokemonLearnable loses no learner and orders the methods.
LEMMA LearnersAre ==
    ASSUME NEW d, Keyed(d), Linked(d), IsFiniteSet(d.movedetails), NEW move
    PROVE  LET groups == groupPokemonLearnable(GetPokemonLearnableMove(d, move))
           IN /\ LearnersOn(groups) = LearnersIn(d, move)
              /\ Ascending(Ranks([g \in DOMAIN groups |-> groups[g].of], LearnMethodOrder))
<1> DEFINE S == Learners(d, move)
           rows == GetPokemonLearnableMove(d, move)
           groups == groupPokemonLearnable(rows)
           field == [r \in S |-> r.method]
           those(g) == {r \in S : field[r] = groups[g].of}
<1>1. groups = MethodsOf(rows)
    BY DEF groupPokemonLearnable, MethodsOf
<1>2. \A r \in S : Enumerates(MethodColumnOrder, r.method)
    BY DEF Learners, Linked
<1>3. Shows(rows, S)
    BY LearnerRowsAre
<1>4. \A r \in S : field[r] = r.method
    OBVIOUS
<1>5. \A x : x \in LearnersOn(groups) <=> \E g \in DOMAIN groups :
          \E i \in DOMAIN groups[g].rows : x = <<groups[g].of, groups[g].rows[i].id>>
    <2> HIDE DEF groups
    <2> QED BY DEF LearnersOn
<1>6. {<<r.method, r.id>> : r \in S} = LearnersIn(d, move)
    <2>1. ASSUME NEW r \in S PROVE <<r.method, r.id>> \in LearnersIn(d, move)
        <3>1. PICK j \in d.movedetails \X d.pokemon : j[1].move = move /\ j[2].id = j[1].pokemon
                  /\ r = [id |-> j[2].id, species |-> j[2].species, method |-> j[1].method]
            BY DEF Learners
        <3>2. j[1] \in {n \in d.movedetails : n.move = move}
            BY <3>1
        <3>3. <<r.method, r.id>> = <<j[1].method, j[1].pokemon>>
            BY <3>1
        <3> QED BY <3>2, <3>3 DEF LearnersIn
    <2>2. ASSUME NEW m \in d.movedetails, m.move = move
          PROVE  \E r \in S : <<m.method, m.pokemon>> = <<r.method, r.id>>
        <3>1. PICK p \in d.pokemon : p.id = m.pokemon
            BY DEF Linked
        <3> DEFINE j == <<m, p>>
                   r == [id |-> j[2].id, species |-> j[2].species, method |-> j[1].method]
        <3>2. j \in d.movedetails \X d.pokemon /\ j[1].move = move /\ j[2].id = j[1].pokemon
            BY <2>2, <3>1
        <3>3. r \in S
            BY <3>2 DEF Learners
        <3>4. r.method = m.method /\ r.id = m.pokemon
            BY <3>1
        <3> QED BY <3>3, <3>4
    <2> HIDE DEF S
    <2> QED BY <2>1, <2>2 DEF LearnersIn
<1> HIDE DEF S, rows
<1>7. Split(groups, S, field, LearnMethodOrder)
    BY <1>1, <1>2, <1>3, SplitByMethod
<1> HIDE DEF groups, field
<1>8. ASSUME NEW g \in DOMAIN groups
      PROVE  /\ those(g) = {groups[g].rows[i] : i \in DOMAIN groups[g].rows}
             /\ \A i \in DOMAIN groups[g].rows : groups[g].rows[i] \in those(g)
    <2>1. Shows(groups[g].rows, those(g))
        BY <1>7 DEF Split
    <2> HIDE DEF those
    <2> QED BY <2>1, ShownBy
<1>9. ASSUME NEW x \in LearnersOn(groups) PROVE \E r \in S : x = <<r.method, r.id>>
    <2>1. PICK g \in DOMAIN groups : \E i \in DOMAIN groups[g].rows :
              x = <<groups[g].of, groups[g].rows[i].id>>
        BY <1>5
    <2>2. PICK i \in DOMAIN groups[g].rows : x = <<groups[g].of, groups[g].rows[i].id>>
        BY <2>1
    <2> DEFINE r == groups[g].rows[i]
    <2>3. r \in S /\ field[r] = groups[g].of
        BY <1>8
    <2> QED BY <1>4, <2>2, <2>3
<1>10. ASSUME NEW r \in S PROVE <<r.method, r.id>> \in LearnersOn(groups)
    <2>1. PICK g \in DOMAIN groups : groups[g].of = field[r]
        BY <1>7 DEF Split
    <2>2. r \in those(g)
        BY <2>1
    <2>3. PICK i \in DOMAIN groups[g].rows : r = groups[g].rows[i]
        BY <1>8, <2>2
    <2> QED BY <1>4, <1>5, <2>1, <2>3
<1>11. LearnersOn(groups) = {<<r.method, r.id>> : r \in S}
    BY <1>9, <1>10
<1>12. Ascending(Ranks([g \in DOMAIN groups |-> groups[g].of], LearnMethodOrder))
    BY <1>7 DEF Split
<1> QED BY <1>6, <1>11, <1>12 DEF groups, rows

\* The wordings of a move, each once with all its games.
WordedBy(groups) ==
    UNION {{<<groups[g].games[i], groups[g].text>> : i \in DOMAIN groups[g].games} :
           g \in DOMAIN groups}
WordingsIn(table, id) == {<<e.version, e.text>> : e \in {w \in table : w.of = id}}

\* The grouped query loses no game of a wording and orders the wordings.
LEMMA WordingsAre ==
    ASSUME NEW table, IsFiniteSet(table), NEW id,
           \A w \in table : Enumerates(GameOrder, w.version),
           \A v, w \in table : v.of = w.of /\ v.version = w.version => v = w
    PROVE  LET groups == GroupedDescriptions(table, id)
           IN /\ WordedBy(groups) = WordingsIn(table, id)
              /\ \A g, h \in DOMAIN groups : g # h => groups[g].text # groups[h].text
              /\ Ascending(Ranks([g \in DOMAIN groups |-> groups[g].games[1]], GameOrder))
<1> DEFINE mine == {w \in table : w.of = id}
           age(w) == Position(w.version, GameOrder)
           T(text) == {w \in mine : w.text = text}
           games(text) == OrderBy(T(text), LAMBDA w : <<age(w)>>)
           row(g) == [games |-> [i \in DOMAIN g |-> g[i].version], text |-> g[1].text]
           rowOf(text) == row(games(text))
           rows == {rowOf(w.text) : w \in mine}
           key == [r \in rows |-> <<Position(r.games[1], GameOrder)>>]
           list == GroupedDescriptions(table, id)
<1>1. \A w \in mine : age(w) \in Nat /\ GameOrder[age(w)] = w.version
    BY Positioned, Enumerations
<1>2. \A v, w \in mine : age(v) = age(w) => v = w
    <2>1. \A v, w \in mine : v.version = w.version => v = w
        OBVIOUS
    <2> HIDE DEF mine, age
    <2> QED BY <1>1, <2>1
<1>3. IsFiniteSet(mine)
    BY FS_Subset
<1>4. list = OrderBy(rows, LAMBDA r : <<Position(r.games[1], GameOrder)>>)
    <2>1. {row(g) : g \in {games(w.text) : w \in mine}} = rows
        <3> HIDE DEF row, games, mine
        <3> QED OBVIOUS
    <2>2. list = OrderBy({row(g) : g \in {games(w.text) : w \in mine}},
                         LAMBDA r : <<Position(r.games[1], GameOrder)>>)
        BY DEF GroupedDescriptions
    <2> HIDE DEF list, rows, row, games, mine
    <2> QED BY <2>1, <2>2
<1>5. list = ByKey(rows, key)
    BY <1>4 DEF OrderBy
<1>6. \A r \in rows : key[r] = <<Position(r.games[1], GameOrder)>>
    OBVIOUS
<1> HIDE DEF mine, list, rows, key, age
<1>7. ASSUME NEW text PROVE Shows(games(text), T(text))
    <2> DEFINE S == T(text)
               k == [w \in S |-> <<age(w)>>]
    <2>1. games(text) = ByKey(S, k)
        BY DEF OrderBy
    <2>2. IsFiniteSet(S)
        BY <1>3, FS_Subset
    <2>3. k \in [S -> [1 .. 1 -> Int]]
        BY <1>1
    <2>4. \A v, w \in S : k[v] = k[w] => v = w
        BY <1>2
    <2> HIDE DEF k, games
    <2>5. KeyOf(k, S, 1)
        BY <2>3, <2>4 DEF KeyOf
    <2> HIDE DEF T
    <2> QED BY <2>1, <2>2, <2>5, Arranging
<1>8. ASSUME NEW text
      PROVE  /\ DOMAIN games(text) = 1 .. Len(games(text)) /\ Len(games(text)) \in Nat
             /\ T(text) = {games(text)[i] : i \in DOMAIN games(text)}
             /\ \A i \in DOMAIN games(text) : games(text)[i] \in T(text)
    <2> DEFINE S == T(text)
               g == games(text)
    <2>1. Shows(g, S)
        BY <1>7
    <2> HIDE DEF g, S
    <2> QED BY <2>1, ShownBy DEF g, S
<1>9. /\ \A text : rowOf(text).games = [i \in DOMAIN games(text) |-> games(text)[i].version]
      /\ \A text : rowOf(text).text = games(text)[1].text
    <2> HIDE DEF games
    <2> QED OBVIOUS
<1> HIDE DEF games, rowOf
<1>10. ASSUME NEW w \in mine
       PROVE  /\ 1 \in DOMAIN games(w.text) /\ games(w.text)[1] \in T(w.text)
              /\ rowOf(w.text).text = w.text
              /\ rowOf(w.text).games[1] = games(w.text)[1].version
    <2> DEFINE g == games(w.text)
    <2>1. w \in T(w.text)
        OBVIOUS
    <2>2. PICK i \in DOMAIN g : w = g[i]
        BY <1>8, <2>1
    <2>3. i \in 1 .. Len(g) /\ Len(g) \in Nat
        BY <1>8, <2>2
    <2>4. 1 \in DOMAIN g
        <3> HIDE DEF g
        <3>1. 1 \in 1 .. Len(g)
            BY <2>3
        <3> QED BY <1>8, <3>1 DEF g
    <2>5. g[1] \in T(w.text)
        BY <1>8, <2>4
    <2> HIDE DEF g
    <2>6. rowOf(w.text).games = [j \in DOMAIN g |-> g[j].version]
        BY <1>9 DEF g
    <2>7. rowOf(w.text).games[1] = g[1].version
        BY <2>4, <2>6
    <2>8. rowOf(w.text).text = w.text
        BY <1>9, <2>5 DEF g
    <2> QED BY <2>4, <2>5, <2>7, <2>8 DEF g
<1>11. ASSUME NEW r \in rows
       PROVE  \E w \in mine : r = rowOf(w.text) /\ r.text = w.text /\ r.games[1] = w.version
                  /\ key[r] = <<age(w)>>
    <2>1. PICK v \in mine : r = rowOf(v.text)
        BY DEF rows
    <2> DEFINE w == games(v.text)[1]
    <2>2. w \in T(v.text) /\ r.text = v.text /\ r.games[1] = w.version
        BY <1>10, <2>1
    <2> HIDE DEF w
    <2>3. w \in mine /\ w.text = v.text
        BY <2>2
    <2>4. key[r] = <<age(w)>>
        BY <1>6, <2>2 DEF age
    <2> QED BY <2>1, <2>2, <2>3, <2>4
<1>12. KeyOf(key, rows, 1)
    <2>1. ASSUME NEW r \in rows PROVE key[r] \in [1 .. 1 -> Int]
        <3>1. PICK w \in mine : key[r] = <<age(w)>>
            BY <1>11
        <3>2. age(w) \in Int
            BY <1>1
        <3>3. <<age(w)>> \in [1 .. 1 -> Int]
            BY <3>2
        <3> QED BY <3>1, <3>3
    <2>2. key \in [rows -> [1 .. 1 -> Int]]
        BY <2>1 DEF key
    <2>3. ASSUME NEW r \in rows, NEW s \in rows, key[r] = key[s] PROVE r = s
        <3>1. PICK v \in mine : r = rowOf(v.text) /\ key[r] = <<age(v)>>
            BY <1>11
        <3>2. PICK w \in mine : s = rowOf(w.text) /\ key[s] = <<age(w)>>
            BY <1>11
        <3>3. age(v) = age(w)
            <4>1. <<age(v)>> = <<age(w)>>
                BY <2>3, <3>1, <3>2
            <4> QED BY <4>1
        <3>4. v = w
            BY <1>2, <3>3
        <3> QED BY <3>1, <3>2, <3>4
    <2> QED BY <2>2, <2>3 DEF KeyOf
<1>13. IsFiniteSet(rows)
    <2> DEFINE f == [w \in mine |-> rowOf(w.text)]
    <2>1. f \in Surjection(mine, rows)
        BY DEF Surjection, rows
    <2> HIDE DEF f
    <2> QED BY <1>3, <2>1, FS_Surjection
<1>14. Shows(list, rows) /\ Sorted(list, key)
    BY <1>5, <1>12, <1>13, Arranging
<1>15. /\ DOMAIN list = 1 .. Len(list) /\ Len(list) \in Nat
       /\ rows = {list[i] : i \in DOMAIN list}
       /\ \A i \in DOMAIN list : list[i] \in rows
    BY <1>14, ShownBy
<1>16. ASSUME NEW g \in DOMAIN list, NEW h \in DOMAIN list, g < h
       PROVE  /\ Position(list[g].games[1], GameOrder) < Position(list[h].games[1], GameOrder)
              /\ list[g].text # list[h].text
    <2>1. Before(key[list[g]], key[list[h]])
        BY <1>14, <1>15, <1>16 DEF Sorted
    <2>2. PICK v \in mine : /\ list[g] = rowOf(v.text) /\ list[g].text = v.text
                            /\ list[g].games[1] = v.version /\ key[list[g]] = <<age(v)>>
        BY <1>11, <1>15
    <2>3. PICK w \in mine : /\ list[h] = rowOf(w.text) /\ list[h].text = w.text
                            /\ list[h].games[1] = w.version /\ key[list[h]] = <<age(w)>>
        BY <1>11, <1>15
    <2>4. age(v) \in Int /\ age(w) \in Int
        BY <1>1
    <2>5. age(v) < age(w)
        BY <2>1, <2>2, <2>3, <2>4, Before1
    <2>6. list[g].text # list[h].text
        <3>1. SUFFICES ASSUME v.text = w.text PROVE FALSE
            BY <2>2, <2>3
        <3>2. <<age(v)>> = <<age(w)>>
            BY <2>2, <2>3, <3>1
        <3> QED BY <2>4, <2>5, <3>2
    <2> QED BY <2>2, <2>3, <2>5, <2>6 DEF age
<1>17. \A g, h \in DOMAIN list : g # h => list[g].text # list[h].text
    <2> SUFFICES ASSUME NEW g \in DOMAIN list, NEW h \in DOMAIN list, g # h
                 PROVE  list[g].text # list[h].text
        OBVIOUS
    <2>1. g < h \/ h < g
        BY <1>15
    <2> QED BY <1>16, <2>1
<1>18. Ascending(Ranks([g \in DOMAIN list |-> list[g].games[1]], GameOrder))
    BY <1>16 DEF Ascending, Ranks
<1>19. \A x : x \in WordedBy(list) <=> \E g \in DOMAIN list :
           \E i \in DOMAIN list[g].games : x = <<list[g].games[i], list[g].text>>
    BY DEF WordedBy
<1>20. ASSUME NEW g \in DOMAIN list, NEW i \in DOMAIN list[g].games
       PROVE  <<list[g].games[i], list[g].text>> \in WordingsIn(table, id)
    <2>1. PICK w \in mine : list[g] = rowOf(w.text)
        BY <1>11, <1>15
    <2> DEFINE f == games(w.text)
               e == f[i]
    <2>2. list[g].games = [j \in DOMAIN f |-> f[j].version]
        BY <1>9, <2>1
    <2>3. \A j \in DOMAIN f : f[j] \in T(w.text)
        BY <1>8
    <2>4. list[g].text = w.text
        BY <1>10, <2>1
    <2> HIDE DEF f
    <2>5. i \in DOMAIN f /\ list[g].games[i] = e.version
        BY <2>2
    <2>6. e \in T(w.text)
        BY <2>3, <2>5
    <2> HIDE DEF e
    <2>7. e \in mine /\ <<list[g].games[i], list[g].text>> = <<e.version, e.text>>
        BY <2>4, <2>5, <2>6
    <2> QED BY <2>7 DEF WordingsIn, mine
<1>21. ASSUME NEW w \in mine PROVE <<w.version, w.text>> \in WordedBy(list)
    <2>1. rowOf(w.text) \in rows
        BY DEF rows
    <2>2. PICK g \in DOMAIN list : rowOf(w.text) = list[g]
        BY <1>15, <2>1
    <2> DEFINE f == games(w.text)
    <2>3. w \in T(w.text)
        OBVIOUS
    <2>4. T(w.text) = {f[i] : i \in DOMAIN f}
        BY <1>8
    <2>5. list[g].games = [j \in DOMAIN f |-> f[j].version]
        BY <1>9, <2>2
    <2>6. list[g].text = w.text
        BY <1>10, <2>2
    <2> HIDE DEF f, T
    <2>7. PICK i \in DOMAIN f : w = f[i]
        BY <2>3, <2>4
    <2>8. i \in DOMAIN list[g].games /\ list[g].games[i] = w.version
        BY <2>5, <2>7
    <2> QED BY <1>19, <2>6, <2>8
<1>22. WordedBy(list) = WordingsIn(table, id)
    <2>1. ASSUME NEW x \in WordedBy(list) PROVE x \in WordingsIn(table, id)
        BY <1>19, <1>20
    <2>2. ASSUME NEW x \in WordingsIn(table, id) PROVE x \in WordedBy(list)
        BY <1>21 DEF WordingsIn, mine
    <2> QED BY <2>1, <2>2
<1> QED BY <1>17, <1>18, <1>22 DEF list

-----------------------------------------------------------------------------
(* The invariant                                                             *)

Known(data, a) ==
    /\ a.began \in Stages /\ a.ended \in Stages /\ Till(a.began, a.ended)
    /\ a.ep = "team" /\ a.status = 200 => TeamAnswer(data, a)
    /\ a.ep = "candidate" /\ a.status = 404 => CandidateMissing(data, a)
    /\ a.ep = "candidate" /\ a.status = 200 => CandidateAnswer(data, a)
    /\ a.ep = "dex" /\ a.name = "national" /\ a.status = 200 => DexAnswer(data, a)

\* The results a request has, of queries at some moment since it began.
TeamAsked(data, q, now) ==
    \A k \in 1 .. Len(q.got) :
        /\ q.name \in DOMAIN versionGroups
        /\ \E s : Between(q.began, s, now) /\ q.got[k] = TeamRows(data[s], q.name, k)
CandidateAsked(data, q, now) ==
    /\ Len(q.got) >= 1 =>
           /\ q.name \in DOMAIN versionGroups
           /\ q.got[1] # {}
           /\ \E s : Between(q.began, s, now) /\ q.got[1] = CandidateRows(data[s], q.name, q.id)
    /\ Len(q.got) >= 4 =>
           \E s : /\ Between(q.began, s, now)
                  /\ q.got[4] = GetCandidateMoveDescriptions(data[s],
                         {m.move : m \in q.got[3]}, versionGroups[q.name].games)
DexAsked(data, q, now) ==
    Len(q.got) >= 1 => \E s : Between(q.began, s, now) /\ q.got[1] = NationalRows(data[s])
Asking(data, q, now) ==
    /\ DOMAIN q = {"ep", "name", "id", "began", "got"}
    /\ q.began \in Stages /\ Till(q.began, now)
    /\ \E S : q.got \in Seq(S)
    /\ q.ep = "team" => TeamAsked(data, q, now)
    /\ q.ep = "candidate" => CandidateAsked(data, q, now)
    /\ q.ep = "dex" /\ q.name = "national" => DexAsked(data, q, now)

\* q is what a client asks after answer a.
Follows(a, q) == /\ Till(a.ended, q.began)
                 /\ a.ep = "team" => q.ep = "candidate" /\ q.name = a.name

Inv ==
    /\ scenario \in Scenarios /\ stage \in Stages
    /\ req # Idle => Asking(scenario, req, stage)
    /\ answer # NoAnswer => Known(scenario, answer) /\ Till(answer.ended, stage)
    /\ earlier # NoAnswer =>
           /\ Known(scenario, earlier) /\ earlier.status = 200 /\ Till(earlier.ended, stage)
           /\ req # Idle => Follows(earlier, req)
           /\ answer # NoAnswer => Follows(earlier, answer)

LEMMA TillTransitive ==
    ASSUME NEW f, NEW g, NEW h, Till(f, g), Till(g, h)
    PROVE  Till(f, h)
BY DEF Till

LEMMA AskingLater ==
    ASSUME NEW data, NEW q, NEW now, NEW later, Till(now, later), Asking(data, q, now)
    PROVE  Asking(data, q, later)
<1>1. \A s : Between(q.began, s, now) => Between(q.began, s, later)
    BY TillTransitive DEF Between
<1>2. TeamAsked(data, q, now) => TeamAsked(data, q, later)
    BY <1>1 DEF TeamAsked
<1>3. CandidateAsked(data, q, now) => CandidateAsked(data, q, later)
    BY <1>1 DEF CandidateAsked
<1>4. DexAsked(data, q, now) => DexAsked(data, q, later)
    BY <1>1 DEF DexAsked
<1> QED BY <1>2, <1>3, <1>4, TillTransitive DEF Asking

LEMMA MigrateStep ==
    ASSUME Inv, Migrate
    PROVE  Inv'
<1>1. /\ stage' \in Stages /\ Till(stage, stage')
      /\ scenario' = scenario /\ req' = req /\ answer' = answer /\ earlier' = earlier
    BY DEF Migrate, Till, Stages
<1>2. req # Idle => Asking(scenario, req, stage')
    BY <1>1, AskingLater DEF Inv
<1>3. /\ answer # NoAnswer => Till(answer.ended, stage')
      /\ earlier # NoAnswer => Till(earlier.ended, stage')
    BY <1>1, TillTransitive DEF Inv
<1> QED BY <1>1, <1>2, <1>3 DEF Inv

LEMMA AskStep ==
    ASSUME Inv, NEW ep, Ask(ep)
    PROVE  Inv'
<1>1. PICK q \in scenario.asks :
        /\ req' = [ep |-> ep, name |-> q.name, id |-> Int32(q.id), began |-> stage,
                   got |-> <<>>]
        /\ earlier' = IF FollowsUp(answer, q) THEN answer ELSE NoAnswer
        /\ q.ep = ep
    BY DEF Ask
<1>2. answer' = NoAnswer /\ scenario' = scenario /\ stage' = stage
    BY DEF Ask
<1>3. Asking(scenario, req', stage)
    <2>1. /\ DOMAIN req' = {"ep", "name", "id", "began", "got"}
          /\ req'.began = stage /\ req'.got = <<>>
        BY <1>1
    <2>2. Len(<<>>) = 0 /\ <<>> \in Seq({})
        BY EmptySeq
    <2>3. stage \in Stages /\ Till(stage, stage)
        BY DEF Inv, Till
    <2>4. /\ TeamAsked(scenario, req', stage) /\ CandidateAsked(scenario, req', stage)
          /\ DexAsked(scenario, req', stage)
        BY <2>1, <2>2 DEF TeamAsked, CandidateAsked, DexAsked
    <2> QED BY <2>1, <2>2, <2>3, <2>4 DEF Asking
<1>4. ASSUME earlier' # NoAnswer
      PROVE  /\ Known(scenario, earlier') /\ earlier'.status = 200 /\ Till(earlier'.ended, stage)
             /\ Follows(earlier', req')
    <2>1. FollowsUp(answer, q) /\ earlier' = answer
        BY <1>1, <1>4
    <2>2. answer # NoAnswer /\ answer.status = 200
        BY <2>1 DEF FollowsUp
    <2>3. Known(scenario, answer) /\ Till(answer.ended, stage)
        BY <2>2 DEF Inv
    <2>4. answer.ep = "team" => q.ep = "candidate" /\ q.name = answer.name
        BY <2>1 DEF FollowsUp
    <2>5. req'.began = stage /\ req'.ep = q.ep /\ req'.name = q.name
        BY <1>1
    <2> QED BY <2>1, <2>2, <2>3, <2>4, <2>5 DEF Follows
<1> QED BY <1>2, <1>3, <1>4 DEF Inv

\* A query of a request: for a list or a candidate, the next one.
LEMMA ReadStep ==
    ASSUME Inv, req # Idle, NEW rows, Read(rows),
           req.ep = "team" =>
               /\ req.name \in DOMAIN versionGroups
               /\ rows = TeamRows(db, req.name, Len(req.got) + 1),
           req.ep = "candidate" /\ Len(req.got) = 0 =>
               /\ req.name \in DOMAIN versionGroups
               /\ rows = CandidateRows(db, req.name, req.id) /\ rows # {},
           req.ep = "candidate" /\ Len(req.got) = 3 =>
               rows = GetCandidateMoveDescriptions(db,
                          {m.move : m \in req.got[3]}, versionGroups[req.name].games),
           req.ep = "dex" /\ req.name = "national" /\ Len(req.got) = 0 =>
               rows = NationalRows(db)
    PROVE  Inv'
<1>1. /\ scenario \in Scenarios /\ stage \in Stages
      /\ Asking(scenario, req, stage)
    BY DEF Inv
<1>2. /\ req' = [req EXCEPT !.got = Append(@, rows)]
      /\ scenario' = scenario /\ stage' = stage /\ answer' = answer /\ earlier' = earlier
    BY DEF Read
<1>3. /\ DOMAIN req' = {"ep", "name", "id", "began", "got"}
      /\ req'.ep = req.ep /\ req'.name = req.name /\ req'.id = req.id
      /\ req'.began = req.began /\ req'.got = Append(req.got, rows)
    BY <1>1, <1>2 DEF Asking
<1>4. PICK S : req.got \in Seq(S)
    BY <1>1 DEF Asking
<1> DEFINE got == req.got
           more == req'.got
<1>5. /\ more \in Seq(S \cup {rows})
      /\ Len(got) \in Nat /\ Len(more) = Len(got) + 1
      /\ \A k \in 1 .. Len(got) : more[k] = got[k]
      /\ more[Len(got) + 1] = rows
    <2>1. got \in Seq(S \cup {rows}) /\ rows \in S \cup {rows}
        BY <1>4, SeqMonotonic
    <2>2. more = Append(got, rows)
        BY <1>3
    <2> HIDE DEF got, more
    <2> QED BY <2>1, <2>2, AppendProperties, LenProperties
<1>6. Between(req.began, stage, stage) /\ db = scenario[stage]
    BY <1>1 DEF Asking, Between, Till, db
<1>7. ASSUME req.ep = "team" PROVE TeamAsked(scenario, req', stage)
    <2>1. TeamAsked(scenario, req, stage)
        BY <1>1, <1>7 DEF Asking
    <2>2. ASSUME NEW k \in 1 .. Len(more)
          PROVE  \E s : Between(req.began, s, stage) /\ more[k] = TeamRows(scenario[s], req.name, k)
        <3>1. CASE k \in 1 .. Len(got)
            BY <1>5, <2>1, <3>1 DEF TeamAsked
        <3>2. CASE k = Len(got) + 1
            BY <1>5, <1>6, <1>7, <3>2
        <3> HIDE DEF got, more
        <3> QED BY <1>5, <3>1, <3>2
    <2> HIDE DEF got
    <2> QED BY <1>3, <1>7, <2>2 DEF TeamAsked
<1>8. ASSUME req.ep = "candidate" PROVE CandidateAsked(scenario, req', stage)
    <2>1. CandidateAsked(scenario, req, stage)
        BY <1>1, <1>8 DEF Asking
    <2>2. /\ req.name \in DOMAIN versionGroups
          /\ more[1] # {}
          /\ \E s : Between(req.began, s, stage) /\ more[1] = CandidateRows(scenario[s], req.name, req.id)
        <3>1. CASE Len(got) = 0
            BY <1>5, <1>6, <1>8, <3>1
        <3>2. CASE Len(got) # 0
            <4>1. Len(got) >= 1 /\ more[1] = got[1]
                BY <1>5, <3>2
            <4> QED BY <2>1, <4>1 DEF CandidateAsked
        <3> QED BY <3>1, <3>2
    <2>3. ASSUME Len(more) >= 4
          PROVE  \E s : /\ Between(req.began, s, stage)
                        /\ more[4] = GetCandidateMoveDescriptions(scenario[s],
                               {m.move : m \in more[3]}, versionGroups[req.name].games)
        <3>1. Len(got) >= 3 /\ more[3] = got[3]
            BY <1>5, <2>3
        <3>2. CASE Len(got) = 3
            <4>1. more[4] = rows
                BY <1>5, <3>2
            <4>2. rows = GetCandidateMoveDescriptions(db,
                             {m.move : m \in got[3]}, versionGroups[req.name].games)
                BY <1>8, <3>2
            <4> HIDE DEF got, more
            <4> QED BY <1>6, <3>1, <4>1, <4>2
        <3>3. CASE Len(got) # 3
            <4>1. Len(got) >= 4 /\ 4 \in 1 .. Len(got)
                <5> DEFINE n == Len(got)
                <5>1. n \in Nat /\ n >= 3 /\ n # 3
                    BY <1>5, <3>1, <3>3
                <5> HIDE DEF n
                <5>2. n >= 4 /\ 4 \in 1 .. n
                    BY <5>1
                <5> QED BY <5>2 DEF n
            <4>2. more[4] = got[4]
                BY <1>5, <4>1
            <4> QED BY <2>1, <3>1, <4>1, <4>2 DEF CandidateAsked
        <3> QED BY <3>2, <3>3
    <2> QED BY <1>3, <2>2, <2>3 DEF CandidateAsked
<1>9. ASSUME req.ep = "dex", req.name = "national" PROVE DexAsked(scenario, req', stage)
    <2>1. DexAsked(scenario, req, stage)
        BY <1>1, <1>9 DEF Asking
    <2>2. \E s : Between(req.began, s, stage) /\ more[1] = NationalRows(scenario[s])
        <3>1. CASE Len(got) = 0
            BY <1>5, <1>6, <1>9, <3>1
        <3>2. CASE Len(got) # 0
            <4>1. Len(got) >= 1 /\ more[1] = got[1]
                BY <1>5, <3>2
            <4> QED BY <2>1, <4>1 DEF DexAsked
        <3> QED BY <3>1, <3>2
    <2> QED BY <1>3, <2>2 DEF DexAsked
<1>10. Asking(scenario, req', stage)
    BY <1>1, <1>3, <1>5, <1>7, <1>8, <1>9 DEF Asking
<1>11. earlier # NoAnswer => Follows(earlier, req')
    BY <1>3 DEF Inv, Follows
<1> QED BY <1>2, <1>10, <1>11 DEF Inv

\* An answer, of a list or a candidate if it is one.
LEMMA ReplyStep ==
    ASSUME Inv, req # Idle, NEW status, NEW body, Reply(status, body),
           req.ep = "team" /\ status = 200 =>
               /\ Len(req.got) = TeamSteps(req.name)
               /\ body = TeamBody(req.name, req.got)
               /\ req.name \in DOMAIN versionGroups,
           req.ep = "candidate" /\ status = 404 =>
               /\ req.name \in DOMAIN versionGroups
               /\ CandidateRows(db, req.name, req.id) = {},
           req.ep = "candidate" /\ status = 200 =>
               /\ Len(req.got) = 4
               /\ \E moves \in OneOfEachMove(req.got[3]) :
                      body = buildCandidateDetail(One(req.got[1]), req.got[2], moves,
                                 req.got[4], versionGroups[req.name].gen),
           req.ep = "dex" /\ req.name = "national" /\ status = 200 =>
               Len(req.got) = 1 /\ body \in GenGroups(req.got[1])
    PROVE  Inv'
<1>1. /\ scenario \in Scenarios /\ stage \in Stages
      /\ Asking(scenario, req, stage)
    BY DEF Inv
<1>2. /\ answer' = [status |-> status, body |-> body, ep |-> req.ep,
                    name |-> req.name, id |-> req.id,
                    began |-> req.began, ended |-> stage]
      /\ req' = Idle
      /\ scenario' = scenario /\ stage' = stage /\ earlier' = earlier
    BY DEF Reply
<1> DEFINE a == answer'
<1>3. /\ a.status = status /\ a.body = body /\ a.ep = req.ep /\ a.name = req.name
      /\ a.id = req.id /\ a.began = req.began /\ a.ended = stage
    BY <1>2
<1> HIDE DEF a
<1>4. a.began \in Stages /\ a.ended \in Stages /\ Till(a.began, a.ended)
    BY <1>1, <1>3 DEF Asking
<1>5. \A s : During(s, a) <=> Between(req.began, s, stage)
    BY <1>3 DEF During
<1>6. ASSUME req.ep = "team", status = 200 PROVE TeamAnswer(scenario, a)
    <2> DEFINE got == req.got
    <2>1. TeamAsked(scenario, req, stage) /\ Len(got) = TeamSteps(a.name)
        BY <1>1, <1>3, <1>6 DEF Asking
    <2>2. \A k \in 1 .. TeamSteps(a.name) :
              \E s : During(s, a) /\ got[k] = TeamRows(scenario[s], a.name, k)
        BY <1>3, <1>5, <2>1 DEF TeamAsked
    <2>3. a.body = TeamBody(a.name, got) /\ a.name \in DOMAIN versionGroups
        BY <1>3, <1>6
    <2> HIDE DEF got
    <2> QED BY <2>1, <2>2, <2>3 DEF TeamAnswer
<1>7. ASSUME req.ep = "candidate", status = 404 PROVE CandidateMissing(scenario, a)
    <2>1. During(stage, a)
        BY <1>1, <1>5 DEF Asking, Between, Till
    <2>2. CandidateRows(scenario[stage], a.name, a.id) = {} /\ a.name \in DOMAIN versionGroups
        BY <1>3, <1>7 DEF db
    <2> QED BY <2>1, <2>2 DEF CandidateMissing
<1>8. ASSUME req.ep = "candidate", status = 200 PROVE CandidateAnswer(scenario, a)
    <2>1. CandidateAsked(scenario, req, stage) /\ Len(req.got) = 4
        BY <1>1, <1>8 DEF Asking
    <2> DEFINE rows == req.got[1]
               learnt == req.got[3]
               wordings == req.got[4]
    <2>2. /\ a.name \in DOMAIN versionGroups /\ rows # {}
          /\ \E s : During(s, a) /\ rows = CandidateRows(scenario[s], a.name, a.id)
        BY <1>3, <1>5, <2>1 DEF CandidateAsked
    <2>3. \E s : During(s, a) /\ wordings = GetCandidateMoveDescriptions(
               scenario[s], {m.move : m \in learnt}, versionGroups[a.name].games)
        <3>1. \E s : Between(req.began, s, stage) /\ wordings = GetCandidateMoveDescriptions(
                  scenario[s], {m.move : m \in learnt}, versionGroups[req.name].games)
            <4>1. Len(req.got) >= 4
                BY <2>1
            <4> QED BY <2>1, <4>1, Zenon DEF CandidateAsked
        <3> QED BY <1>3, <1>5, <3>1
    <2>4. \E moves \in OneOfEachMove(learnt) :
              a.body = buildCandidateDetail(One(rows), req.got[2], moves, wordings,
                                            versionGroups[a.name].gen)
        BY <1>3, <1>8
    <2> HIDE DEF rows, learnt, wordings
    <2> QED BY <2>2, <2>3, <2>4 DEF CandidateAnswer
<1>9. ASSUME req.ep = "dex", req.name = "national", status = 200
      PROVE  DexAnswer(scenario, a)
    <2>1. DexAsked(scenario, req, stage) /\ Len(req.got) = 1
        BY <1>1, <1>9 DEF Asking
    <2>2. PICK s : Between(req.began, s, stage) /\ req.got[1] = NationalRows(scenario[s])
        BY <2>1 DEF DexAsked
    <2>3. a.body \in GenGroups(NationalRows(scenario[s]))
        BY <1>3, <1>9, <2>2
    <2> QED BY <1>5, <2>2, <2>3 DEF DexAnswer
<1>10. Known(scenario, a)
    BY <1>3, <1>4, <1>6, <1>7, <1>8, <1>9 DEF Known
<1>11. Till(a.ended, stage)
    BY <1>3 DEF Till
<1>12. earlier # NoAnswer => Follows(earlier, a)
    BY <1>3 DEF Inv, Follows
<1> QED BY <1>2, <1>10, <1>11, <1>12 DEF Inv, a

\* A step of a request the invariant says nothing more of.
LEMMA OtherStep ==
    ASSUME Inv, req # Idle, req.ep # "team", req.ep # "candidate",
           req.ep = "dex" => req.name # "national",
           (\E rows : Read(rows)) \/ (\E status, body : Reply(status, body))
    PROVE  Inv'
<1>1. CASE \E rows : Read(rows)
    BY <1>1, ReadStep
<1>2. CASE \E status, body : Reply(status, body)
    BY <1>2, ReplyStep
<1> QED BY <1>1, <1>2

LEMMA DexStep ==
    ASSUME Inv, \/ DexUnknown \/ DexReply \/ DexNational \/ DexNationalReply
                \/ \E k \in 1 .. 5 : DexRegion(k)
    PROVE  Inv'
<1>1. CASE DexReply \/ \E k \in 1 .. 5 : DexRegion(k)
    <2>1. req # Idle /\ req.ep = "dex" /\ req.name # "national"
        BY <1>1 DEF DexReply, DexRegion, Serving
    <2>2. (\E rows : Read(rows)) \/ (\E status, body : Reply(status, body))
        <3>1. CASE DexReply
            BY <3>1 DEF DexReply
        <3>2. CASE \E k \in 1 .. 5 : DexRegion(k)
            BY <3>2 DEF DexRegion, Query
        <3> QED BY <1>1, <3>1, <3>2
    <2> QED BY <2>1, <2>2, OtherStep
<1>2. CASE DexNational
    <2>1. req # Idle /\ req.ep = "dex" /\ Len(req.got) = 0
        BY <1>2 DEF DexNational, Serving
    <2>2. CASE Read(NationalRows(db))
        BY <2>1, <2>2, ReadStep
    <2>3. CASE Reply(400, Null)
        BY <2>1, <2>3, ReplyStep
    <2> QED BY <1>2, <2>2, <2>3 DEF DexNational, Query
<1>3. CASE DexNationalReply
    <2> DEFINE groups == GenGroups(Got(1))
    <2>1. req # Idle /\ req.ep = "dex" /\ Len(req.got) = 1
        BY <1>3 DEF DexNationalReply, Serving
    <2>2. CASE Reply(400, Null)
        BY <2>1, <2>2, ReplyStep
    <2>3. CASE groups # {} /\ Reply(200, One(groups))
        <3>1. One(groups) \in GenGroups(req.got[1])
            BY <2>3 DEF One, Got
        <3> HIDE DEF groups
        <3> QED BY <2>1, <2>3, <3>1, ReplyStep
    <2> HIDE DEF groups
    <2>4. Reply(400, Null) \/ (groups # {} /\ Reply(200, One(groups)))
        BY <1>3, Zenon DEF DexNationalReply, groups
    <2> QED BY <2>2, <2>3, <2>4 DEF groups
<1>4. CASE DexUnknown
    <2>1. req # Idle /\ req.ep = "dex" /\ Reply(400, Null)
        BY <1>4 DEF DexUnknown, Serving
    <2> QED BY <2>1, ReplyStep
<1> QED BY <1>1, <1>2, <1>3, <1>4

LEMMA PageStep ==
    ASSUME Inv, \/ PokemonRow \/ SpeciesOfForm \/ SpeciesRow \/ SpeciesForms
                \/ DexNumbers \/ DexEntries \/ Evolution \/ Moves \/ Abilities \/ DetailReply
                \/ \E ep \in DetailPages : PageRow(ep)
                \/ MoveRest \/ AbilityRest \/ ItemRest \/ BadFormat
                \/ \E ep \in ListPages : ListRows(ep) \/ ListReply(ep)
    PROVE  Inv'
<1>1. CASE PokemonRow \/ SpeciesOfForm \/ SpeciesRow \/ SpeciesForms
    <2>1. req # Idle /\ req.ep \in {"pokemon", "species"}
        BY <1>1 DEF PokemonRow, SpeciesOfForm, SpeciesRow, SpeciesForms, Serving
    <2>2. (\E rows : Read(rows)) \/ (\E status, body : Reply(status, body))
        <3>1. CASE PokemonRow
            BY <3>1 DEF PokemonRow, QueryOne
        <3>2. CASE SpeciesOfForm
            BY <3>2 DEF SpeciesOfForm, QueryOne
        <3>3. CASE SpeciesRow
            BY <3>3 DEF SpeciesRow, QueryOne
        <3>4. CASE SpeciesForms
            BY <3>4 DEF SpeciesForms, Query
        <3> QED BY <1>1, <3>1, <3>2, <3>3, <3>4
    <2> QED BY <2>1, <2>2, OtherStep
<1>2. CASE DexNumbers \/ DexEntries \/ Evolution \/ Moves \/ Abilities \/ DetailReply
    <2>1. req # Idle /\ req.ep \in {"pokemon", "species"}
        BY <1>2 DEF DexNumbers, DexEntries, Evolution, Moves, Abilities, DetailReply, Detailing
    <2>2. (\E rows : Read(rows)) \/ (\E status, body : Reply(status, body))
        <3>1. CASE DexNumbers
            BY <3>1 DEF DexNumbers, Query
        <3>2. CASE DexEntries
            BY <3>2 DEF DexEntries, Query
        <3>3. CASE Evolution
            BY <3>3 DEF Evolution, Query
        <3>4. CASE Moves
            BY <3>4 DEF Moves, Query
        <3>5. CASE Abilities
            BY <3>5 DEF Abilities, Query
        <3>6. CASE DetailReply
            BY <3>6 DEF DetailReply
        <3> QED BY <1>2, <3>1, <3>2, <3>3, <3>4, <3>5, <3>6
    <2> QED BY <2>1, <2>2, OtherStep
<1>3. CASE \E ep \in DetailPages : PageRow(ep)
    <2>1. PICK ep \in DetailPages : PageRow(ep)
        BY <1>3
    <2>2. req # Idle /\ req.ep \in DetailPages
        BY <2>1 DEF PageRow, Serving
    <2>3. (\E rows : Read(rows)) \/ (\E status, body : Reply(status, body))
        BY <2>1 DEF PageRow, QueryOne
    <2> QED BY <2>2, <2>3, OtherStep DEF DetailPages
<1>4. CASE MoveRest \/ AbilityRest \/ ItemRest
    <2>1. req # Idle /\ req.ep \in {"move", "ability", "item"}
        BY <1>4 DEF MoveRest, AbilityRest, ItemRest, ThenQuery, Serving
    <2>2. (\E rows : Read(rows)) \/ (\E status, body : Reply(status, body))
        <3>1. CASE MoveRest
            BY <3>1 DEF MoveRest, ThenQuery, Query
        <3>2. CASE AbilityRest
            BY <3>2 DEF AbilityRest, ThenQuery, Query
        <3>3. CASE ItemRest
            BY <3>3 DEF ItemRest, ThenQuery, Query
        <3> QED BY <1>4, <3>1, <3>2, <3>3
    <2> QED BY <2>1, <2>2, OtherStep
<1>5. CASE BadFormat
    <2>1. req # Idle /\ req.ep = "holdable"
        BY <1>5 DEF BadFormat, Serving
    <2>2. \E status, body : Reply(status, body)
        BY <1>5 DEF BadFormat
    <2> QED BY <2>1, <2>2, OtherStep
<1>6. CASE \E ep \in ListPages : ListRows(ep) \/ ListReply(ep)
    <2>1. PICK ep \in ListPages : ListRows(ep) \/ ListReply(ep)
        BY <1>6
    <2>2. req # Idle /\ req.ep \in ListPages
        BY <2>1 DEF ListRows, ListReply, Serving
    <2>3. (\E rows : Read(rows)) \/ (\E status, body : Reply(status, body))
        <3>1. CASE ListRows(ep)
            BY <3>1 DEF ListRows, Query
        <3>2. CASE ListReply(ep)
            BY <3>2 DEF ListReply
        <3> QED BY <2>1, <3>1, <3>2
    <2> QED BY <2>2, <2>3, OtherStep DEF ListPages
<1> QED BY <1>1, <1>2, <1>3, <1>4, <1>5, <1>6

LEMMA TeamStep ==
    ASSUME Inv, \/ TeamUnknown \/ TeamNational \/ TeamNationalReply
                \/ TeamByVersion \/ TeamReply \/ \E k \in 1 .. 5 : TeamRegion(k)
    PROVE  Inv'
<1>1. req # Idle /\ req.ep = "team"
    BY DEF TeamUnknown, TeamNational, TeamNationalReply, TeamByVersion, TeamReply,
           TeamRegion, Serving
<1>2. ASSUME NEW status, NEW body, Reply(status, body), status # 200 PROVE Inv'
    BY <1>1, <1>2, ReplyStep
<1>3. ASSUME NEW rows, NEW failed, Query(rows, failed), failed # 200,
             req.name \in DOMAIN versionGroups,
             rows = TeamRows(db, req.name, Len(req.got) + 1)
      PROVE  Inv'
    <2>1. CASE Read(rows)
        BY <1>1, <1>3, <2>1, ReadStep
    <2>2. CASE Reply(failed, Null)
        BY <1>2, <1>3, <2>2
    <2> QED BY <1>3, <2>1, <2>2 DEF Query
<1>4. "national" \in DOMAIN versionGroups
    BY Rows DEF versionGroups
<1>5. TeamRegions(req.name) # <<>> =>
          req.name \in DOMAIN versionGroups /\ req.name # "national"
    BY DEF TeamRegions
<1>6. CASE TeamUnknown
    BY <1>2, <1>6 DEF TeamUnknown
<1>7. CASE TeamNational
    <2>1. /\ req.name = "national" /\ Len(req.got) = 0
          /\ Query(NationalRows(db), 400)
        BY <1>7 DEF TeamNational, Serving
    <2>2. NationalRows(db) = TeamRows(db, req.name, Len(req.got) + 1)
        BY <2>1 DEF TeamRows
    <2> QED BY <1>3, <1>4, <2>1, <2>2
<1>8. CASE TeamNationalReply
    <2>1. /\ req.name = "national" /\ Len(req.got) = 1
          /\ Reply(200, <<Group("National", req.got[1])>>)
        BY <1>8 DEF TeamNationalReply, Serving, Got
    <2>2. <<Group("National", req.got[1])>> = TeamBody(req.name, req.got)
        BY <2>1 DEF TeamBody
    <2>3. TeamSteps(req.name) = 1
        BY <2>1 DEF TeamSteps, TeamRegions
    <2> QED BY <1>1, <1>4, <2>1, <2>2, <2>3, ReplyStep
<1>9. ASSUME NEW k \in 1 .. 5, TeamRegion(k)
      PROVE  Inv'
    <2> DEFINE region == TeamRegions(req.name)[k]
               rows == GetTeamCandidatesByRegion(db, RegionGen[region], region)
    <2>1. /\ k \in DOMAIN TeamRegions(req.name) /\ Len(req.got) = k - 1
          /\ Query(rows, 400)
        BY <1>9 DEF TeamRegion, Serving
    <2>2. req.name \in DOMAIN versionGroups /\ req.name # "national"
        BY <1>5, <2>1
    <2>3. Len(req.got) + 1 = k
        BY <2>1
    <2>4. rows = TeamRows(db, req.name, k)
        BY <2>1, <2>2 DEF TeamRows
    <2> HIDE DEF rows
    <2> QED BY <1>3, <2>1, <2>2, <2>3, <2>4
<1>10. CASE TeamByVersion
    <2> DEFINE n == Len(TeamRegions(req.name))
               rows == GetTeamCandidatesNationalByVersionGroup(
                           db, versionGroups[req.name].gen, req.name)
    <2>1. /\ req.name \in DOMAIN versionGroups /\ req.name # "national"
          /\ Len(req.got) = n /\ Query(rows, 400)
        BY <1>10 DEF TeamByVersion, Serving
    <2>2. n \in Nat /\ DOMAIN TeamRegions(req.name) = 1 .. n
        BY <2>1, RegionsAre
    <2>3. n + 1 \notin DOMAIN TeamRegions(req.name)
        BY <2>2
    <2>4. rows = TeamRows(db, req.name, Len(req.got) + 1)
        BY <2>1, <2>3 DEF TeamRows
    <2> HIDE DEF rows
    <2> QED BY <1>3, <2>1, <2>4
<1>11. CASE TeamReply
    <2> DEFINE groups == RegionGroups(TeamRegions(req.name), req.got)
               national == Unseen(groups, req.got[Len(req.got)])
               body == IF national = <<>> THEN groups
                       ELSE Append(groups, Group("National", national))
    <2>1. /\ TeamRegions(req.name) # <<>> /\ Len(req.got) = TeamSteps(req.name)
          /\ Reply(200, body)
        BY <1>11 DEF TeamReply, Serving, Got, TeamSteps
    <2>2. req.name \in DOMAIN versionGroups /\ req.name # "national"
        BY <1>5, <2>1
    <2>3. body = TeamBody(req.name, req.got)
        BY <2>2 DEF TeamBody
    <2> HIDE DEF body
    <2> QED BY <1>1, <2>1, <2>2, <2>3, ReplyStep
<1> QED BY <1>6, <1>7, <1>8, <1>9, <1>10, <1>11

LEMMA CandidateStep ==
    ASSUME Inv, \/ CandidateUnknown \/ CandidateRow \/ CandidateAbilities
                \/ CandidateMoves \/ CandidateDescriptions \/ CandidateReply
    PROVE  Inv'
<1>1. req # Idle /\ req.ep = "candidate"
    BY DEF CandidateUnknown, CandidateRow, CandidateAbilities, CandidateMoves,
           CandidateDescriptions, CandidateReply, Serving
<1>2. ASSUME NEW status, NEW body, Reply(status, body), status # 200, status # 404
      PROVE  Inv'
    BY <1>1, <1>2, ReplyStep
<1>3. CASE CandidateUnknown
    BY <1>2, <1>3 DEF CandidateUnknown
<1>4. CASE CandidateRow
    <2> DEFINE rows == CandidateRows(db, req.name, req.id)
    <2>1. /\ req.name \in DOMAIN versionGroups /\ Len(req.got) = 0
          /\ QueryOne(rows)
        BY <1>4 DEF CandidateRow, CandidateRows, Serving
    <2>2. CASE rows # {} /\ Read(rows)
        BY <1>1, <2>1, <2>2, ReadStep
    <2>3. CASE rows = {} /\ Reply(404, Null)
        BY <1>1, <2>1, <2>3, ReplyStep
    <2>4. CASE Reply(500, Null)
        BY <1>2, <2>4
    <2> HIDE DEF rows
    <2> QED BY <2>1, <2>2, <2>3, <2>4 DEF QueryOne
<1>5. ASSUME NEW rows, Query(rows, 500), Len(req.got) = 1 \/ Len(req.got) = 2
      PROVE  Inv'
    <2>1. CASE Read(rows)
        <3>1. Len(req.got) # 0 /\ Len(req.got) # 3
            BY <1>5
        <3> QED BY <1>1, <2>1, <3>1, ReadStep
    <2>2. CASE Reply(500, Null)
        BY <1>2, <2>2
    <2> QED BY <1>5, <2>1, <2>2 DEF Query
<1>6. CASE CandidateAbilities
    BY <1>5, <1>6 DEF CandidateAbilities, Serving
<1>7. CASE CandidateMoves
    BY <1>5, <1>7 DEF CandidateMoves, Serving
<1>8. CASE CandidateDescriptions
    <2> DEFINE rows == GetCandidateMoveDescriptions(db, {m.move : m \in req.got[3]},
                           versionGroups[req.name].games)
    <2>1. Len(req.got) = 3 /\ Query(rows, 500)
        BY <1>8 DEF CandidateDescriptions, Serving, Got
    <2>2. CASE Read(rows)
        BY <1>1, <2>1, <2>2, ReadStep
    <2>3. CASE Reply(500, Null)
        BY <1>2, <2>3
    <2> HIDE DEF rows
    <2> QED BY <2>1, <2>2, <2>3 DEF Query
<1>9. CASE CandidateReply
    <2>1. PICK moves \in OneOfEachMove(req.got[3]) :
              Reply(200, buildCandidateDetail(One(req.got[1]), req.got[2], moves,
                             req.got[4], versionGroups[req.name].gen))
        BY <1>9 DEF CandidateReply, Got
    <2>2. Len(req.got) = 4
        BY <1>9 DEF CandidateReply, Serving
    <2> QED BY <1>1, <2>1, <2>2, ReplyStep
<1> QED BY <1>3, <1>4, <1>6, <1>7, <1>8, <1>9

LEMMA Invariance == Spec => []Inv
<1>1. Init => Inv
    BY DEF Init, Inv, Stages
<1>2. Inv /\ [Next]_vars => Inv'
    <2> SUFFICES ASSUME Inv, [Next]_vars PROVE Inv'
        OBVIOUS
    <2>1. CASE UNCHANGED vars
        BY <2>1 DEF vars, Inv
    <2>2. CASE Migrate
        BY <2>2, MigrateStep
    <2>3. CASE PokedexNext
        <3>1. \/ \E ep : Ask(ep)
              \/ DexUnknown \/ DexReply \/ DexNational \/ DexNationalReply
              \/ \E k \in 1 .. 5 : DexRegion(k)
              \/ TeamUnknown \/ TeamNational \/ TeamNationalReply
              \/ TeamByVersion \/ TeamReply \/ \E k \in 1 .. 5 : TeamRegion(k)
              \/ CandidateUnknown \/ CandidateRow \/ CandidateAbilities
              \/ CandidateMoves \/ CandidateDescriptions \/ CandidateReply
            BY <2>3, Zenon DEF PokedexNext
        <3> QED BY <3>1, AskStep, DexStep, TeamStep, CandidateStep
    <2>4. CASE PagesNext
        <3>1. \/ \E ep : Ask(ep)
              \/ PokemonRow \/ SpeciesOfForm \/ SpeciesRow \/ SpeciesForms
              \/ DexNumbers \/ DexEntries \/ Evolution \/ Moves \/ Abilities \/ DetailReply
              \/ \E ep \in DetailPages : PageRow(ep)
              \/ MoveRest \/ AbilityRest \/ ItemRest \/ BadFormat
              \/ \E ep \in ListPages : ListRows(ep) \/ ListReply(ep)
            BY <2>4, Zenon DEF PagesNext
        <3> QED BY <3>1, AskStep, PageStep
    <2> QED BY <2>1, <2>2, <2>3, <2>4 DEF Next
<1> QED BY <1>1, <1>2, PTL DEF Spec

-----------------------------------------------------------------------------
(* The invariant of the pages                                                *)

PokemonRows(d, q) ==
    IF q.name = "" THEN GetPokemon(d, q.id) ELSE GetPokemonByName(d, q.name)
CandidateMoveRows(d, q) ==
    IF q.name = "national" THEN GetCandidateMovesByIDs(d, {q.id})
    ELSE GetCandidateMovesByIDsAndVersion(d, {q.id}, q.name)

\* The query of a species request that answers its forms.
FormsAt(q) == IF q.name = "" /\ q.id > FormIdAbove THEN 3 ELSE 2
IdsOf(rows) == {rows[i].id : i \in DOMAIN rows}

\* Database d answered got[k] to query k of q, a request or what it became.
Fetched(d, q, got, k) ==
    /\ q.ep = "candidate" =>
        /\ k = 1 => /\ q.name \in DOMAIN versionGroups
                    /\ got[k] = CandidateRows(d, q.name, q.id) /\ got[k] # {}
        /\ k = 2 => got[k] = GetCandidateAbilitiesByIDs(d, {q.id})
        /\ k = 3 => got[k] = CandidateMoveRows(d, q)
    /\ q.ep = "pokemon" =>
        /\ k = 1 => got[k] = PokemonRows(d, q) /\ got[k] # {}
        /\ k = 5 => got[k] = GetPokemonMovesByIDs(d, {One(got[1]).id})
    /\ q.ep = "species" =>
        /\ k = FormsAt(q) => got[k] = GetPokemonBySpeciesID(d, One(got[k - 1]).id)
        /\ k = FormsAt(q) + 4 => got[k] = GetPokemonMovesByIDs(d, IdsOf(got[k - 4]))
    /\ q.ep = "move" =>
        /\ k = 3 => got[k] = GetMoveDescriptions(d, One(got[1]).id)
        /\ k = 4 => got[k] = GetPokemonLearnableMove(d, One(got[1]).id)
AllFetched(data, q, got, g, h) ==
    \A k \in 1 .. Len(got) : \E s : Between(g, s, h) /\ Fetched(data[s], q, got, k)

\* What the handlers make of the results.
Made(q, got, body) ==
    /\ q.ep = "candidate" =>
        /\ Len(got) = 4
        /\ \E moves \in OneOfEachMove(got[3]) :
               body = buildCandidateDetail(One(got[1]), got[2], moves, got[4],
                                           versionGroups[q.name].gen)
    /\ q.ep = "pokemon" =>
        /\ Len(got) = 6
        /\ body = buildDetails(<<One(got[1])>>, SubSeq(got, 2, 6))[1]
    /\ q.ep = "species" =>
        /\ Len(got) = FormsAt(q) + 5
        /\ body = [id |-> One(got[FormsAt(q) - 1]).id,
                   forms |-> buildDetails(got[FormsAt(q)],
                                          SubSeq(got, FormsAt(q) + 1, FormsAt(q) + 5))]
    /\ q.ep = "move" =>
        /\ Len(got) = 4
        /\ body = [row |-> One(got[1]), past |-> got[2], descriptions |-> got[3],
                   pokemon |-> groupPokemonLearnable(got[4])]
Told(data, a) == a.status = 200 =>
    \E got : AllFetched(data, a, got, a.began, a.ended) /\ Made(a, got, a.body)

\* A candidate's page is opened by its number.
Leads(a, q) == a.ep = "candidate" => q.ep = "pokemon" /\ q.name = "" /\ q.id = a.id

PageInv ==
    /\ req # Idle => AllFetched(scenario, req, req.got, req.began, stage)
    /\ answer # NoAnswer => Told(scenario, answer)
    /\ earlier # NoAnswer =>
           /\ Told(scenario, earlier)
           /\ req # Idle => Leads(earlier, req)
           /\ answer # NoAnswer => Leads(earlier, answer)

\* What is known of a result stays known as more results are read.
LEMMA FetchedLonger ==
    ASSUME NEW d, NEW q, NEW r, r.ep = q.ep, r.name = q.name, r.id = q.id,
           NEW got, NEW more, NEW n \in Nat, \A i \in 1 .. n : more[i] = got[i],
           NEW k \in 1 .. n, Fetched(d, q, got, k)
    PROVE  Fetched(d, r, more, k)
<1>1. more[k] = got[k]
    OBVIOUS
<1>2. 1 \in 1 .. n /\ more[1] = got[1]
    <2>1. 1 \in 1 .. n
        OBVIOUS
    <2> QED BY <2>1
<1>3. FormsAt(r) = FormsAt(q) /\ FormsAt(q) \in {2, 3}
    BY DEF FormsAt
<1>4. k = FormsAt(q) => more[k - 1] = got[k - 1]
    <2>1. k = FormsAt(q) => k - 1 \in 1 .. n
        BY <1>3
    <2> QED BY <2>1
<1>5. k = FormsAt(q) + 4 => more[k - 4] = got[k - 4]
    <2>1. k = FormsAt(q) + 4 => k - 4 \in 1 .. n
        BY <1>3
    <2> QED BY <2>1
<1>6. PokemonRows(d, r) = PokemonRows(d, q) /\ CandidateMoveRows(d, r) = CandidateMoveRows(d, q)
    BY DEF PokemonRows, CandidateMoveRows
<1> QED BY <1>1, <1>2, <1>3, <1>4, <1>5, <1>6 DEF Fetched

\* Rows arrive in the middle of a request.
LEMMA PageMigrate ==
    ASSUME Inv, PageInv, Migrate
    PROVE  PageInv'
<1>1. /\ stage' \in Stages /\ Till(stage, stage')
      /\ scenario' = scenario /\ req' = req /\ answer' = answer /\ earlier' = earlier
    BY DEF Inv, Migrate, Till, Stages
<1>2. \A g, s : Between(g, s, stage) => Between(g, s, stage')
    BY <1>1, TillTransitive DEF Between
<1>3. req # Idle => AllFetched(scenario, req, req.got, req.began, stage')
    BY <1>2 DEF PageInv, AllFetched
<1> QED BY <1>1, <1>3 DEF PageInv

\* A client asks, maybe for an entry of the last answer.
LEMMA PageAsk ==
    ASSUME Inv, PageInv, NEW ep, Ask(ep)
    PROVE  PageInv'
<1>1. PICK q \in scenario.asks :
        /\ req' = [ep |-> ep, name |-> q.name, id |-> Int32(q.id), began |-> stage,
                   got |-> <<>>]
        /\ earlier' = IF FollowsUp(answer, q) THEN answer ELSE NoAnswer
        /\ q.ep = ep
    BY DEF Ask
<1>2. answer' = NoAnswer /\ scenario' = scenario /\ stage' = stage
    BY DEF Ask
<1>3. AllFetched(scenario, req', req'.got, req'.began, stage)
    <2>1. req'.got = <<>> /\ Len(<<>>) = 0
        BY <1>1
    <2>2. Len(req'.got) = 0
        BY <2>1
    <2> QED BY <2>2 DEF AllFetched
<1>4. ASSUME earlier' # NoAnswer
      PROVE  Told(scenario, earlier') /\ Leads(earlier', req')
    <2>1. FollowsUp(answer, q) /\ earlier' = answer /\ answer # NoAnswer
        BY <1>1, <1>4
    <2>2. Told(scenario, answer)
        BY <2>1 DEF PageInv
    <2>3. answer.ep = "candidate" => q.ep = "pokemon" /\ q.name = "" /\ Int32(q.id) = answer.id
        BY <2>1 DEF FollowsUp
    <2>4. req'.ep = q.ep /\ req'.name = q.name /\ req'.id = Int32(q.id)
        BY <1>1
    <2> QED BY <2>1, <2>2, <2>3, <2>4 DEF Leads
<1> QED BY <1>2, <1>3, <1>4 DEF PageInv

\* A query of a request whose result is what this database answers.
LEMMA PageRead ==
    ASSUME Inv, PageInv, req # Idle, NEW rows, Read(rows),
           Fetched(db, req, Append(req.got, rows), Len(req.got) + 1)
    PROVE  PageInv'
<1>1. /\ scenario \in Scenarios /\ stage \in Stages
      /\ Asking(scenario, req, stage)
    BY DEF Inv
<1>2. /\ req' = [req EXCEPT !.got = Append(@, rows)]
      /\ scenario' = scenario /\ stage' = stage /\ answer' = answer /\ earlier' = earlier
    BY DEF Read
<1>3. /\ DOMAIN req' = {"ep", "name", "id", "began", "got"}
      /\ req'.ep = req.ep /\ req'.name = req.name /\ req'.id = req.id
      /\ req'.began = req.began /\ req'.got = Append(req.got, rows)
    BY <1>1, <1>2 DEF Asking
<1> DEFINE got == req.got
           more == req'.got
           n == Len(got)
<1>4. /\ n \in Nat /\ Len(more) = n + 1
      /\ \A k \in 1 .. n : more[k] = got[k]
    <2>1. PICK S : got \in Seq(S)
        BY <1>1 DEF Asking
    <2>2. got \in Seq(S \cup {rows}) /\ rows \in S \cup {rows}
        BY <2>1, SeqMonotonic
    <2>3. more = Append(got, rows)
        BY <1>3
    <2> HIDE DEF got, more
    <2> QED BY <2>2, <2>3, AppendProperties, LenProperties
<1>5. Between(req.began, stage, stage) /\ db = scenario[stage]
    BY <1>1 DEF Asking, Between, Till, db
<1>6. ASSUME NEW k \in 1 .. n + 1
      PROVE  \E s : Between(req.began, s, stage) /\ Fetched(scenario[s], req', more, k)
    <2>1. CASE k \in 1 .. n
        <3>1. PICK s : Between(req.began, s, stage) /\ Fetched(scenario[s], req, got, k)
            BY <2>1 DEF PageInv, AllFetched
        <3> HIDE DEF got, more, n
        <3>2. Fetched(scenario[s], req', more, k)
            BY <1>3, <1>4, <2>1, <3>1, FetchedLonger
        <3> QED BY <3>1, <3>2
    <2>2. CASE k = n + 1
        <3>1. Fetched(scenario[stage], req, more, k)
            BY <1>3, <1>5, <2>2
        <3> HIDE DEF got, more, n
        <3>2. n + 1 \in Nat /\ k \in 1 .. n + 1
            BY <1>4
        <3>3. Fetched(scenario[stage], req', more, k)
            BY <1>3, <3>1, <3>2, FetchedLonger
        <3> QED BY <1>5, <3>3
    <2> HIDE DEF n
    <2> QED BY <1>4, <2>1, <2>2
<1>7. AllFetched(scenario, req', more, req'.began, stage)
    BY <1>3, <1>4, <1>6 DEF AllFetched
<1>8. earlier # NoAnswer => Leads(earlier, req')
    BY <1>3 DEF PageInv, Leads
<1> QED BY <1>2, <1>7, <1>8 DEF PageInv

\* An answer made of the results.
LEMMA PageReply ==
    ASSUME Inv, PageInv, req # Idle, NEW status, NEW body, Reply(status, body),
           status = 200 => Made(req, req.got, body)
    PROVE  PageInv'
<1>1. /\ answer' = [status |-> status, body |-> body, ep |-> req.ep,
                    name |-> req.name, id |-> req.id,
                    began |-> req.began, ended |-> stage]
      /\ req' = Idle
      /\ scenario' = scenario /\ stage' = stage /\ earlier' = earlier
    BY DEF Reply
<1> DEFINE a == answer'
           got == req.got
<1>2. /\ a.status = status /\ a.body = body /\ a.ep = req.ep /\ a.name = req.name
      /\ a.id = req.id /\ a.began = req.began /\ a.ended = stage
    BY <1>1
<1> HIDE DEF a
<1>3. AllFetched(scenario, req, got, req.began, stage)
    BY DEF PageInv
<1>4. Len(got) \in Nat
    BY LenProperties DEF Inv, Asking
<1>5. AllFetched(scenario, a, got, a.began, a.ended)
    <2> SUFFICES ASSUME NEW k \in 1 .. Len(got)
                 PROVE  \E s : Between(a.began, s, a.ended) /\ Fetched(scenario[s], a, got, k)
        BY DEF AllFetched
    <2>1. PICK s : Between(req.began, s, stage) /\ Fetched(scenario[s], req, got, k)
        BY <1>3 DEF AllFetched
    <2> HIDE DEF got
    <2>2. Fetched(scenario[s], a, got, k)
        BY <1>2, <1>4, <2>1, FetchedLonger
    <2> QED BY <1>2, <2>1, <2>2
<1>6. status = 200 => Made(a, got, a.body)
    <2>1. FormsAt(a) = FormsAt(req)
        BY <1>2 DEF FormsAt
    <2> QED BY <1>2, <2>1 DEF Made
<1>7. Told(scenario, a)
    BY <1>2, <1>5, <1>6 DEF Told
<1>8. earlier # NoAnswer => Leads(earlier, a)
    BY <1>2 DEF PageInv, Leads
<1> QED BY <1>1, <1>7, <1>8 DEF PageInv, a

\* A result is read behind the results before it.
LEMMA Appended ==
    ASSUME Inv, req # Idle, NEW rows
    PROVE  LET n == Len(req.got)
               more == Append(req.got, rows)
           IN n \in Nat /\ more[n + 1] = rows /\ \A i \in 1 .. n : more[i] = req.got[i]
<1> DEFINE got == req.got
           more == Append(got, rows)
<1>1. PICK S : got \in Seq(S)
    BY DEF Inv, Asking
<1>2. got \in Seq(S \cup {rows}) /\ rows \in S \cup {rows}
    BY <1>1, SeqMonotonic
<1> HIDE DEF got
<1>3. Len(got) \in Nat /\ more[Len(got) + 1] = rows /\ \A i \in 1 .. Len(got) : more[i] = got[i]
    BY <1>2, AppendProperties, LenProperties
<1> QED BY <1>3 DEF got

\* A query whose answer the invariant keeps.
LEMMA PageQuery ==
    ASSUME Inv, PageInv, req # Idle, NEW rows, NEW failed, failed # 200, Query(rows, failed),
           Fetched(db, req, Append(req.got, rows), Len(req.got) + 1)
    PROVE  PageInv'
<1>1. CASE Read(rows)
    BY <1>1, PageRead
<1>2. CASE Reply(failed, Null)
    BY <1>2, PageReply
<1> QED BY <1>1, <1>2 DEF Query

\* A query for one row.
LEMMA PageQueryOne ==
    ASSUME Inv, PageInv, req # Idle, NEW rows, QueryOne(rows),
           rows # {} => Fetched(db, req, Append(req.got, rows), Len(req.got) + 1)
    PROVE  PageInv'
<1>1. CASE rows # {} /\ Read(rows)
    BY <1>1, PageRead
<1>2. CASE Reply(404, Null)
    BY <1>2, PageReply
<1>3. CASE Reply(500, Null)
    BY <1>3, PageReply
<1> QED BY <1>1, <1>2, <1>3 DEF QueryOne

\* A step of a request of which this invariant says nothing.
LEMMA UntoldStep ==
    ASSUME Inv, PageInv, req # Idle, req.ep \notin {"candidate", "pokemon", "species", "move"},
           (\E rows : Read(rows)) \/ (\E status, body : Reply(status, body))
    PROVE  PageInv'
<1>1. \A d, got, k, body : Fetched(d, req, got, k) /\ Made(req, got, body)
    BY DEF Fetched, Made
<1> QED BY <1>1, PageRead, PageReply

\* The steps of a candidate's request.
LEMMA PageCandidate ==
    ASSUME Inv, PageInv, \/ CandidateUnknown \/ CandidateRow \/ CandidateAbilities
                         \/ CandidateMoves \/ CandidateDescriptions \/ CandidateReply
    PROVE  PageInv'
<1>1. req # Idle /\ req.ep = "candidate"
    BY DEF CandidateUnknown, CandidateRow, CandidateAbilities, CandidateMoves,
           CandidateDescriptions, CandidateReply, Serving
<1> DEFINE more(rows) == Append(req.got, rows)
<1>2. ASSUME NEW rows
      PROVE  Len(req.got) \in Nat /\ more(rows)[Len(req.got) + 1] = rows
    BY <1>1, Appended
<1> HIDE DEF more
<1>3. CASE CandidateUnknown
    <2>1. Reply(400, Null)
        BY <1>3 DEF CandidateUnknown
    <2> QED BY <1>1, <2>1, PageReply
<1>4. CASE CandidateRow
    <2> DEFINE rows == CandidateRows(db, req.name, req.id)
    <2>1. /\ req.name \in DOMAIN versionGroups /\ Len(req.got) = 0
          /\ QueryOne(rows)
        BY <1>4 DEF CandidateRow, CandidateRows, Serving
    <2> DEFINE r == rows
    <2>2. r = CandidateRows(db, req.name, req.id)
        OBVIOUS
    <2> HIDE DEF rows, r
    <2>3. rows # {} => Fetched(db, req, more(rows), Len(req.got) + 1)
        BY <1>1, <1>2, <2>1, <2>2 DEF Fetched, r
    <2> QED BY <1>1, <2>1, <2>3, PageQueryOne DEF more
<1>5. ASSUME NEW rows, Query(rows, 500), Fetched(db, req, more(rows), Len(req.got) + 1)
      PROVE  PageInv'
    BY <1>1, <1>5, PageQuery DEF more
<1>6. CASE CandidateAbilities
    <2> DEFINE rows == GetCandidateAbilitiesByIDs(db, {req.id})
    <2>1. Len(req.got) = 1 /\ Query(rows, 500)
        BY <1>6 DEF CandidateAbilities, Serving
    <2>2. more(rows)[2] = GetCandidateAbilitiesByIDs(db, {req.id})
        BY <1>2, <2>1
    <2> HIDE DEF rows
    <2>3. Fetched(db, req, more(rows), 2)
        BY <1>1, <2>2 DEF Fetched
    <2> QED BY <1>5, <2>1, <2>3
<1>7. CASE CandidateMoves
    <2> DEFINE rows == CandidateMoveRows(db, req)
    <2>1. Len(req.got) = 2 /\ Query(rows, 500)
        BY <1>7 DEF CandidateMoves, Serving, CandidateMoveRows
    <2>2. more(rows)[3] = CandidateMoveRows(db, req)
        BY <1>2, <2>1
    <2> HIDE DEF rows
    <2>3. Fetched(db, req, more(rows), 3)
        BY <1>1, <2>2 DEF Fetched
    <2> QED BY <1>5, <2>1, <2>3
<1>8. CASE CandidateDescriptions
    <2> DEFINE rows == GetCandidateMoveDescriptions(db, {m.move : m \in req.got[3]},
                           versionGroups[req.name].games)
    <2>1. Len(req.got) = 3 /\ Query(rows, 500)
        BY <1>8 DEF CandidateDescriptions, Serving, Got
    <2> HIDE DEF rows
    <2>2. Fetched(db, req, more(rows), 4)
        BY <1>1 DEF Fetched
    <2> QED BY <1>5, <2>1, <2>2
<1>9. CASE CandidateReply
    <2>1. PICK moves \in OneOfEachMove(req.got[3]) :
              Reply(200, buildCandidateDetail(One(req.got[1]), req.got[2], moves,
                             req.got[4], versionGroups[req.name].gen))
        BY <1>9 DEF CandidateReply, Got
    <2>2. Len(req.got) = 4
        BY <1>9 DEF CandidateReply, Serving
    <2>3. Made(req, req.got, buildCandidateDetail(One(req.got[1]), req.got[2], moves,
                                 req.got[4], versionGroups[req.name].gen))
        BY <1>1, <2>2 DEF Made
    <2> QED BY <1>1, <2>1, <2>3, PageReply
<1> QED BY <1>3, <1>4, <1>6, <1>7, <1>8, <1>9

\* The queries of a Pokemon's or a species' page.
LEMMA PageRows ==
    ASSUME Inv, PageInv, PokemonRow \/ SpeciesOfForm \/ SpeciesRow \/ SpeciesForms
    PROVE  PageInv'
<1>1. req # Idle
    BY DEF PokemonRow, SpeciesOfForm, SpeciesRow, SpeciesForms, Serving
<1> DEFINE more(rows) == Append(req.got, rows)
           n == Len(req.got)
<1>2. ASSUME NEW rows
      PROVE  n \in Nat /\ more(rows)[n + 1] = rows /\ \A i \in 1 .. n : more(rows)[i] = req.got[i]
    BY <1>1, Appended
<1> HIDE DEF more
<1>3. CASE PokemonRow
    <2> DEFINE rows == PokemonRows(db, req)
    <2>1. req.ep = "pokemon" /\ n = 0 /\ QueryOne(rows)
        BY <1>3 DEF PokemonRow, Serving, Either, ByNumber, PokemonRows
    <2>2. more(rows)[1] = PokemonRows(db, req)
        BY <1>2, <2>1
    <2>3. rows # {} => more(rows)[1] # {}
        BY <1>2, <2>1
    <2> HIDE DEF rows
    <2>4. rows # {} => Fetched(db, req, more(rows), n + 1)
        BY <2>1, <2>2, <2>3 DEF Fetched
    <2> QED BY <1>1, <2>1, <2>4, PageQueryOne DEF more
<1>4. FormsAt(req) = IF Resolves THEN 3 ELSE 2
    BY DEF FormsAt, Resolves, ByNumber
<1>5. ASSUME NEW rows, QueryOne(rows), req.ep = "species",
             n = 0 \/ (n = 1 /\ Resolves)
      PROVE  PageInv'
    <2>1. n + 1 # FormsAt(req) /\ n + 1 # FormsAt(req) + 4
        <3>1. CASE n = 0
            BY <1>4, <3>1
        <3>2. CASE n = 1 /\ Resolves
            <4>1. FormsAt(req) = 3
                BY <1>4, <3>2
            <4> QED BY <3>2, <4>1
        <3> QED BY <1>5, <3>1, <3>2
    <2>2. Fetched(db, req, more(rows), n + 1)
        BY <1>5, <2>1 DEF Fetched
    <2> QED BY <1>1, <1>5, <2>2, PageQueryOne DEF more
<1>6. CASE SpeciesOfForm
    <2>1. req.ep = "species" /\ n = 0 /\ \E rows : QueryOne(rows)
        BY <1>6 DEF SpeciesOfForm, Serving
    <2> QED BY <1>5, <2>1
<1>7. CASE SpeciesRow
    <2>1. req.ep = "species" /\ (n = 0 \/ (n = 1 /\ Resolves)) /\ \E rows : QueryOne(rows)
        BY <1>7 DEF SpeciesRow, Serving
    <2> QED BY <1>5, <2>1
<1>8. CASE SpeciesForms
    <2> DEFINE rows == GetPokemonBySpeciesID(db, One(req.got[n]).id)
    <2>1. req.ep = "species" /\ n + 1 = FormsAt(req) /\ n \in 1 .. n /\ Query(rows, 500)
        <3>1. req.ep = "species" /\ n = (IF Resolves THEN 2 ELSE 1) /\ Query(rows, 500)
            BY <1>8 DEF SpeciesForms, Serving, Got
        <3> QED BY <1>4, <3>1
    <2>2. more(rows)[n + 1] = GetPokemonBySpeciesID(db, One(more(rows)[n]).id)
        BY <1>2, <2>1
    <2>3. n = FormsAt(req) - 1 /\ FormsAt(req) \in {2, 3}
        BY <1>2, <1>4, <2>1
    <2> HIDE DEF rows, n
    <2>4. Fetched(db, req, more(rows), FormsAt(req))
        BY <2>1, <2>2, <2>3 DEF Fetched
    <2> QED BY <1>1, <2>1, <2>4, PageQuery DEF more, n
<1> QED BY <1>3, <1>6, <1>7, <1>8

\* The queries of buildDetails, and the answer made of them.
LEMMA PageDetails ==
    ASSUME Inv, PageInv,
           DexNumbers \/ DexEntries \/ Evolution \/ Moves \/ Abilities \/ DetailReply
    PROVE  PageInv'
<1>1. req # Idle /\ req.ep \in {"pokemon", "species"}
    BY DEF DexNumbers, DexEntries, Evolution, Moves, Abilities, DetailReply, Detailing
<1> DEFINE more(rows) == Append(req.got, rows)
           n == Len(req.got)
           f == FormsAt(req)
<1>2. ASSUME NEW rows
      PROVE  n \in Nat /\ more(rows)[n + 1] = rows /\ \A i \in 1 .. n : more(rows)[i] = req.got[i]
    BY <1>1, Appended
<1>3. f \in {2, 3} /\ BeforeDetails = IF req.ep = "pokemon" THEN 1 ELSE f
    BY DEF BeforeDetails, FormsAt, Resolves, ByNumber
<1>4. Ids = IF req.ep = "pokemon" THEN {One(req.got[1]).id} ELSE IdsOf(req.got[f])
    <2>1. CASE req.ep = "pokemon"
        <3>1. Batch = <<One(req.got[1])>>
            BY <2>1 DEF Batch, Got
        <3>2. DOMAIN Batch = {1} /\ Batch[1] = One(req.got[1])
            BY <3>1
        <3> QED BY <2>1, <3>2 DEF Ids
    <2>2. CASE req.ep # "pokemon"
        <3>1. Batch = req.got[f]
            BY <1>3, <2>2 DEF Batch, Got
        <3> QED BY <2>2, <3>1 DEF Ids, IdsOf
    <2> QED BY <2>1, <2>2
<1> HIDE DEF more, f
<1>5. ASSUME NEW rows, NEW k \in {0, 1, 2, 4}, Detailing(k), Query(rows, 500)
      PROVE  PageInv'
    <2>1. n = BeforeDetails + k
        BY <1>5 DEF Detailing
    <2>2. /\ req.ep = "pokemon" => n + 1 # 1 /\ n + 1 # 5
          /\ req.ep = "species" => n + 1 # f /\ n + 1 # f + 4
        BY <1>3, <2>1
    <2>3. Fetched(db, req, more(rows), n + 1)
        <3> HIDE DEF n
        <3> QED BY <1>1, <2>2 DEF Fetched, f
    <2> QED BY <1>1, <1>5, <2>3, PageQuery DEF more
<1>6. CASE DexNumbers
    BY <1>5, <1>6 DEF DexNumbers
<1>7. CASE DexEntries
    BY <1>5, <1>7 DEF DexEntries
<1>8. CASE Evolution
    BY <1>5, <1>8 DEF Evolution
<1>9. CASE Abilities
    BY <1>5, <1>9 DEF Abilities
<1>10. CASE Moves
    <2> DEFINE rows == GetPokemonMovesByIDs(db, Ids)
    <2>1. n = BeforeDetails + 3 /\ Query(rows, 500)
        BY <1>10 DEF Moves, Detailing
    <2> HIDE DEF rows
    <2>2. ASSUME req.ep = "pokemon"
          PROVE  more(rows)[n + 1] = GetPokemonMovesByIDs(db, {One(more(rows)[1]).id}) /\ n + 1 = 5
        <3>1. n = 4 /\ 1 \in 1 .. n
            BY <1>3, <2>1, <2>2
        <3>2. more(rows)[1] = req.got[1] /\ more(rows)[n + 1] = rows
            BY <1>2, <3>1
        <3> QED BY <1>4, <2>2, <3>1, <3>2 DEF rows
    <2>3. ASSUME req.ep = "species"
          PROVE  more(rows)[n + 1] = GetPokemonMovesByIDs(db, IdsOf(more(rows)[f])) /\ n + 1 = f + 4
        <3>1. n = f + 3 /\ f \in 1 .. n
            BY <1>3, <2>1, <2>3
        <3>2. more(rows)[f] = req.got[f] /\ more(rows)[n + 1] = rows
            BY <1>2, <3>1
        <3> QED BY <1>4, <2>3, <3>1, <3>2 DEF rows
    <2>4. Fetched(db, req, more(rows), n + 1)
        <3>1. CASE req.ep = "pokemon"
            BY <2>2, <3>1 DEF Fetched
        <3>2. CASE req.ep = "species"
            <4> DEFINE k == n + 1
            <4>1. k = f + 4 /\ k - 4 = f /\ k # f
                BY <1>3, <2>3, <3>2
            <4>2. more(rows)[k] = GetPokemonMovesByIDs(db, IdsOf(more(rows)[k - 4]))
                BY <2>3, <3>2, <4>1
            <4> HIDE DEF k
            <4>3. Fetched(db, req, more(rows), k)
                BY <3>2, <4>1, <4>2 DEF Fetched, f
            <4> QED BY <4>3 DEF k
        <3> QED BY <1>1, <3>1, <3>2
    <2> QED BY <1>1, <2>1, <2>4, PageQuery DEF more
<1>11. CASE DetailReply
    <2> DEFINE b == BeforeDetails
               details == buildDetails(Batch, SubSeq(req.got, b + 1, b + 5))
               body == IF req.ep = "pokemon" THEN details[1]
                       ELSE [id |-> One(req.got[b - 1]).id, forms |-> details]
    <2>1. n = b + 5 /\ Reply(200, body)
        BY <1>11 DEF DetailReply, Detailing, Got
    <2>2. Made(req, req.got, body)
        <3>1. CASE req.ep = "pokemon"
            <4>1. b = 1 /\ Batch = <<One(req.got[1])>>
                BY <1>3, <3>1 DEF Batch, Got
            <4>2. b + 1 = 2 /\ b + 5 = 6
                BY <4>1
            <4>3. body = buildDetails(<<One(req.got[1])>>, SubSeq(req.got, 2, 6))[1]
                <5> HIDE DEF b
                <5> QED BY <3>1, <4>1, <4>2
            <4> HIDE DEF body, b
            <4> QED BY <2>1, <3>1, <4>1, <4>3 DEF Made
        <3>2. CASE req.ep = "species"
            <4>1. b = FormsAt(req) /\ Batch = req.got[FormsAt(req)]
                BY <1>3, <3>2 DEF Batch, Got, f
            <4>2. body = [id |-> One(req.got[FormsAt(req) - 1]).id,
                          forms |-> buildDetails(req.got[FormsAt(req)],
                              SubSeq(req.got, FormsAt(req) + 1, FormsAt(req) + 5))]
                <5> HIDE DEF b
                <5> QED BY <3>2, <4>1
            <4> HIDE DEF body, b
            <4> QED BY <2>1, <3>2, <4>1, <4>2 DEF Made
        <3> QED BY <1>1, <3>1, <3>2
    <2> HIDE DEF body
    <2> QED BY <1>1, <2>1, <2>2, PageReply
<1> QED BY <1>6, <1>7, <1>8, <1>9, <1>10, <1>11

\* The steps of a move's request.
LEMMA PageMove ==
    ASSUME Inv, PageInv, PageRow("move") \/ MoveRest
    PROVE  PageInv'
<1>1. req # Idle /\ req.ep = "move"
    BY DEF PageRow, MoveRest, ThenQuery, Serving
<1> DEFINE more(rows) == Append(req.got, rows)
           n == Len(req.got)
<1>2. ASSUME NEW rows
      PROVE  n \in Nat /\ more(rows)[n + 1] = rows /\ \A i \in 1 .. n : more(rows)[i] = req.got[i]
    BY <1>1, Appended
<1> HIDE DEF more
<1>3. CASE PageRow("move")
    <2>1. n = 0 /\ \E rows : QueryOne(rows)
        BY <1>3 DEF PageRow, Serving
    <2>2. \A rows : Fetched(db, req, more(rows), n + 1)
        BY <1>1, <2>1 DEF Fetched
    <2> QED BY <1>1, <2>1, <2>2, PageQueryOne DEF more
<1>4. ASSUME ThenQuery("move", 1, LAMBDA id : GetPastMoveValues(db, id)) PROVE PageInv'
    <2>1. n = 1 /\ \E rows : Query(rows, 500)
        BY <1>4 DEF ThenQuery, Serving
    <2>2. \A rows : Fetched(db, req, more(rows), n + 1)
        BY <1>1, <2>1 DEF Fetched
    <2> QED BY <1>1, <2>1, <2>2, PageQuery DEF more
<1>5. ASSUME ThenQuery("move", 2, LAMBDA id : GetMoveDescriptions(db, id)) PROVE PageInv'
    <2> DEFINE rows == GetMoveDescriptions(db, One(req.got[1]).id)
    <2>1. n = 2 /\ Query(rows, 500)
        BY <1>5 DEF ThenQuery, Serving, Got
    <2>2. more(rows)[3] = GetMoveDescriptions(db, One(more(rows)[1]).id)
        BY <1>2, <2>1
    <2> HIDE DEF rows
    <2>3. Fetched(db, req, more(rows), n + 1)
        BY <1>1, <2>1, <2>2 DEF Fetched
    <2> QED BY <1>1, <2>1, <2>3, PageQuery DEF more
<1>6. ASSUME ThenQuery("move", 3, LAMBDA id : GetPokemonLearnableMove(db, id)) PROVE PageInv'
    <2> DEFINE rows == GetPokemonLearnableMove(db, One(req.got[1]).id)
    <2>1. n = 3 /\ Query(rows, 500)
        BY <1>6 DEF ThenQuery, Serving, Got
    <2>2. more(rows)[4] = GetPokemonLearnableMove(db, One(more(rows)[1]).id)
        BY <1>2, <2>1
    <2> HIDE DEF rows
    <2>3. Fetched(db, req, more(rows), n + 1)
        BY <1>1, <2>1, <2>2 DEF Fetched
    <2> QED BY <1>1, <2>1, <2>3, PageQuery DEF more
<1>7. ASSUME Serving("move", 4),
             Reply(200, [row |-> One(Got(1)), past |-> Got(2), descriptions |-> Got(3),
                         pokemon |-> groupPokemonLearnable(Got(4))])
      PROVE  PageInv'
    <2> DEFINE body == [row |-> One(req.got[1]), past |-> req.got[2],
                        descriptions |-> req.got[3],
                        pokemon |-> groupPokemonLearnable(req.got[4])]
    <2>1. n = 4 /\ Reply(200, body)
        BY <1>7 DEF Serving, Got
    <2>2. Made(req, req.got, body)
        BY <1>1, <2>1 DEF Made
    <2> HIDE DEF body
    <2> QED BY <1>1, <2>1, <2>2, PageReply
<1>8. CASE MoveRest
    BY <1>4, <1>5, <1>6, <1>7, <1>8 DEF MoveRest
<1> QED BY <1>3, <1>8

\* The steps of the Pokedexes and the team lists.
LEMMA PageDexTeam ==
    ASSUME Inv, PageInv,
           \/ DexUnknown \/ DexReply \/ DexNational \/ DexNationalReply
           \/ \E k \in 1 .. 5 : DexRegion(k) \/ TeamRegion(k)
           \/ TeamUnknown \/ TeamNational \/ TeamNationalReply \/ TeamByVersion \/ TeamReply
    PROVE  PageInv'
<1>1. req # Idle /\ req.ep \in {"dex", "team"}
    BY DEF DexUnknown, DexReply, DexNational, DexNationalReply, DexRegion, TeamRegion,
           TeamUnknown, TeamNational, TeamNationalReply, TeamByVersion, TeamReply, Serving
<1>2. (\E rows : Read(rows)) \/ (\E status, body : Reply(status, body))
    <2>1. CASE DexUnknown \/ DexReply \/ DexNationalReply
        BY <2>1 DEF DexUnknown, DexReply, DexNationalReply
    <2>2. CASE DexNational
        BY <2>2 DEF DexNational, Query
    <2>3. CASE TeamUnknown \/ TeamNationalReply \/ TeamReply
        BY <2>3 DEF TeamUnknown, TeamNationalReply, TeamReply
    <2>4. CASE TeamNational
        BY <2>4 DEF TeamNational, Query
    <2>5. CASE TeamByVersion
        BY <2>5 DEF TeamByVersion, Query
    <2>6. ASSUME NEW k, DexRegion(k) PROVE <1>2!:
        BY <2>6 DEF DexRegion, Query
    <2>7. ASSUME NEW k, TeamRegion(k) PROVE <1>2!:
        BY <2>7 DEF TeamRegion, Query
    <2> QED BY <2>1, <2>2, <2>3, <2>4, <2>5, <2>6, <2>7
<1> QED BY <1>1, <1>2, UntoldStep

\* The steps of the other pages and lists.
LEMMA PageOthers ==
    ASSUME Inv, PageInv,
           \/ PageRow("ability") \/ PageRow("item") \/ AbilityRest \/ ItemRest \/ BadFormat
           \/ \E ep \in ListPages : ListRows(ep) \/ ListReply(ep)
    PROVE  PageInv'
<1>1. req # Idle /\ req.ep \in {"ability", "item"} \cup ListPages
    BY DEF PageRow, AbilityRest, ItemRest, ThenQuery, BadFormat, ListRows, ListReply, Serving,
           ListPages
<1>2. (\E rows : Read(rows)) \/ (\E status, body : Reply(status, body))
    <2>1. ASSUME NEW ep, PageRow(ep) PROVE <1>2!:
        BY <2>1 DEF PageRow, QueryOne
    <2>2. CASE AbilityRest
        BY <2>2 DEF AbilityRest, ThenQuery, Query
    <2>3. CASE ItemRest
        BY <2>3 DEF ItemRest, ThenQuery, Query
    <2>4. CASE BadFormat
        BY <2>4 DEF BadFormat
    <2>5. ASSUME NEW ep, ListRows(ep) \/ ListReply(ep) PROVE <1>2!:
        BY <2>5 DEF ListRows, ListReply, Query
    <2> QED BY <2>1, <2>2, <2>3, <2>4, <2>5
<1> QED BY <1>1, <1>2, UntoldStep DEF ListPages

\* The invariant of the pages, on top of the one above.
LEMMA PageInvariance == Spec => []PageInv
<1>1. Init => PageInv
    BY DEF Init, PageInv
<1>2. Inv /\ PageInv /\ [Next]_vars => PageInv'
    <2> SUFFICES ASSUME Inv, PageInv, [Next]_vars PROVE PageInv'
        OBVIOUS
    <2>1. CASE UNCHANGED vars
        BY <2>1 DEF vars, PageInv
    <2>2. CASE Migrate
        BY <2>2, PageMigrate
    <2>3. CASE PokedexNext
        <3>1. \/ \E ep : Ask(ep)
              \/ \/ DexUnknown \/ DexReply \/ DexNational \/ DexNationalReply
                 \/ \E k \in 1 .. 5 : DexRegion(k) \/ TeamRegion(k)
                 \/ TeamUnknown \/ TeamNational \/ TeamNationalReply \/ TeamByVersion \/ TeamReply
              \/ \/ CandidateUnknown \/ CandidateRow \/ CandidateAbilities
                 \/ CandidateMoves \/ CandidateDescriptions \/ CandidateReply
            BY <2>3, Zenon DEF PokedexNext
        <3> QED BY <3>1, PageAsk, PageDexTeam, PageCandidate
    <2>4. CASE PagesNext
        <3>1. \/ \E ep : Ask(ep)
              \/ PokemonRow \/ SpeciesOfForm \/ SpeciesRow \/ SpeciesForms
              \/ DexNumbers \/ DexEntries \/ Evolution \/ Moves \/ Abilities \/ DetailReply
              \/ \E ep \in DetailPages : PageRow(ep)
              \/ MoveRest \/ AbilityRest \/ ItemRest \/ BadFormat
              \/ \E ep \in ListPages : ListRows(ep) \/ ListReply(ep)
            BY <2>4, Zenon DEF PagesNext
        <3>2. (\E ep \in DetailPages : PageRow(ep)) =>
                  PageRow("move") \/ PageRow("ability") \/ PageRow("item")
            BY DEF DetailPages
        <3> QED BY <3>1, <3>2, PageAsk, PageRows, PageDetails, PageMove, PageOthers
    <2> QED BY <2>1, <2>2, <2>3, <2>4 DEF Next
<1> QED BY <1>1, <1>2, Invariance, PTL DEF Spec

-----------------------------------------------------------------------------
(* What the invariant says of an answer                                      *)

\* A moment in the middle of an answer: the rows of its beginning are there,
\* and no row that is not at its end.
LEMMA Meantime ==
    ASSUME NEW data \in Scenarios, NEW a, a.began \in Stages, a.ended \in Stages,
           NEW s, During(s, a)
    PROVE  /\ s \in Stages /\ (s = a.began \/ s = a.ended)
           /\ Within(data[a.began], data[s]) /\ Within(data[s], data[a.ended])
           /\ Keyed(data[s]) /\ Linked(data[s]) /\ Shipped(data[s])
           /\ IsFiniteSet(data[s].movedetails) /\ IsFiniteSet(data[s].abilitydetails)
           /\ IsFiniteSet(data[s].movedescriptions)
<1>1. s \in Stages /\ Till(a.began, s) /\ Till(s, a.ended)
    BY DEF During, Between
<1>2. s = a.began \/ s = a.ended
    BY <1>1 DEF Till, Stages
<1> QED BY <1>1, <1>2, DataGrows, DataKeyed, DataLinked

\* A page of a Pokemon, from a moment of the answer: no move is missing or made up.
PageFrom(data, a, page) == \E s : During(s, a) /\ PageOf(data[s], page)
OwnPage(a) == a.name = "" => a.body.id = a.id
\* The forms of a species, from a moment of the answer.
FormsFrom(data, a) ==
    \E s : During(s, a) /\ {a.body.forms[i].id : i \in DOMAIN a.body.forms} =
               {p.id : p \in {q \in data[s].pokemon : q.species = a.body.id}}

\* Each result was answered at a moment of the answer.
LEMMA FetchedAt ==
    ASSUME NEW data, NEW a, NEW got, AllFetched(data, a, got, a.began, a.ended),
           NEW n \in Nat, Len(got) = n, NEW k \in 1 .. n
    PROVE  \E s : During(s, a) /\ Fetched(data[s], a, got, k)
BY DEF AllFetched, During

\* The moves are the fourth of the five results of buildDetails.
LEMMA FourthOf ==
    ASSUME NEW got, NEW m \in Nat
    PROVE  SubSeq(got, m, m + 4)[4] = got[m + 3]
<1> DEFINE S == {got[i] : i \in m .. m + 4}
           n == m + 4
<1>1. \A i \in m .. n : got[i] \in S
    OBVIOUS
<1> HIDE DEF S
<1>2. \A i \in 1 .. n - m + 1 : SubSeq(got, m, n)[i] = got[m + i - 1]
    BY <1>1, SubSeqProperties
<1>3. 4 \in 1 .. n - m + 1 /\ m + 4 - 1 = m + 3
    OBVIOUS
<1> HIDE DEF n
<1>4. SubSeq(got, m, n)[4] = got[m + 3]
    BY <1>2, <1>3
<1> QED BY <1>4 DEF n

\* A Pokemon's page is of one moment, and of the Pokemon asked for.
LEMMA PokemonPage ==
    ASSUME NEW data \in Scenarios, NEW a, a.began \in Stages, a.ended \in Stages,
           a.ep = "pokemon", a.status = 200, Told(data, a)
    PROVE  PageFrom(data, a, a.body) /\ OwnPage(a)
<1>1. PICK got : AllFetched(data, a, got, a.began, a.ended) /\ Made(a, got, a.body)
    BY DEF Told
<1> DEFINE p == One(got[1])
           r == SubSeq(got, 2, 6)
<1>2. Len(got) = 6 /\ a.body = buildDetails(<<p>>, r)[1]
    BY <1>1 DEF Made
<1>3. a.body = assembleDetail(p, r[1], r[2], r[3], r[4], r[5])
    <2> HIDE DEF p, r
    <2> QED BY <1>2 DEF buildDetails
<1>4. r[4] = got[5]
    <2>1. SubSeq(got, 2, 2 + 4)[4] = got[2 + 3]
        BY FourthOf
    <2> QED BY <2>1
<1> HIDE DEF p, r
<1>5. PICK s : During(s, a) /\ Fetched(data[s], a, got, 5)
    <2> DEFINE k == 5
               n == 6
    <2>1. n \in Nat /\ Len(got) = n /\ k \in 1 .. n
        BY <1>2
    <2> HIDE DEF k, n
    <2>2. \E s : During(s, a) /\ Fetched(data[s], a, got, k)
        BY <1>1, <2>1, FetchedAt
    <2> QED BY <2>2 DEF k
<1>6. got[5] = GetPokemonMovesByIDs(data[s], {p.id})
    BY <1>5 DEF Fetched, p
<1>7. PICK t : During(t, a) /\ Fetched(data[t], a, got, 1)
    <2> DEFINE k == 1
               n == 6
    <2>1. n \in Nat /\ Len(got) = n /\ k \in 1 .. n
        BY <1>2
    <2> HIDE DEF k, n
    <2>2. \E t : During(t, a) /\ Fetched(data[t], a, got, k)
        BY <1>1, <2>1, FetchedAt
    <2> QED BY <2>2 DEF k
<1>8. got[1] = PokemonRows(data[t], a) /\ got[1] # {}
    BY <1>7 DEF Fetched
<1>9. ASSUME a.name = "" PROVE p.id = a.id
    <2>1. p \in got[1]
        BY <1>8 DEF One, p
    <2>2. got[1] = {q \in data[t].pokemon : q.id = a.id}
        BY <1>8, <1>9 DEF PokemonRows, GetPokemon, ByID
    <2> HIDE DEF p
    <2> QED BY <2>1, <2>2
<1>10. a.body.id = p.id /\ PageOf(data[s], a.body)
    <2> DEFINE d == data[s]
    <2>1. /\ Keyed(d) /\ Linked(d) /\ Shipped(d) /\ IsFiniteSet(d.movedetails)
        BY <1>5, Meantime
    <2>2. a.body = assembleDetail(p, r[1], r[2], r[3], GetPokemonMovesByIDs(d, {p.id}), r[5])
        BY <1>3, <1>4, <1>6
    <2> HIDE DEF d
    <2>3. p.id \in {p.id}
        OBVIOUS
    <2>4. a.body.id = p.id /\ PageOf(d, a.body)
        BY <2>1, <2>2, <2>3, DetailIs
    <2> QED BY <2>4 DEF d
<1> QED BY <1>5, <1>9, <1>10 DEF PageFrom, OwnPage

\* A species' page has its forms, each with a page of one moment.
LEMMA SpeciesPages ==
    ASSUME NEW data \in Scenarios, NEW a, a.began \in Stages, a.ended \in Stages,
           a.ep = "species", a.status = 200, Told(data, a)
    PROVE  /\ FormsFrom(data, a)
           /\ \A i \in DOMAIN a.body.forms : PageFrom(data, a, a.body.forms[i])
<1>1. PICK got : AllFetched(data, a, got, a.began, a.ended) /\ Made(a, got, a.body)
    BY DEF Told
<1> DEFINE f == FormsAt(a)
           ps == got[f]
           r == SubSeq(got, f + 1, f + 5)
           forms == a.body.forms
<1>2. /\ Len(got) = f + 5 /\ a.body.id = One(got[f - 1]).id
      /\ forms = buildDetails(ps, r)
    BY <1>1 DEF Made
<1>3. f \in {2, 3}
    BY DEF FormsAt
<1>4. /\ DOMAIN forms = DOMAIN ps
      /\ \A i \in DOMAIN ps : forms[i] = assembleDetail(ps[i], r[1], r[2], r[3], r[4], r[5])
    <2> HIDE DEF ps, r, forms
    <2> QED BY <1>2 DEF buildDetails
<1>5. r[4] = got[f + 4]
    <2>1. f + 1 \in Nat /\ f + 1 + 4 = f + 5 /\ f + 1 + 3 = f + 4
        BY <1>3
    <2> HIDE DEF f
    <2>2. SubSeq(got, f + 1, f + 1 + 4)[4] = got[f + 1 + 3]
        BY <2>1, FourthOf
    <2> QED BY <2>1, <2>2
<1>6. PICK s : During(s, a) /\ Fetched(data[s], a, got, f)
    <2>1. f + 5 \in Nat /\ f \in 1 .. f + 5
        BY <1>3
    <2> QED BY <1>1, <1>2, <2>1, FetchedAt
<1>7. ps = GetPokemonBySpeciesID(data[s], a.body.id)
    BY <1>2, <1>6 DEF Fetched
<1>8. PICK t : During(t, a) /\ Fetched(data[t], a, got, f + 4)
    <2>1. f + 5 \in Nat /\ f + 4 \in 1 .. f + 5
        BY <1>3
    <2> QED BY <1>1, <1>2, <2>1, FetchedAt
<1>9. got[f + 4] = GetPokemonMovesByIDs(data[t], IdsOf(ps))
    <2> DEFINE k == f + 4
    <2>1. k - 4 = f /\ k = FormsAt(a) + 4
        BY <1>3
    <2> HIDE DEF k
    <2>2. Fetched(data[t], a, got, k)
        BY <1>8 DEF k
    <2>3. got[k] = GetPokemonMovesByIDs(data[t], IdsOf(got[k - 4]))
        BY <2>1, <2>2 DEF Fetched
    <2> QED BY <2>1, <2>3 DEF k
<1> DEFINE mine == {q \in data[s].pokemon : q.species = a.body.id}
<1>10. Shows(ps, mine)
    <2> DEFINE d == data[s]
    <2>1. Keyed(d)
        BY <1>6, Meantime
    <2> HIDE DEF d
    <2>2. Shows(GetPokemonBySpeciesID(d, a.body.id), {q \in d.pokemon : q.species = a.body.id})
        BY <2>1, FormsAre
    <2> QED BY <1>7, <2>2 DEF d
<1> HIDE DEF f, ps, r, forms, mine
<1>11. mine = {ps[i] : i \in DOMAIN ps}
    BY <1>10, ShownBy
<1>12. ASSUME NEW i \in DOMAIN ps
       PROVE  forms[i].id = ps[i].id /\ PageOf(data[t], forms[i])
    <2> DEFINE d == data[t]
    <2>1. Keyed(d) /\ Linked(d) /\ Shipped(d) /\ IsFiniteSet(d.movedetails)
        BY <1>8, Meantime
    <2>2. forms[i] = assembleDetail(ps[i], r[1], r[2], r[3],
                                    GetPokemonMovesByIDs(d, IdsOf(ps)), r[5])
        BY <1>4, <1>5, <1>9
    <2>3. ps[i].id \in IdsOf(ps)
        BY DEF IdsOf
    <2> HIDE DEF d
    <2>4. forms[i].id = ps[i].id /\ PageOf(d, forms[i])
        BY <2>1, <2>2, <2>3, DetailIs
    <2> QED BY <2>4 DEF d
<1>13. {forms[i].id : i \in DOMAIN forms} = {p.id : p \in mine}
    BY <1>4, <1>11, <1>12
<1>14. \A i \in DOMAIN forms : PageFrom(data, a, forms[i])
    BY <1>4, <1>8, <1>12 DEF PageFrom
<1>15. FormsFrom(data, a)
    BY <1>6, <1>13 DEF FormsFrom, forms, mine
<1> QED BY <1>14, <1>15 DEF forms

\* The four results of a candidate and of a move.
LEMMA FourFetched ==
    ASSUME NEW data, NEW a, NEW got, AllFetched(data, a, got, a.began, a.ended), Len(got) = 4
    PROVE  /\ \E s : During(s, a) /\ Fetched(data[s], a, got, 1)
           /\ \E s : During(s, a) /\ Fetched(data[s], a, got, 2)
           /\ \E s : During(s, a) /\ Fetched(data[s], a, got, 3)
           /\ \E s : During(s, a) /\ Fetched(data[s], a, got, 4)
<1> DEFINE n == 4
<1>1. n \in Nat /\ Len(got) = n /\ 1 \in 1 .. n /\ 2 \in 1 .. n /\ 3 \in 1 .. n /\ 4 \in 1 .. n
    OBVIOUS
<1> HIDE DEF n
<1> QED BY <1>1, FetchedAt

\* A move's learners and wordings are each of one moment.
LEMMA MovePage ==
    ASSUME NEW data \in Scenarios, NEW a, a.began \in Stages, a.ended \in Stages,
           a.ep = "move", a.status = 200, Told(data, a)
    PROVE  LET learners == a.body.pokemon
               wordings == a.body.descriptions
           IN /\ \E s : During(s, a) /\ LearnersOn(learners) = LearnersIn(data[s], a.body.row.id)
              /\ Ascending(Ranks([g \in DOMAIN learners |-> learners[g].of], LearnMethodOrder))
              /\ \E s : During(s, a) /\ WordedBy(wordings) =
                            WordingsIn(data[s].movedescriptions, a.body.row.id)
              /\ \A g, h \in DOMAIN wordings : g # h => wordings[g].text # wordings[h].text
              /\ Ascending(Ranks([g \in DOMAIN wordings |-> wordings[g].games[1]], GameOrder))
<1>1. PICK got : AllFetched(data, a, got, a.began, a.ended) /\ Made(a, got, a.body)
    BY DEF Told
<1> DEFINE id == One(got[1]).id
           learners == a.body.pokemon
           wordings == a.body.descriptions
<1>2. /\ Len(got) = 4 /\ a.body.row.id = id
      /\ wordings = got[3] /\ learners = groupPokemonLearnable(got[4])
    BY <1>1 DEF Made
<1>3. PICK s : During(s, a) /\ Fetched(data[s], a, got, 3)
    BY <1>1, <1>2, FourFetched
<1>4. wordings = GroupedDescriptions(data[s].movedescriptions, id)
    BY <1>2, <1>3 DEF Fetched, GetMoveDescriptions
<1>5. PICK t : During(t, a) /\ Fetched(data[t], a, got, 4)
    BY <1>1, <1>2, FourFetched
<1>6. learners = groupPokemonLearnable(GetPokemonLearnableMove(data[t], id))
    BY <1>2, <1>5 DEF Fetched
<1> HIDE DEF learners, wordings, id
<1>7. /\ LearnersOn(learners) = LearnersIn(data[t], id)
      /\ Ascending(Ranks([g \in DOMAIN learners |-> learners[g].of], LearnMethodOrder))
    <2> DEFINE d == data[t]
    <2>1. Keyed(d) /\ Linked(d) /\ IsFiniteSet(d.movedetails)
        BY <1>5, Meantime
    <2>2. learners = groupPokemonLearnable(GetPokemonLearnableMove(d, id))
        BY <1>6
    <2> HIDE DEF d
    <2>3. /\ LearnersOn(learners) = LearnersIn(d, id)
          /\ Ascending(Ranks([g \in DOMAIN learners |-> learners[g].of], LearnMethodOrder))
        BY <2>1, <2>2, LearnersAre
    <2> QED BY <2>3 DEF d
<1>8. /\ WordedBy(wordings) = WordingsIn(data[s].movedescriptions, id)
      /\ \A g, h \in DOMAIN wordings : g # h => wordings[g].text # wordings[h].text
      /\ Ascending(Ranks([g \in DOMAIN wordings |-> wordings[g].games[1]], GameOrder))
    <2> DEFINE table == data[s].movedescriptions
    <2>1. Linked(data[s]) /\ IsFiniteSet(table)
        BY <1>3, Meantime
    <2>2. /\ \A w \in table : Enumerates(GameOrder, w.version)
          /\ \A v, w \in table : v.of = w.of /\ v.version = w.version => v = w
        BY <2>1 DEF Linked
    <2>3. wordings = GroupedDescriptions(table, id)
        BY <1>4
    <2> HIDE DEF table
    <2>4. /\ WordedBy(wordings) = WordingsIn(table, id)
          /\ \A g, h \in DOMAIN wordings : g # h => wordings[g].text # wordings[h].text
          /\ Ascending(Ranks([g \in DOMAIN wordings |-> wordings[g].games[1]], GameOrder))
        BY <2>1, <2>2, <2>3, WordingsAre
    <2> QED BY <2>4 DEF table
<1> QED BY <1>2, <1>3, <1>5, <1>7, <1>8 DEF learners, wordings

\* A candidate's abilities are of one moment.
LEMMA CandidateAbilitiesShown ==
    ASSUME NEW data \in Scenarios, NEW a, a.began \in Stages, a.ended \in Stages,
           a.ep = "candidate", a.status = 200, Told(data, a)
    PROVE  \E s : /\ During(s, a)
                  /\ a.body.abilities = AbilitiesIn(a.id,
                         GetCandidateAbilitiesByIDs(data[s], {a.id}), versionGroups[a.name].gen)
<1>1. PICK got : AllFetched(data, a, got, a.began, a.ended) /\ Made(a, got, a.body)
    BY DEF Told
<1> DEFINE row == One(got[1])
<1>2. /\ Len(got) = 4
      /\ a.body.abilities = AbilitiesIn(row.id, got[2], versionGroups[a.name].gen)
    <2>1. PICK moves \in OneOfEachMove(got[3]) :
              a.body = buildCandidateDetail(row, got[2], moves, got[4], versionGroups[a.name].gen)
        BY <1>1 DEF Made
    <2> HIDE DEF row
    <2>2. a.body.abilities = AbilitiesIn(row.id, got[2], versionGroups[a.name].gen)
        BY <2>1 DEF buildCandidateDetail
    <2>3. Len(got) = 4
        BY <1>1 DEF Made
    <2> QED BY <2>2, <2>3
<1>3. PICK s : During(s, a) /\ Fetched(data[s], a, got, 2)
    BY <1>1, <1>2, FourFetched
<1>4. got[2] = GetCandidateAbilitiesByIDs(data[s], {a.id})
    BY <1>3 DEF Fetched
<1>5. PICK t : During(t, a) /\ Fetched(data[t], a, got, 1)
    BY <1>1, <1>2, FourFetched
<1>6. /\ a.name \in DOMAIN versionGroups
      /\ got[1] = CandidateRows(data[t], a.name, a.id) /\ got[1] # {}
    BY <1>5 DEF Fetched
<1>7. row \in CandidateRows(data[t], a.name, a.id)
    BY <1>6 DEF One
<1>8. row.id = a.id
    <2> HIDE DEF row
    <2>1. Keyed(data[t])
        BY <1>5, Meantime
    <2> QED BY <1>6, <1>7, <2>1, CandidateRowsAre
<1> QED BY <1>2, <1>3, <1>4, <1>8

\* The values of a candidate's moves are of one moment, whichever rows were taken.
LEMMA CandidateValuesShown ==
    ASSUME NEW data \in Scenarios, NEW a, a.began \in Stages, a.ended \in Stages,
           a.ep = "candidate", a.status = 200, a.name # "national", Told(data, a)
    PROVE  \E s : /\ During(s, a)
                  /\ {[move |-> m.move, power |-> m.power, pp |-> m.pp, cooldown |-> m.cooldown] :
                      m \in a.body.moves} = ValuesIn(data[s], a.id, a.name)
<1>1. PICK got : AllFetched(data, a, got, a.began, a.ended) /\ Made(a, got, a.body)
    BY DEF Told
<1>2. PICK moves \in OneOfEachMove(got[3]) :
          a.body = buildCandidateDetail(One(got[1]), got[2], moves, got[4],
                                        versionGroups[a.name].gen)
    BY <1>1 DEF Made
<1>3. Len(got) = 4
    BY <1>1 DEF Made
<1>4. PICK s : During(s, a) /\ Fetched(data[s], a, got, 3)
    BY <1>1, <1>3, FourFetched
<1> DEFINE d == data[s]
           L == {n \in LearntBy(d, {a.id}) : n.version = a.name}
           entry(m) == [pokemon |-> m.pokemon, move |-> m.move, power |-> PowerOf(d, m),
                        pp |-> PPOf(d, m), cooldown |-> CooldownOf(d, m)]
           value(m) == [move |-> m.move, power |-> m.power, pp |-> m.pp, cooldown |-> m.cooldown]
           rows == got[3]
           shown(m) == [move |-> m.move, power |-> m.power, pp |-> m.pp, cooldown |-> m.cooldown,
                        text |-> DescriptionOf(m.move, got[4])]
<1>5. Linked(d) /\ Shipped(d)
    BY <1>4, Meantime
<1>6. rows = GetCandidateMovesByIDsAndVersion(d, {a.id}, a.name)
    BY <1>4 DEF Fetched, CandidateMoveRows
<1>7. a.body.moves = {shown(m) : m \in moves}
    BY <1>2 DEF buildCandidateDetail
<1>8. \A m, n \in L : m.move = n.move => entry(m) = entry(n)
    <2>1. ASSUME NEW m \in L, NEW n \in L, m.move = n.move PROVE entry(m) = entry(n)
        <3>1. m.pokemon = n.pokemon /\ m.version = n.version
            BY DEF LearntBy
        <3>2. PastOf(d, m) = PastOf(d, n) /\ LegendsOf(d, m) = LegendsOf(d, n)
              /\ MoveOf(d, m) = MoveOf(d, n)
            BY <2>1, <3>1 DEF PastOf, LegendsOf, MoveOf, PastValues, LegendsValues
        <3> QED BY <2>1, <3>1, <3>2 DEF PowerOf, PPOf, CooldownOf
    <2> QED BY <2>1
<1> HIDE DEF rows, d
<1>9. rows = {entry(m) : m \in L}
    <2> DEFINE ids == {a.id}
               name == a.name
    <2>1. rows = GetCandidateMovesByIDsAndVersion(d, ids, name)
        BY <1>6
    <2> HIDE DEF ids, name
    <2>2. rows = {entry(m) : m \in {n \in LearntBy(d, ids) : n.version = name}}
        BY <1>5, <2>1, CandidateMovesAre
    <2> HIDE DEF entry
    <2> QED BY <2>2 DEF ids, name
<1>10. \A m \in L : entry(m).move = m.move /\ value(entry(m)) =
           [move |-> m.move, power |-> PowerOf(d, m), pp |-> PPOf(d, m), cooldown |-> CooldownOf(d, m)]
    OBVIOUS
<1>11. \A m \in moves : value(shown(m)) = value(m)
    OBVIOUS
<1>12. ValuesIn(d, a.id, a.name) = {value(entry(m)) : m \in L}
    BY <1>10 DEF ValuesIn
<1> HIDE DEF L, entry, value, shown
<1>13. \A r, q \in rows : r.move = q.move => r = q
    BY <1>8, <1>9, <1>10
<1>14. moves = rows
    BY <1>13, AllOfEachMove DEF rows
<1>15. {value(m) : m \in a.body.moves} = {value(m) : m \in rows}
    BY <1>7, <1>11, <1>14
<1>16. {value(m) : m \in rows} = {value(entry(m)) : m \in L}
    BY <1>9
<1>17. {value(m) : m \in a.body.moves} = ValuesIn(d, a.id, a.name)
    BY <1>12, <1>15, <1>16
<1> QED BY <1>4, <1>17 DEF value, d

\* A page of one moment loses nothing there from the beginning.
LEMMA WholeMovesets ==
    ASSUME NEW data \in Scenarios, NEW a, a.began \in Stages, a.ended \in Stages,
           NEW page, PageFrom(data, a, page)
    PROVE  /\ TaughtIn(data[a.began], page.id) \subseteq Taught(page)
           /\ Taught(page) \subseteq TaughtIn(data[a.ended], page.id)
           /\ MovesetsOrdered(page)
<1>1. PICK s : During(s, a) /\ PageOf(data[s], page)
    BY DEF PageFrom
<1>2. Within(data[a.began], data[s]) /\ Within(data[s], data[a.ended])
    BY <1>1, Meantime
<1>3. \A d, e : Within(d, e) => TaughtIn(d, page.id) \subseteq TaughtIn(e, page.id)
    BY DEF Within, TaughtIn
<1> QED BY <1>1, <1>2, <1>3 DEF PageOf

-----------------------------------------------------------------------------
(* The theorems                                                              *)

\* A team list put together from several queries, with rows arriving between
\* them, shows whoever was in the game when the request began and nobody who is
\* not in it when it ends; what it shows under "National" no region has shown.
THEOREM RosterWhole == Spec => []RosterComplete
<1>1. Inv => RosterComplete
    <2> SUFFICES ASSUME Inv, Answered("team") PROVE RosterComplete
        BY DEF RosterComplete
    <2>1. TeamAnswer(scenario, answer) /\ scenario \in Scenarios
          /\ answer.began \in Stages /\ answer.ended \in Stages
        BY DEF Inv, Answered, Known
    <2> QED BY <2>1, RosterIs DEF RosterComplete, Began, Ended, Body
<1> QED BY <1>1, Invariance, PTL

\* Whom a team list shows its candidate page finds: never a 404. A page opened
\* while the tables stood still since the list was begun is of somebody on the
\* list, and shows the types the list shows, if the game's Pokedexes follow its
\* rules.
THEOREM ListedServed == Spec => []ListedIsServed
<1>1. Inv => ListedIsServed
    <2> SUFFICES ASSUME Inv, FollowsList PROVE ListedIsServed
        BY DEF ListedIsServed
    <2>1. /\ scenario \in Scenarios
          /\ Known(scenario, answer) /\ answer.ep = "candidate"
          /\ Known(scenario, earlier) /\ earlier.status = 200 /\ earlier.ep = "team"
          /\ Follows(earlier, answer)
        BY DEF Inv, FollowsList
    <2>2. /\ CandidateMissing(scenario, answer) => answer.id \notin Listed(earlier.body)
          /\ CandidateAnswer(scenario, answer) /\ earlier.began = answer.ended =>
                 /\ answer.id \in Listed(earlier.body)
                 /\ RulesAgree(answer.name) =>
                        \A r \in Entries(earlier.body, answer.id) : r.types = answer.body.types
        BY <2>1, Served DEF Known, Follows
    <2>3. /\ answer.status = 404 => CandidateMissing(scenario, answer)
          /\ answer.status = 200 => CandidateAnswer(scenario, answer)
        BY <2>1 DEF Known
    <2> QED BY <2>2, <2>3 DEF ListedIsServed, Body
<1> QED BY <1>1, Invariance, PTL

\* Each move of a candidate comes with the newest wording its games had when
\* the answer was put together, and with none only if they had none.
THEOREM Described == Spec => []CandidateDescribed
<1>1. Inv => CandidateDescribed
    <2> SUFFICES ASSUME Inv, Answered("candidate") PROVE CandidateDescribed
        BY DEF CandidateDescribed
    <2>1. CandidateAnswer(scenario, answer) /\ scenario \in Scenarios
          /\ answer.began \in Stages /\ answer.ended \in Stages
        BY DEF Inv, Answered, Known
    <2> QED BY <2>1, MovesDescribed DEF CandidateDescribed, Began, Ended, Body
<1> QED BY <1>1, Invariance, PTL

\* The national Pokedex shows every Pokemon once, in the group of its generation.
THEOREM NationalDex == Spec => []NationalDexWhole
<1>1. Inv => NationalDexWhole
    <2> SUFFICES ASSUME Inv, Answered("dex"), answer.name = "national"
                 PROVE  NationalDexWhole
        BY DEF NationalDexWhole
    <2>1. /\ DexAnswer(scenario, answer) /\ scenario \in Scenarios
          /\ answer.began \in Stages /\ answer.ended \in Stages
        BY DEF Inv, Known, Answered
    <2>2. PICK s : During(s, answer) /\ Body \in GenGroups(NationalRows(scenario[s]))
        BY <2>1 DEF DexAnswer, Body
    <2>3. s \in Stages /\ (s = answer.began \/ s = answer.ended)
        BY <2>1, <2>2 DEF During, Between, Till, Stages
    <2> DEFINE ids == {p.id : p \in scenario[s].pokemon}
    <2>4. WholeDex(Body, ids)
        BY <2>1, <2>2, <2>3, DataKeyed, WholeDexIs
    <2>5. ids \in {{p.id : p \in d.pokemon} : d \in {Began, Ended}}
        BY <2>3 DEF Began, Ended
    <2> HIDE DEF ids
    <2>6. Len(separatorNums) = 9
        BY Separators
    <2>7. /\ Len(Body) = 9
          /\ {RowAt(Body, r).id : r \in DexRows(Body)} = ids
          /\ Cardinality(DexRows(Body)) = Cardinality(ids)
          /\ \A r \in DexRows(Body) :
                 /\ separatorNums[r[1]] <= RowAt(Body, r).num
                 /\ r[1] < 9 => RowAt(Body, r).num < separatorNums[r[1] + 1]
        BY <2>4 DEF WholeDex
    <2> QED BY <2>5, <2>6, <2>7 DEF NationalDexWhole, DexRows, RowAt
<1> QED BY <1>1, Invariance, PTL

\* A removed ability is a candidate's in exactly the games up to its removal,
\* and never together with what replaced it, if no row arrives meanwhile.
THEOREM AbilitiesOfTheirTime == Spec => []AbilitiesInTheirTime
<1>1. Inv /\ PageInv => AbilitiesInTheirTime
    <2> SUFFICES ASSUME Inv, PageInv, Answered("candidate"), Stable
                 PROVE  AbilitiesInTheirTime
        BY DEF AbilitiesInTheirTime
    <2>1. /\ scenario \in Scenarios /\ answer.began \in Stages /\ answer.ended \in Stages
          /\ answer.ep = "candidate" /\ answer.status = 200 /\ Told(scenario, answer)
        BY DEF Inv, PageInv, Answered, Known
    <2> DEFINE d == Ended
               id == answer.id
               gen == versionGroups[answer.name].gen
    <2>2. PICK s : /\ During(s, answer)
                   /\ Body.abilities = AbilitiesIn(id, GetCandidateAbilitiesByIDs(scenario[s], {id}), gen)
        BY <2>1, CandidateAbilitiesShown DEF Body
    <2>3. s = answer.ended /\ Linked(scenario[s]) /\ Shipped(scenario[s])
          /\ IsFiniteSet(scenario[s].abilitydetails)
        BY <2>1, <2>2, Meantime DEF Stable
    <2>4. d = scenario[s]
        BY <2>3 DEF Ended
    <2> HIDE DEF d, id, gen
    <2>5. ASSUME NEW a \in AbilitiesOf(d, id), a.gen # Null
          PROVE  /\ a.ability \in Body.abilities <=> gen <= a.gen
                 /\ a.ability \in Body.abilities =>
                        \A b \in AbilitiesOf(d, id) :
                            b.gen = Null /\ ((a.hidden /\ b.hidden)
                                             \/ (a.ability = 48 /\ b.ability = 274))
                                => b.ability \notin Body.abilities
        BY <2>2, <2>3, <2>4, <2>5, AbilitiesAre
    <2>6. {a \in Ended.abilitydetails : a.pokemon = answer.id} = AbilitiesOf(d, id)
        BY DEF AbilitiesOf, d, id
    <2> QED BY <2>5, <2>6 DEF AbilitiesInTheirTime, gen
<1> QED BY <1>1, Invariance, PageInvariance, PTL

\* The team builder and the Pokemon's page give a move the same values in a
\* game, if no row arrives between the two requests.
THEOREM ValuesAreOne == Spec => []ValuesAgree
<1>1. Inv /\ PageInv => ValuesAgree
    <2> SUFFICES ASSUME Inv, PageInv, Answered("pokemon"), earlier # NoAnswer,
                        earlier.ep = "candidate", earlier.name # "national",
                        earlier.began = answer.ended
                 PROVE  {[move |-> m.move, power |-> m.power, pp |-> m.pp,
                          cooldown |-> m.cooldown] : m \in earlier.body.moves}
                            = ValuesOnPage(Body, earlier.name)
        BY DEF ValuesAgree
    <2>1. /\ scenario \in Scenarios /\ answer.began \in Stages /\ answer.ended \in Stages
          /\ answer.ep = "pokemon" /\ answer.status = 200 /\ Told(scenario, answer)
          /\ earlier.began \in Stages /\ earlier.ended \in Stages
          /\ earlier.status = 200 /\ Told(scenario, earlier)
          /\ Till(earlier.began, earlier.ended) /\ Till(earlier.ended, answer.began)
          /\ Till(answer.began, answer.ended)
          /\ Leads(earlier, answer)
        BY DEF Inv, PageInv, Answered, Known, Follows
    <2>2. answer.name = "" /\ answer.id = earlier.id
        BY <2>1 DEF Leads
    <2>3. PageFrom(scenario, answer, answer.body) /\ answer.body.id = answer.id
        <3>1. PageFrom(scenario, answer, answer.body) /\ OwnPage(answer)
            BY <2>1, PokemonPage
        <3> QED BY <2>2, <3>1 DEF OwnPage
    <2>4. PICK s : During(s, answer) /\ PageOf(scenario[s], answer.body)
        BY <2>3 DEF PageFrom
    <2>5. PICK t : /\ During(t, earlier)
                   /\ {[move |-> m.move, power |-> m.power, pp |-> m.pp, cooldown |-> m.cooldown] :
                       m \in earlier.body.moves} = ValuesIn(scenario[t], earlier.id, earlier.name)
        BY <2>1, CandidateValuesShown
    <2>6. s = t
        <3>1. answer.began = answer.ended /\ earlier.began = earlier.ended
            BY <2>1 DEF Till, Stages
        <3>2. (s = answer.began \/ s = answer.ended) /\ (t = earlier.began \/ t = earlier.ended)
            BY <2>1, <2>4, <2>5, Meantime
        <3> QED BY <3>1, <3>2
    <2>7. ValuesOnPage(answer.body, earlier.name) = ValuesIn(scenario[s], answer.body.id, earlier.name)
        BY <2>4 DEF PageOf
    <2> QED BY <2>2, <2>3, <2>5, <2>6, <2>7 DEF Body
<1> QED BY <1>1, Invariance, PageInvariance, PTL

\* The pages lose no row of their queries, show none for another Pokemon or
\* game, and none out of order, whatever rows arrive between two queries.
THEOREM PagesAreWhole == Spec => []PagesWhole
<1>1. ASSUME Inv, PageInv, Answered("pokemon") PROVE MovesetsWhole(Body)
    <2>1. /\ scenario \in Scenarios /\ answer.began \in Stages /\ answer.ended \in Stages
          /\ answer.ep = "pokemon" /\ answer.status = 200 /\ Told(scenario, answer)
        BY <1>1 DEF Inv, PageInv, Answered, Known
    <2>2. PageFrom(scenario, answer, answer.body)
        BY <2>1, PokemonPage
    <2> QED BY <2>1, <2>2, WholeMovesets DEF MovesetsWhole, Body, Began, Ended
<1>2. ASSUME Inv, PageInv, Answered("species")
      PROVE  /\ {Body.forms[i].id : i \in DOMAIN Body.forms}
                    \in {{p.id : p \in {q \in d.pokemon : q.species = Body.id}} :
                         d \in {Began, Ended}}
             /\ \A i \in DOMAIN Body.forms : MovesetsWhole(Body.forms[i])
    <2>1. /\ scenario \in Scenarios /\ answer.began \in Stages /\ answer.ended \in Stages
          /\ answer.ep = "species" /\ answer.status = 200 /\ Told(scenario, answer)
        BY <1>2 DEF Inv, PageInv, Answered, Known
    <2>2. PICK s : During(s, answer) /\ {Body.forms[i].id : i \in DOMAIN Body.forms} =
                         {p.id : p \in {q \in scenario[s].pokemon : q.species = Body.id}}
        <3>1. FormsFrom(scenario, answer)
            BY <2>1, SpeciesPages
        <3> QED BY <3>1 DEF FormsFrom, Body
    <2>3. scenario[s] \in {Began, Ended}
        BY <2>1, <2>2, Meantime DEF Began, Ended
    <2>4. ASSUME NEW i \in DOMAIN Body.forms PROVE MovesetsWhole(Body.forms[i])
        <3>1. PageFrom(scenario, answer, Body.forms[i])
            BY <2>1, SpeciesPages DEF Body
        <3> QED BY <2>1, <3>1, WholeMovesets DEF MovesetsWhole, Began, Ended
    <2> QED BY <2>2, <2>3, <2>4
<1>3. ASSUME Inv, PageInv, Answered("move")
      PROVE  LearnersWhole /\ WordingsWhole(Body.descriptions, Began.movedescriptions,
                                            Ended.movedescriptions)
    <2>1. /\ scenario \in Scenarios /\ answer.began \in Stages /\ answer.ended \in Stages
          /\ answer.ep = "move" /\ answer.status = 200 /\ Told(scenario, answer)
        BY <1>3 DEF Inv, PageInv, Answered, Known
    <2> DEFINE learners == Body.pokemon
               wordings == Body.descriptions
               id == Body.row.id
    <2>2. /\ \E s : During(s, answer) /\ LearnersOn(learners) = LearnersIn(scenario[s], id)
          /\ Ascending(Ranks([g \in DOMAIN learners |-> learners[g].of], LearnMethodOrder))
          /\ \E s : During(s, answer) /\ WordedBy(wordings) =
                        WordingsIn(scenario[s].movedescriptions, id)
          /\ \A g, h \in DOMAIN wordings : g # h => wordings[g].text # wordings[h].text
          /\ Ascending(Ranks([g \in DOMAIN wordings |-> wordings[g].games[1]], GameOrder))
        BY <2>1, MovePage DEF Body
    <2> HIDE DEF learners, wordings, id
    <2>3. PICK s : During(s, answer) /\ LearnersOn(learners) = LearnersIn(scenario[s], id)
        BY <2>2
    <2>4. PICK t : During(t, answer) /\ WordedBy(wordings) =
                       WordingsIn(scenario[t].movedescriptions, id)
        BY <2>2
    <2>5. Within(Began, scenario[s]) /\ Within(scenario[s], Ended)
        BY <2>1, <2>3, Meantime DEF Began, Ended
    <2>6. Within(Began, scenario[t]) /\ Within(scenario[t], Ended)
        BY <2>1, <2>4, Meantime DEF Began, Ended
    <2>7. /\ LearnersIn(Began, id) \subseteq LearnersOn(learners)
          /\ LearnersOn(learners) \subseteq LearnersIn(Ended, id)
        BY <2>3, <2>5 DEF Within, LearnersIn
    <2>8. /\ WordingsIn(Began.movedescriptions, id) \subseteq WordedBy(wordings)
          /\ WordedBy(wordings) \subseteq WordingsIn(Ended.movedescriptions, id)
        BY <2>4, <2>6 DEF Within, WordingsIn
    <2>9. LearnersWhole
        BY <2>2, <2>7 DEF LearnersWhole, LearnersOn, LearnersIn, learners, id
    <2>10. WordingsWhole(wordings, Began.movedescriptions, Ended.movedescriptions)
        BY <2>2, <2>8 DEF WordingsWhole, WordedBy, WordingsIn, id
    <2> QED BY <2>9, <2>10 DEF wordings
<1>4. Inv /\ PageInv => PagesWhole
    BY <1>1, <1>2, <1>3 DEF PagesWhole
<1> QED BY <1>4, Invariance, PageInvariance, PTL
=============================================================================
