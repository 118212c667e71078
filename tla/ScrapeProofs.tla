---------------------------- MODULE ScrapeProofs ----------------------------
(***************************************************************************)
(* The disk cache and the table, over any number of runs that may die at    *)
(* any step. Inv is inductive. Its NamesInv and PagesInv say what the loops *)
(* have left to do: the titles still to ask for are exactly those whose     *)
(* cache file cannot be read. Hence what was read is read again (CacheKept),*)
(* the scraped rows only grow (ScrapedGrows), and a run that has its rows   *)
(* had nothing left to ask for (ReadThrough). SettledInv, SourceInv and     *)
(* FilesInv carry that to the table and to the files emitted from it.       *)
(***************************************************************************)
EXTENDS Scrape, SequenceTheorems, FunctionTheorems, WellFoundedInduction, TLAPS

-----------------------------------------------------------------------------
(* What is gathered: the members of a set, each once, in order              *)

LEMMA Smallest ==
    ASSUME NEW S \in SUBSET Nat, S # {}
    PROVE  \E m \in S : \A n \in S : m <= n
<1>1. PICK m \in S : \A n \in S : <<n, m>> \notin OpToRel(<, Nat)
    BY NatLessThanWellFounded, WFMin, Zenon
<1>2. \A n \in S : ~(n < m)
    BY <1>1 DEF OpToRel
<1> QED BY <1>2

\* The first m ids gathered one after the other.
Fits(f, m, wanted) ==
    f = [n \in 0 .. m |->
            IF n = 0 THEN <<>>
            ELSE IF Ids[n] \in wanted THEN Append(f[n - 1], Ids[n])
            ELSE f[n - 1]]

LEMMA FitsAt ==
    ASSUME NEW f, NEW m \in Nat, NEW wanted, Fits(f, m, wanted), NEW n \in 0 .. m
    PROVE  f[n] = IF n = 0 THEN <<>>
                  ELSE IF Ids[n] \in wanted THEN Append(f[n - 1], Ids[n])
                  ELSE f[n - 1]
<1> DEFINE At(k) == IF k = 0 THEN <<>>
                    ELSE IF Ids[k] \in wanted THEN Append(f[k - 1], Ids[k])
                    ELSE f[k - 1]
<1>1. f = [k \in 0 .. m |-> At(k)]
    BY DEF Fits
<1> HIDE DEF At
<1>2. f[n] = At(n)
    BY <1>1, Zenon
<1> QED BY <1>2 DEF At

LEMMA FitsExists ==
    ASSUME NEW wanted, NEW N \in Nat
    PROVE  \E f : Fits(f, N, wanted)
<1> DEFINE S == {m \in Nat : ~ \E f : Fits(f, m, wanted)}
<1> SUFFICES ASSUME S # {} PROVE FALSE
    OBVIOUS
<1> HIDE DEF S
<1>1. S \in SUBSET Nat
    BY DEF S
<1>2. PICK m \in S : \A n \in S : m <= n
    BY <1>1, Smallest
<1>3. CASE m = 0
    <2> DEFINE f == [n \in 0 .. 0 |-> <<>>]
    <2>1. Fits(f, 0, wanted)
        BY DEF Fits
    <2> QED BY <2>1, <1>3, <1>2 DEF S
<1>4. CASE m # 0
    <2>1. m \in Nat /\ m - 1 \in Nat /\ m - 1 \notin S
        BY <1>1, <1>2, <1>4
    <2>2. PICK g : Fits(g, m - 1, wanted)
        BY <2>1 DEF S
    <2> DEFINE f == [n \in 0 .. m |->
            IF n = 0 THEN <<>>
            ELSE IF Ids[n] \in wanted THEN Append(g[n - 1], Ids[n])
            ELSE g[n - 1]]
    <2>3. ASSUME NEW n \in 0 .. m - 1
          PROVE  f[n] = g[n]
        <3>1. n \in 0 .. m
            BY <2>1
        <3>2. g[n] = IF n = 0 THEN <<>>
                     ELSE IF Ids[n] \in wanted THEN Append(g[n - 1], Ids[n])
                     ELSE g[n - 1]
            BY <2>1, <2>2, FitsAt
        <3> QED BY <3>1, <3>2
    <2>4. Fits(f, m, wanted)
        <3>1. \A n \in 0 .. m : n # 0 => n - 1 \in 0 .. m - 1
            BY <2>1
        <3> HIDE DEF f
        <3>2. \A n \in 0 .. m : n # 0 => g[n - 1] = f[n - 1]
            BY <2>3, <3>1
        <3> QED BY <3>2 DEF Fits, f
    <2> QED BY <2>4, <1>2 DEF S
<1> QED BY <1>3, <1>4

LEMMA GatheredFits ==
    ASSUME NEW wanted
    PROVE  \E f : Fits(f, Len(Ids), wanted) /\ Gathered(wanted) = f[Len(Ids)]
<1> DEFINE f == CHOOSE f : Fits(f, Len(Ids), wanted)
<1>1. Len(Ids) \in Nat
    BY IdsAssumption, LenProperties
<1>2. Fits(f, Len(Ids), wanted)
    BY <1>1, FitsExists, Zenon
<1>3. Gathered(wanted) = f[Len(Ids)]
    BY DEF Gathered, Fits
<1> QED BY <1>2, <1>3

Injective(need) == \A m, n \in 1 .. Len(need) : need[m] = need[n] => m = n

\* Every wanted id is gathered, once, and nothing else is.
LEMMA GatheredIs ==
    ASSUME NEW wanted \in SUBSET All
    PROVE  /\ Gathered(wanted) \in Seq(wanted)
           /\ Injective(Gathered(wanted))
           /\ \A id \in wanted :
                  \E n \in 1 .. Len(Gathered(wanted)) : Gathered(wanted)[n] = id
<1>1. PICK f : Fits(f, Len(Ids), wanted) /\ Gathered(wanted) = f[Len(Ids)]
    BY GatheredFits
<1>2. /\ Len(Ids) \in Nat
      /\ DOMAIN Ids = 1 .. Len(Ids)
      /\ All = {Ids[i] : i \in 1 .. Len(Ids)}
      /\ \A i, j \in 1 .. Len(Ids) : Ids[i] = Ids[j] => i = j
    BY IdsAssumption, LenProperties DEF All
<1>3. /\ f[0] = <<>>
      /\ \A n \in 1 .. Len(Ids) :
             f[n] = IF Ids[n] \in wanted THEN Append(f[n - 1], Ids[n]) ELSE f[n - 1]
    <2>1. 0 \in 0 .. Len(Ids) /\ \A n \in 1 .. Len(Ids) : n \in 0 .. Len(Ids) /\ n # 0
        BY <1>2
    <2>2. f[0] = <<>>
        BY <1>1, <1>2, <2>1, FitsAt, Zenon
    <2>3. ASSUME NEW n \in 1 .. Len(Ids)
          PROVE  f[n] = IF Ids[n] \in wanted THEN Append(f[n - 1], Ids[n]) ELSE f[n - 1]
        <3>1. f[n] = IF n = 0 THEN <<>>
                     ELSE IF Ids[n] \in wanted THEN Append(f[n - 1], Ids[n])
                     ELSE f[n - 1]
            BY <1>1, <1>2, <2>1, FitsAt
        <3> QED BY <2>1, <3>1, Zenon
    <2> QED BY <2>2, <2>3
<1> DEFINE Good(m) ==
        /\ f[m] \in Seq(wanted)
        /\ \A j \in 1 .. Len(f[m]) : \E i \in 1 .. m : Ids[i] = f[m][j]
        /\ Injective(f[m])
        /\ \A i \in 1 .. m : Ids[i] \in wanted => \E j \in 1 .. Len(f[m]) : f[m][j] = Ids[i]
<1>4. Good(0)
    BY <1>3 DEF Injective
<1>5. ASSUME NEW n \in 1 .. Len(Ids), Good(n - 1)
      PROVE  Good(n)
    <2>1. CASE Ids[n] \notin wanted
        <3>1. f[n] = f[n - 1]
            BY <1>3, <2>1
        <3>2. 1 .. n = 1 .. (n - 1) \cup {n}
            BY <1>2
        <3> QED BY <1>5, <2>1, <3>1, <3>2
    <2>2. CASE Ids[n] \in wanted
        <3> DEFINE g == f[n - 1]
        <3>1. f[n] = Append(g, Ids[n])
            BY <1>3, <2>2
        <3>2. g \in Seq(wanted)
            BY <1>5
        <3> HIDE DEF g
        <3>3. /\ f[n] \in Seq(wanted)
              /\ Len(g) \in Nat
              /\ Len(f[n]) = Len(g) + 1
              /\ \A j \in 1 .. Len(g) : f[n][j] = g[j]
              /\ f[n][Len(g) + 1] = Ids[n]
            BY <3>1, <3>2, <2>2, AppendProperties, LenProperties
        <3>4. \A j \in 1 .. Len(g) : \E i \in 1 .. (n - 1) : Ids[i] = g[j]
            BY <1>5 DEF g
        <3>5. 1 .. Len(f[n]) = 1 .. Len(g) \cup {Len(g) + 1} /\ 1 .. n = 1 .. (n - 1) \cup {n}
            BY <3>3, <1>2
        <3>6. \A j \in 1 .. Len(g) : g[j] # Ids[n]
            BY <3>4, <1>2
        <3>7. Injective(f[n])
            <4>1. Injective(g)
                BY <1>5 DEF g
            <4> QED BY <4>1, <3>3, <3>5, <3>6 DEF Injective
        <3>8. \A j \in 1 .. Len(f[n]) : \E i \in 1 .. n : Ids[i] = f[n][j]
            BY <3>3, <3>4, <3>5
        <3>9. \A i \in 1 .. n : Ids[i] \in wanted => \E j \in 1 .. Len(f[n]) : f[n][j] = Ids[i]
            <4>1. \A i \in 1 .. (n - 1) : Ids[i] \in wanted => \E j \in 1 .. Len(g) : g[j] = Ids[i]
                BY <1>5 DEF g
            <4> QED BY <4>1, <3>3, <3>5
        <3> QED BY <3>3, <3>7, <3>8, <3>9
    <2> QED BY <2>1, <2>2
<1>6. Good(Len(Ids))
    <2> DEFINE S == {m \in Nat : m <= Len(Ids) /\ ~Good(m)}
    <2> HIDE DEF Good
    <2> SUFFICES ASSUME S # {} PROVE FALSE
        BY <1>2
    <2>1. PICK m \in S : \A n \in S : m <= n
        BY Smallest
    <2>2. m # 0
        BY <1>4, <2>1
    <2>3. m - 1 \in Nat /\ m - 1 \notin S /\ m \in 1 .. Len(Ids)
        BY <2>1, <2>2, <1>2
    <2> QED BY <1>5, <2>1, <2>3, <1>2
<1>7. f[Len(Ids)] \in Seq(wanted) /\ Injective(f[Len(Ids)])
    BY <1>6
<1>8. \A id \in wanted : \E n \in 1 .. Len(f[Len(Ids)]) : f[Len(Ids)][n] = id
    <2> SUFFICES ASSUME NEW id \in wanted
                 PROVE  \E n \in 1 .. Len(f[Len(Ids)]) : f[Len(Ids)][n] = id
        OBVIOUS
    <2>1. PICK i \in 1 .. Len(Ids) : Ids[i] = id
        BY <1>2
    <2> QED BY <1>6, <2>1
<1> HIDE DEF Good
<1> QED BY <1>1, <1>7, <1>8, Zenon

-----------------------------------------------------------------------------
(* Batches, tables and what the cache says                                  *)

\* A batch is the next titles of need, BatchSize of them or all that are left.
LEMMA ChunkIs ==
    ASSUME NEW need \in Seq(Titles), NEW at \in Nat \ {0}, at <= Len(need)
    PROVE  /\ Chunk(need, at) \in Seq(Titles)
           /\ Len(Chunk(need, at)) \in 1 .. BatchSize
           /\ DOMAIN Chunk(need, at) = 1 .. Len(Chunk(need, at))
           /\ at + Len(Chunk(need, at)) <= Len(need) + 1
           /\ \A m \in 1 .. Len(Chunk(need, at)) : Chunk(need, at)[m] = need[at + m - 1]
           /\ \/ Len(Chunk(need, at)) = BatchSize
              \/ at + Len(Chunk(need, at)) = Len(need) + 1
<1> DEFINE end == at + BatchSize - 1
           last == IF end > Len(need) THEN Len(need) ELSE end
           chunk == Chunk(need, at)
<1>1. chunk = SubSeq(need, at, last)
    BY DEF Chunk
<1>2. /\ Len(need) \in Nat /\ last \in Int /\ at <= last /\ last <= Len(need)
      /\ last <= at + BatchSize - 1
      /\ last = at + BatchSize - 1 \/ last = Len(need)
    BY BatchAssumption, LenProperties
<1>3. \A m \in at .. last : need[m] \in Titles
    BY <1>2, ElementOfSeq
<1> HIDE DEF last, chunk
<1>4. /\ chunk \in Seq(Titles)
      /\ Len(chunk) = last - at + 1
      /\ \A m \in 1 .. last - at + 1 : chunk[m] = need[at + m - 1]
    BY <1>1, <1>2, <1>3, SubSeqProperties
<1>5. DOMAIN chunk = 1 .. Len(chunk)
    BY <1>4, LenProperties
<1>6. /\ Len(chunk) \in 1 .. BatchSize
      /\ at + Len(chunk) = last + 1
      /\ at + Len(chunk) <= Len(need) + 1
      /\ Len(chunk) = BatchSize \/ at + Len(chunk) = Len(need) + 1
    <2>1. Len(chunk) = last - at + 1 /\ at \in Int
        BY <1>4
    <2> QED BY <1>2, <2>1, BatchAssumption
<1>7. \A m \in 1 .. Len(chunk) : chunk[m] = need[at + m - 1]
    BY <1>4
<1> QED BY <1>4, <1>5, <1>6, <1>7 DEF chunk

LEMMA OverIs ==
    ASSUME NEW first, NEW second
    PROVE  /\ DOMAIN Over(first, second) = DOMAIN first \cup DOMAIN second
           /\ \A k \in DOMAIN first : Over(first, second)[k] = first[k]
           /\ \A k \in DOMAIN second \ DOMAIN first : Over(first, second)[k] = second[k]
           /\ IsTable(Over(first, second))
BY DEF Over, IsTable

\* A batch without rows, and a torn file, is a table with none.
LEMMA NoRowsIs == DOMAIN NoRows = {} /\ IsTable(NoRows)
BY DEF NoRows, IsTable

\* The second has every row of the first.
Within(first, second) ==
    /\ DOMAIN first \subseteq DOMAIN second
    /\ \A k \in DOMAIN first : first[k] = second[k]

LEMMA TablesEqual ==
    ASSUME NEW first, NEW second, IsTable(first), IsTable(second),
           DOMAIN first = DOMAIN second, \A k \in DOMAIN first : first[k] = second[k]
    PROVE  first = second
BY DEF IsTable

\* Says and Scraped, as functions of the two caches.
SaysIn(told, read, id) ==
    IF told[id] = "named" /\ read[id] \in Revisions THEN RowsOf[id][read[id]] ELSE NoRows
ScrapedIn(told, read) ==
    LET keys == UNION {DOMAIN SaysIn(told, read, id) : id \in Titles}
    IN [k \in keys |->
           SaysIn(told, read, CHOOSE id \in Titles : k \in DOMAIN SaysIn(told, read, id))[k]]

LEMMA ScrapedIs ==
    /\ Scraped = ScrapedIn(names, pages)
    /\ Scraped' = ScrapedIn(names', pages')
<1>1. Scraped = ScrapedIn(names, pages)
    BY DEF Scraped, Joined, Says, ScrapedIn, SaysIn
<1>2. Scraped' = ScrapedIn(names', pages')
    BY DEF Scraped, Joined, Says, ScrapedIn, SaysIn
<1> QED BY <1>1, <1>2

\* No two pages speak of one key, so every page is heard.
LEMMA Heard ==
    ASSUME NEW told, NEW read
    PROVE  /\ IsTable(ScrapedIn(told, read))
           /\ \A id \in Titles : Within(SaysIn(told, read, id), ScrapedIn(told, read))
           /\ \A k \in DOMAIN ScrapedIn(told, read) :
                  \E id \in Titles : k \in DOMAIN SaysIn(told, read, id)
<1> DEFINE says(id) == SaysIn(told, read, id)
           all == ScrapedIn(told, read)
<1>1. /\ DOMAIN all = UNION {DOMAIN says(id) : id \in Titles}
      /\ \A k \in DOMAIN all : all[k] = says(CHOOSE id \in Titles : k \in DOMAIN says(id))[k]
      /\ IsTable(all)
    BY DEF ScrapedIn, IsTable
<1>2. \A i, j \in Titles : i # j => DOMAIN says(i) \cap DOMAIN says(j) = {}
    BY RowsAssumption DEF SaysIn, NoRows
<1> HIDE DEF says, all
<1>3. ASSUME NEW id \in Titles, NEW k \in DOMAIN says(id)
      PROVE  k \in DOMAIN all /\ all[k] = says(id)[k]
    <2>1. (CHOOSE i \in Titles : k \in DOMAIN says(i)) = id
        BY <1>2, <1>3
    <2> QED BY <1>1, <1>3, <2>1
<1>4. \A id \in Titles : Within(says(id), all)
    BY <1>3 DEF Within
<1>5. \A k \in DOMAIN all : \E id \in Titles : k \in DOMAIN says(id)
    BY <1>1
<1> QED BY <1>1, <1>4, <1>5 DEF says, all

\* What was told stays told and what was read is read again.
LEMMA HeardAgain ==
    ASSUME NEW told, NEW read, NEW toldNow, NEW readNow,
           \A id \in Titles : told[id] = "named" => toldNow[id] = "named",
           \A id \in Titles : read[id] \in Revisions => readNow[id] = read[id]
    PROVE  Within(ScrapedIn(told, read), ScrapedIn(toldNow, readNow))
<1>1. ASSUME NEW k \in DOMAIN ScrapedIn(told, read)
      PROVE  /\ k \in DOMAIN ScrapedIn(toldNow, readNow)
             /\ ScrapedIn(told, read)[k] = ScrapedIn(toldNow, readNow)[k]
    <2>1. PICK id \in Titles : k \in DOMAIN SaysIn(told, read, id)
        BY Heard
    <2>2. SaysIn(told, read, id) = SaysIn(toldNow, readNow, id)
        BY <2>1 DEF SaysIn, NoRows
    <2>3. ScrapedIn(told, read)[k] = SaysIn(told, read, id)[k]
        BY <2>1, Heard DEF Within
    <2>4. /\ k \in DOMAIN ScrapedIn(toldNow, readNow)
          /\ SaysIn(toldNow, readNow, id)[k] = ScrapedIn(toldNow, readNow)[k]
        BY <2>1, <2>2, Heard DEF Within
    <2> QED BY <2>2, <2>3, <2>4
<1> QED BY <1>1 DEF Within

-----------------------------------------------------------------------------
(* The inductive invariant                                                  *)

AllTold == \A id \in All : names[id] = Told(id)
AllRead == \A id \in Titles : Readable(id)

\* A name is cached as PokeAPI tells it, and the loop over the ids leaves none
\* of them behind.
NamesInv ==
    /\ \A id \in All : names[id] \in {Absent, Torn, Told(id)}
    /\ Running("names") =>
           \A n \in 1 .. Len(Ids) : n < run.at => names[Ids[n]] = Told(Ids[n])
    /\ run.step \notin {"idle", "names"} => AllTold

\* The titles that cannot be read are those of need from n on.
Pending(need, n) ==
    /\ \A m \in 1 .. Len(need) : m >= n => ~Readable(need[m])
    /\ \A id \in Titles : Readable(id) \/ \E m \in 1 .. Len(need) : m >= n /\ need[m] = id

PagesInv ==
    /\ Running("request") =>
         /\ run.at <= Len(run.need)
         /\ Injective(run.need)
         /\ Pending(run.need, run.at)
    /\ Running("keep") =>
         /\ run.at <= Len(run.need)
         /\ Injective(run.need)
         /\ run.kept <= Len(Chunk(run.need, run.at))
         /\ \A m \in 1 .. Len(Chunk(run.need, run.at)) :
                Chunk(run.need, run.at)[m] \in DOMAIN run.got
         /\ Pending(run.need, run.at + run.kept)
    /\ run.step \in {"write", "emit", "emitDown"} => AllRead

\* What a run settled is what the cache still says, and the table has it.
SettledInv ==
    settled # Null =>
        /\ AllTold /\ AllRead
        /\ settled.rows = Scraped
        /\ DOMAIN Scraped \subseteq DOMAIN table
        /\ settled.overwrite => Within(Scraped, table)

\* The scraper is the only one to add texts: the cache still says them.
SourceInv ==
    /\ \A k \in DOMAIN table \ DOMAIN Shipped : k \in DOMAIN Scraped /\ table[k] = Scraped[k]
    /\ upFile # Null => Within(upFile, Scraped)

FilesInv ==
    /\ run.step \in {"emit", "emitDown"} =>
         permanent = Null /\ DOMAIN Scraped \subseteq DOMAIN table
    /\ Running("emitDown") => upFile = Scraped
    /\ permanent # Null => permanent = Over(Shipped, upFile)

Inv == TypeOK /\ NamesInv /\ PagesInv /\ SettledInv /\ SourceInv /\ FilesInv

-----------------------------------------------------------------------------
(* What a run is at each of its steps                                       *)

LEMMA AtStep ==
    ASSUME TypeOK
    PROVE  /\ Running("names") => run \in Naming
           /\ Running("request") => run \in Asking
           /\ Running("keep") => run \in Keeping
           /\ run.step \in {"write", "emit", "emitDown"} => run \in Writing
           /\ run.step \in {"idle", "names", "request", "keep", "write", "emit", "emitDown"}
BY DEF TypeOK, Running, Stopped, Naming, Asking, Keeping, Writing

\* What a run of the pass asks for next.
LEMMA RequestingIs ==
    ASSUME NEW need \in Seq(Titles), NEW at \in Nat \ {0},
           run.overwrite \in BOOLEAN, run.emit \in BOOLEAN
    PROVE  /\ at > Len(need) =>
                /\ Requesting(need, at) \in Writing
                /\ Requesting(need, at).step = "write"
           /\ at <= Len(need) =>
                /\ Requesting(need, at) \in Asking
                /\ Requesting(need, at).step = "request"
                /\ Requesting(need, at).need = need
                /\ Requesting(need, at).at = at
           /\ at > Len(need) \/ at <= Len(need)
BY BatchAssumption, LenProperties DEF Requesting, Writing, Asking

\* Once every name is told, need is the titles without a readable answer.
LEMMA NeedIs ==
    ASSUME TypeOK, AllTold
    PROVE  Need \in Seq(Titles) /\ Injective(Need) /\ Pending(Need, 1)
<1> DEFINE wanted == {id \in Titled : ~Readable(id)}
<1>1. Titled = Titles
    BY DEF AllTold, Told, Titled, Titles
<1>2. wanted \in SUBSET All /\ wanted \in SUBSET Titles
    BY <1>1 DEF Titles
<1>3. Need = Gathered(wanted)
    BY DEF Need
<1> HIDE DEF wanted
<1>4. /\ Need \in Seq(wanted)
      /\ Injective(Need)
      /\ \A id \in wanted : \E n \in 1 .. Len(Need) : Need[n] = id
    BY <1>2, <1>3, GatheredIs
<1>5. Need \in Seq(Titles)
    BY <1>2, <1>4
<1>6. \A m \in 1 .. Len(Need) : Need[m] \in wanted
    BY <1>4, ElementOfSeq
<1>7. Pending(Need, 1)
    BY <1>1, <1>4, <1>6 DEF Pending, wanted
<1> QED BY <1>4, <1>5, <1>7

-----------------------------------------------------------------------------
(* The names                                                                *)

LEMMA TurnIs ==
    ASSUME TypeOK, NameDue
    PROVE  /\ run \in Naming /\ run.at \in 1 .. Len(Ids) /\ Len(Ids) \in Nat
           /\ Ids[run.at] \in All
           /\ NextName => /\ run' \in Naming /\ run'.step = "names"
                          /\ run'.at = run.at + 1
<1>1. Len(Ids) \in Nat /\ DOMAIN Ids = 1 .. Len(Ids)
    BY IdsAssumption, LenProperties
<1>2. run \in Naming /\ run.at \in 1 .. Len(Ids)
    BY <1>1, AtStep DEF NameDue, Naming
<1>3. Ids[run.at] \in All
    BY <1>1, <1>2 DEF All
<1>4. ASSUME NextName
      PROVE  run' \in Naming /\ run'.step = "names" /\ run'.at = run.at + 1
    BY <1>1, <1>2, <1>4 DEF NextName, Naming
<1> QED BY <1>1, <1>2, <1>3, <1>4

LEMMA NamesStep == Inv /\ [Next]_vars => NamesInv'
<1> SUFFICES ASSUME Inv, [Next]_vars PROVE NamesInv'
    OBVIOUS
<1> USE DEF Inv
<1>1. CASE NameFetched
    <2>1. /\ run.at \in 1 .. Len(Ids) /\ Ids[run.at] \in All
          /\ names[Ids[run.at]] = Absent /\ Running("names")
          /\ NextName => run'.step = "names" /\ run'.at = run.at + 1
        BY <1>1, TurnIs DEF NameFetched, NameDue
    <2>2. names \in [All -> {Absent, Torn, "named", "nameless"}]
        BY DEF TypeOK
    <2>3. /\ Len(Ids) \in Nat
          /\ \A n \in 1 .. Len(Ids) : Ids[n] \in All
          /\ \A m, n \in 1 .. Len(Ids) : Ids[m] = Ids[n] => m = n
        BY IdsAssumption, LenProperties DEF All
    <2>4. CASE names' = [names EXCEPT ![Ids[run.at]] = Told(Ids[run.at])] /\ NextName
        <3>1. \A id \in All : names'[id] = IF id = Ids[run.at] THEN Told(id) ELSE names[id]
            BY <2>2, <2>4
        <3>2. \A id \in All : names'[id] \in {Absent, Torn, Told(id)}
            BY <3>1 DEF NamesInv
        <3>3. \A n \in 1 .. Len(Ids) : n < run'.at => names'[Ids[n]] = Told(Ids[n])
            BY <2>1, <2>3, <2>4, <3>1 DEF NamesInv
        <3>4. run'.step = "names"
            BY <2>1, <2>4
        <3> QED BY <3>2, <3>3, <3>4 DEF NamesInv, Running, Told
    <2>5. CASE names' = [names EXCEPT ![Ids[run.at]] = Torn] /\ run' = Stopped
        BY <2>2, <2>5 DEF NamesInv, Running, Stopped, Told
    <2> QED BY <1>1, <2>4, <2>5 DEF NameFetched
<1>2. CASE NameCached
    <2>1. /\ run.at \in 1 .. Len(Ids) /\ Len(Ids) \in Nat /\ Ids[run.at] \in All
          /\ names[Ids[run.at]] # Absent /\ Running("names") /\ names' = names
          /\ NextName => run'.step = "names" /\ run'.at = run.at + 1
        BY <1>2, TurnIs DEF NameCached, NameDue, Caches
    <2>2. CASE names[Ids[run.at]] = Torn /\ run' = Stopped
        BY <2>1, <2>2 DEF NamesInv, Running, Stopped, Told
    <2>3. CASE names[Ids[run.at]] # Torn /\ NextName
        <3>1. names[Ids[run.at]] = Told(Ids[run.at])
            BY <2>1, <2>3 DEF NamesInv
        <3>2. \A n \in 1 .. Len(Ids) : n < run'.at => names[Ids[n]] = Told(Ids[n])
            BY <2>1, <2>3, <3>1 DEF NamesInv
        <3> QED BY <2>1, <2>3, <3>2 DEF NamesInv, Running, Told
    <2> QED BY <1>2, <2>2, <2>3 DEF NameCached
<1>3. CASE ServeFromCache
    <2>1. AllTold
        <3>1. Len(Ids) \in Nat /\ run.at \in Nat /\ All = {Ids[i] : i \in 1 .. Len(Ids)}
            BY <1>3, AtStep, IdsAssumption, LenProperties DEF ServeFromCache, Naming, All
        <3> QED BY <1>3, <3>1 DEF NamesInv, AllTold, ServeFromCache
    <2>2. run'.step \in {"request", "write"} /\ names' = names
        BY <1>3 DEF ServeFromCache, Requesting, Caches
    <2> QED BY <2>1, <2>2 DEF NamesInv, AllTold, Running, Told
<1>4. CASE StartRun
    <2>1. names' = names /\ run'.step = "names" /\ run'.at = 1
        BY <1>4 DEF StartRun, Caches
    <2> QED BY <2>1 DEF NamesInv, Running, Told
<1>5. CASE RunDies
    BY <1>5 DEF RunDies, Caches, NamesInv, Running, Stopped, Told
<1>6. CASE Answered \/ Throttled \/ Keep \/ NextChunk
    <2>1. run.step \notin {"idle", "names"} /\ names' = names
        BY <1>6 DEF Answered, Throttled, Keep, NextChunk, Running, Caches
    <2>2. run'.step # "names"
        <3>1. CASE Answered
            BY <3>1 DEF Answered
        <3>2. CASE Throttled
            BY <3>2, AtStep DEF Throttled, Running, Asking, Stopped
        <3>3. CASE Keep
            BY <3>3, AtStep DEF Keep, Running, Keeping, Stopped
        <3>4. CASE NextChunk
            BY <3>4 DEF NextChunk, Requesting
        <3> QED BY <1>6, <3>1, <3>2, <3>3, <3>4
    <2> QED BY <2>1, <2>2 DEF NamesInv, AllTold, Running, Told
<1>7. CASE Write \/ EmitNothing \/ EmitUp \/ EmitDown
    <2>1. run.step \in {"write", "emit", "emitDown"} /\ names' = names
        BY <1>7 DEF Write, EmitNothing, EmitUp, EmitDown, Running, Caches
    <2>2. run'.step # "names"
        BY <1>7, <2>1, AtStep DEF Write, EmitNothing, EmitUp, EmitDown, Stopped, Writing
    <2> QED BY <2>1, <2>2 DEF NamesInv, AllTold, Running, Told
<1>8. CASE WikiEdit \/ MigrateUp \/ MigrateDown \/ Reload \/ UNCHANGED vars
    <2>1. run' = run /\ names' = names
        BY <1>8 DEF WikiEdit, MigrateUp, MigrateDown, Reload, Moving, Caches, vars
    <2> QED BY <2>1 DEF NamesInv, AllTold, Running, Told
<1> QED BY <1>1, <1>2, <1>3, <1>4, <1>5, <1>6, <1>7, <1>8 DEF Next, Scraper

-----------------------------------------------------------------------------
(* The pages                                                                *)

LEMMA ServeIs ==
    ASSUME Inv, ServeFromCache
    PROVE  /\ AllTold
           /\ Need \in Seq(Titles) /\ Injective(Need) /\ Pending(Need, 1)
           /\ run' = Requesting(Need, 1) /\ UNCHANGED <<names, pages>>
           /\ run.overwrite \in BOOLEAN /\ run.emit \in BOOLEAN
<1>1. run \in Naming /\ run.at > Len(Ids) /\ Running("names")
    BY AtStep DEF Inv, ServeFromCache
<1>2. Len(Ids) \in Nat /\ run.at \in Nat /\ All = {Ids[i] : i \in 1 .. Len(Ids)}
    BY <1>1, IdsAssumption, LenProperties DEF Naming, All
<1>3. AllTold
    BY <1>1, <1>2 DEF Inv, NamesInv, AllTold
<1>4. Need \in Seq(Titles) /\ Injective(Need) /\ Pending(Need, 1)
    BY <1>3, NeedIs DEF Inv
<1> QED BY <1>1, <1>3, <1>4 DEF ServeFromCache, Caches, Naming

LEMMA AnsweredIs ==
    ASSUME Inv, Answered
    PROVE  /\ run' \in Keeping /\ run'.step = "keep"
           /\ run \in Asking /\ Running("request")
           /\ run'.need = run.need /\ run'.at = run.at /\ run'.kept = 0
           /\ DOMAIN run'.got =
                  {Chunk(run.need, run.at)[i] : i \in DOMAIN Chunk(run.need, run.at)}
           /\ UNCHANGED <<names, pages>>
<1>1. run \in Asking /\ Running("request") /\ run.at <= Len(run.need)
    BY AtStep DEF Inv, PagesInv, Answered
<1> DEFINE chunk == Chunk(run.need, run.at)
           asked == {chunk[i] : i \in DOMAIN chunk}
<1>2. /\ run.need \in Seq(Titles) /\ run.at \in Nat \ {0}
      /\ run.overwrite \in BOOLEAN /\ run.emit \in BOOLEAN
    BY <1>1 DEF Asking
<1>3. asked \in SUBSET Titles
    BY <1>1, <1>2, ChunkIs, ElementOfSeq
<1> HIDE DEF chunk
<1>4. PICK cut \in SUBSET asked :
        run' = [step |-> "keep", need |-> run.need, at |-> run.at,
                overwrite |-> run.overwrite, emit |-> run.emit, kept |-> 0,
                got |-> [id \in asked |-> IF id \in cut THEN Blank ELSE wiki[id]]]
    BY DEF Answered, chunk
<1>5. [id \in asked |-> IF id \in cut THEN Blank ELSE wiki[id]] \in [asked -> Answers]
    BY <1>3 DEF Inv, TypeOK, Answers
<1> HIDE DEF asked
<1>6. run' \in Keeping
    BY <1>2, <1>3, <1>4, <1>5 DEF Keeping
<1>7. /\ run'.step = "keep" /\ run'.need = run.need /\ run'.at = run.at /\ run'.kept = 0
      /\ DOMAIN run'.got = asked
    BY <1>4
<1>8. UNCHANGED <<names, pages>>
    BY DEF Answered, Caches
<1> QED BY <1>1, <1>6, <1>7, <1>8 DEF asked, chunk

\* The page a run keeps next is the one need has at that place: nobody has read
\* it, and the answer has it.
LEMMA KeepIs ==
    ASSUME Inv, Running("keep")
    PROVE  LET chunk == Chunk(run.need, run.at)
               id == chunk[run.kept + 1]
           IN /\ run \in Keeping
              /\ run.need \in Seq(Titles) /\ Len(run.need) \in Nat
              /\ run.at \in Nat \ {0} /\ run.kept \in Nat
              /\ Len(chunk) \in 1 .. BatchSize /\ run.at + Len(chunk) <= Len(run.need) + 1
              /\ Len(chunk) = BatchSize \/ run.at + Len(chunk) = Len(run.need) + 1
              /\ run.kept < Len(chunk) =>
                   /\ id = run.need[run.at + run.kept]
                   /\ run.at + run.kept \in 1 .. Len(run.need)
                   /\ id \in Titles /\ ~Readable(id)
                   /\ run.got[id] \in Answers
<1> DEFINE chunk == Chunk(run.need, run.at)
           id == chunk[run.kept + 1]
<1>1. /\ run \in Keeping /\ run.at <= Len(run.need) /\ run.kept <= Len(chunk)
      /\ \A m \in 1 .. Len(chunk) : chunk[m] \in DOMAIN run.got
      /\ Pending(run.need, run.at + run.kept)
    BY AtStep DEF Inv, PagesInv
<1>2. /\ run.need \in Seq(Titles) /\ run.at \in Nat \ {0} /\ run.kept \in Nat
      /\ run.got \in UNION {[asked -> Answers] : asked \in SUBSET Titles}
      /\ Len(run.need) \in Nat
    BY <1>1, LenProperties DEF Keeping
<1>3. /\ Len(chunk) \in 1 .. BatchSize /\ run.at + Len(chunk) <= Len(run.need) + 1
      /\ \A m \in 1 .. Len(chunk) : chunk[m] = run.need[run.at + m - 1]
      /\ Len(chunk) = BatchSize \/ run.at + Len(chunk) = Len(run.need) + 1
    BY <1>1, <1>2, ChunkIs
<1> HIDE DEF chunk
<1>4. ASSUME run.kept < Len(chunk)
      PROVE  /\ id = run.need[run.at + run.kept]
             /\ run.at + run.kept \in 1 .. Len(run.need)
             /\ id \in Titles /\ ~Readable(id)
             /\ run.got[id] \in Answers
    <2>1. run.kept + 1 \in 1 .. Len(chunk) /\ run.at + run.kept \in 1 .. Len(run.need)
        <3>1. /\ Len(run.need) \in Nat /\ run.at \in Nat \ {0} /\ run.kept \in Nat
              /\ Len(chunk) \in Nat /\ run.at + Len(chunk) <= Len(run.need) + 1
            BY <1>2, <1>3, BatchAssumption
        <3>2. run.kept + 1 \in 1 .. Len(chunk)
            BY <1>4, <3>1
        <3>3. run.at + run.kept >= 1
            BY <3>1
        <3>4. run.at + run.kept <= Len(run.need)
            BY <1>4, <3>1
        <3> QED BY <3>1, <3>2, <3>3, <3>4
    <2>2. id = run.need[run.at + run.kept]
        <3>1. run.at + (run.kept + 1) - 1 = run.at + run.kept
            BY <1>2
        <3> QED BY <1>3, <2>1, <3>1
    <2>3. id \in Titles
        BY <1>2, <2>1, <2>2, ElementOfSeq
    <2>4. ~Readable(id)
        BY <1>1, <1>2, <2>1, <2>2 DEF Pending
    <2>5. id \in DOMAIN run.got
        BY <1>1, <2>1
    <2> HIDE DEF id
    <2>6. run.got[id] \in Answers
        BY <1>2, <2>5
    <2> QED BY <2>1, <2>2, <2>3, <2>4, <2>6
<1> QED BY <1>1, <1>2, <1>3, <1>4 DEF chunk

LEMMA PagesStep == Inv /\ [Next]_vars => PagesInv'
<1> SUFFICES ASSUME Inv, [Next]_vars PROVE PagesInv'
    OBVIOUS
<1> USE DEF Inv
<1>1. CASE StartRun \/ RunDies \/ NameCached \/ NameFetched
    <2>1. run'.step \in {"idle", "names"}
        <3>1. CASE NameCached
            BY <3>1, TurnIs DEF NameCached, Stopped
        <3>2. CASE NameFetched
            BY <3>2, TurnIs DEF NameFetched, Stopped
        <3> QED BY <1>1, <3>1, <3>2 DEF StartRun, RunDies, Stopped
    <2> QED BY <2>1 DEF PagesInv, Running
<1>2. CASE ServeFromCache
    <2>1. /\ Need \in Seq(Titles) /\ Injective(Need) /\ Pending(Need, 1)
          /\ run' = Requesting(Need, 1) /\ pages' = pages
          /\ run.overwrite \in BOOLEAN /\ run.emit \in BOOLEAN
        BY <1>2, ServeIs
    <2>2. Len(Need) \in Nat
        BY <2>1, LenProperties
    <2>3. CASE 1 > Len(Need)
        <3>1. run'.step = "write"
            BY <2>1, <2>3, RequestingIs
        <3>2. AllRead
            BY <2>1, <2>2, <2>3 DEF Pending, AllRead
        <3> QED BY <2>1, <3>1, <3>2 DEF PagesInv, Running, AllRead, Readable
    <2>4. CASE 1 <= Len(Need)
        <3>1. run'.step = "request" /\ run'.need = Need /\ run'.at = 1
            BY <2>1, <2>4, RequestingIs
        <3>2. Injective(run.need)' /\ Pending(run.need, run.at)'
            BY <2>1, <3>1 DEF Injective, Pending, Readable
        <3> QED BY <2>4, <3>1, <3>2 DEF PagesInv, Running
    <2> QED BY <2>2, <2>3, <2>4
<1>3. CASE Answered
    <2>1. /\ run'.step = "keep" /\ run \in Asking /\ Running("request")
          /\ run'.need = run.need /\ run'.at = run.at /\ run'.kept = 0
          /\ DOMAIN run'.got =
                 {Chunk(run.need, run.at)[i] : i \in DOMAIN Chunk(run.need, run.at)}
          /\ pages' = pages
        BY <1>3, AnsweredIs
    <2>2. /\ run.at <= Len(run.need) /\ Injective(run.need) /\ Pending(run.need, run.at)
          /\ run.need \in Seq(Titles) /\ run.at \in Nat \ {0}
        BY <2>1 DEF PagesInv, Asking
    <2>3. /\ Len(Chunk(run.need, run.at)) \in Nat
          /\ \A m \in 1 .. Len(Chunk(run.need, run.at)) :
                 Chunk(run.need, run.at)[m] \in DOMAIN run'.got
        BY <2>1, <2>2, ChunkIs
    <2>4. Chunk(run.need, run.at)' = Chunk(run.need, run.at)
        BY <2>1 DEF Chunk
    <2>5. Injective(run.need)' /\ Pending(run.need, run.at + run.kept)'
        <3>1. run'.at + run'.kept = run.at
            BY <2>1, <2>2
        <3> QED BY <2>1, <2>2, <3>1 DEF Injective, Pending, Readable
    <2> QED BY <2>1, <2>2, <2>3, <2>4, <2>5 DEF PagesInv, Running
<1>4. CASE Throttled
    <2>1. run \in Asking /\ Running("request") /\ pages' = pages
        BY <1>4, AtStep DEF Throttled, Caches
    <2>2. CASE run' = Stopped
        BY <2>2 DEF PagesInv, Running, Stopped
    <2>3. CASE run' = [run EXCEPT !.attempt = @ + 1]
        <3>1. run'.step = "request" /\ run'.need = run.need /\ run'.at = run.at
            BY <2>1, <2>3 DEF Asking, Running
        <3>2. /\ run.at <= Len(run.need) /\ Injective(run.need)
              /\ Pending(run.need, run.at)
            BY <2>1 DEF PagesInv
        <3>3. Injective(run.need)' /\ Pending(run.need, run.at)'
            BY <2>1, <3>1, <3>2 DEF Injective, Pending, Readable
        <3> QED BY <3>1, <3>2, <3>3 DEF PagesInv, Running
    <2> QED BY <1>4, <2>2, <2>3 DEF Throttled
<1>5. CASE Keep
    <2> DEFINE chunk == Chunk(run.need, run.at)
               id == chunk[run.kept + 1]
    <2>1. /\ run \in Keeping /\ Running("keep") /\ run.kept < Len(chunk)
          /\ run.need \in Seq(Titles) /\ Len(run.need) \in Nat
          /\ run.at \in Nat \ {0} /\ run.kept \in Nat /\ Len(chunk) \in Nat
          /\ id = run.need[run.at + run.kept]
          /\ run.at + run.kept \in 1 .. Len(run.need)
          /\ id \in Titles /\ run.got[id] \in Answers
        BY <1>5, KeepIs DEF Keep
    <2> HIDE DEF id, chunk
    <2>2. CASE run' = Stopped
        BY <2>2 DEF PagesInv, Running, Stopped
    <2>3. CASE pages' = [pages EXCEPT ![id] = run.got[id]] /\ run' = [run EXCEPT !.kept = @ + 1]
        <3>1. /\ run'.step = "keep" /\ run'.need = run.need /\ run'.at = run.at
              /\ run'.kept = run.kept + 1 /\ run'.got = run.got
            BY <2>1, <2>3 DEF Keeping, Running
        <3>2. /\ run.at <= Len(run.need) /\ Injective(run.need)
              /\ \A m \in 1 .. Len(chunk) : chunk[m] \in DOMAIN run.got
              /\ Pending(run.need, run.at + run.kept)
            BY <2>1 DEF PagesInv, chunk
        <3>3. chunk' = chunk
            BY <3>1 DEF chunk, Chunk
        <3>4. \A t \in Titles : Readable(t)' <=> (t = id \/ Readable(t))
            BY <2>1, <2>3 DEF TypeOK, Readable
        <3>5. \A m \in 1 .. Len(run.need) : run.need[m] \in Titles
            BY <2>1, ElementOfSeq
        <3>6. \A m \in 1 .. Len(run.need) :
                  m >= run.at + run.kept + 1 => run.need[m] # id /\ ~Readable(run.need[m])
            BY <2>1, <3>2 DEF Injective, Pending
        <3>7. \A m \in 1 .. Len(run'.need) : m >= run'.at + run'.kept => ~Readable(run.need[m])'
            BY <2>1, <3>1, <3>4, <3>5, <3>6
        <3>8. ASSUME NEW t \in Titles, ~Readable(t)'
              PROVE  \E m \in 1 .. Len(run'.need) : m >= run'.at + run'.kept /\ run'.need[m] = t
            <4>1. t # id /\ ~Readable(t)
                BY <3>4, <3>8
            <4>2. PICK m \in 1 .. Len(run.need) : m >= run.at + run.kept /\ run.need[m] = t
                BY <3>2, <4>1 DEF Pending
            <4>3. m # run.at + run.kept
                BY <2>1, <4>1, <4>2
            <4>4. m >= run.at + (run.kept + 1)
                BY <2>1, <4>2, <4>3
            <4> QED BY <3>1, <4>2, <4>4
        <3>9. Pending(run.need, run.at + run.kept)'
            BY <3>7, <3>8 DEF Pending
        <3>10. Injective(run.need)'
            BY <3>1, <3>2 DEF Injective
        <3>11. run'.kept <= Len(chunk')
            BY <2>1, <3>1, <3>3
        <3> QED BY <3>1, <3>2, <3>3, <3>9, <3>10, <3>11 DEF PagesInv, Running, chunk
    <2> QED BY <1>5, <2>2, <2>3 DEF Keep, chunk, id
<1>6. CASE NextChunk
    <2> DEFINE chunk == Chunk(run.need, run.at)
    <2>1. /\ run \in Keeping /\ Running("keep") /\ run.kept = Len(chunk)
          /\ run.need \in Seq(Titles) /\ Len(run.need) \in Nat
          /\ run.at \in Nat \ {0} /\ Len(chunk) \in 1 .. BatchSize
          /\ run.at + Len(chunk) <= Len(run.need) + 1
          /\ Len(chunk) = BatchSize \/ run.at + Len(chunk) = Len(run.need) + 1
        BY <1>6, KeepIs DEF NextChunk
    <2>2. Injective(run.need) /\ Pending(run.need, run.at + run.kept)
        BY <2>1 DEF PagesInv
    <2> HIDE DEF chunk
    <2>3. /\ run' = Requesting(run.need, run.at + BatchSize) /\ pages' = pages
          /\ run.at + BatchSize \in Nat \ {0}
          /\ run.overwrite \in BOOLEAN /\ run.emit \in BOOLEAN
        BY <1>6, <2>1, BatchAssumption DEF NextChunk, Following, Caches, Keeping
    <2>4. CASE run.at + BatchSize > Len(run.need)
        <3>1. run'.step = "write"
            BY <2>1, <2>3, <2>4, RequestingIs
        <3>2. run.at + run.kept = Len(run.need) + 1
            BY <2>1, <2>4, BatchAssumption
        <3>3. AllRead
            BY <2>1, <2>2, <3>2 DEF Pending, AllRead
        <3> QED BY <2>3, <3>1, <3>3 DEF PagesInv, Running, AllRead, Readable
    <2>5. CASE run.at + BatchSize <= Len(run.need)
        <3>1. /\ run'.step = "request" /\ run'.need = run.need
              /\ run'.at = run.at + BatchSize
            BY <2>1, <2>3, <2>5, RequestingIs
        <3>2. run'.at = run.at + run.kept
            BY <2>1, <2>5, <3>1, BatchAssumption
        <3>3. Injective(run.need)' /\ Pending(run.need, run.at)'
            BY <2>2, <2>3, <3>1, <3>2 DEF Injective, Pending, Readable
        <3> QED BY <2>5, <3>1, <3>3 DEF PagesInv, Running
    <2> QED BY <2>1, <2>3, <2>4, <2>5
<1>7. CASE Write \/ EmitNothing \/ EmitUp \/ EmitDown
    <2>1. run.step \in {"write", "emit", "emitDown"} /\ pages' = pages /\ run \in Writing
        BY <1>7, AtStep DEF Write, EmitNothing, EmitUp, EmitDown, Running, Caches
    <2>2. run'.step \in {"idle", "emit", "emitDown"}
        BY <1>7, <2>1 DEF Write, EmitNothing, EmitUp, EmitDown, Stopped, Writing
    <2>3. AllRead
        BY <2>1 DEF PagesInv
    <2> QED BY <2>1, <2>2, <2>3 DEF PagesInv, Running, AllRead, Readable
<1>8. CASE WikiEdit \/ MigrateUp \/ MigrateDown \/ Reload \/ UNCHANGED vars
    <2>1. run' = run /\ pages' = pages
        BY <1>8 DEF WikiEdit, MigrateUp, MigrateDown, Reload, Moving, Caches, vars
    <2> QED BY <2>1 DEF PagesInv, Running, Injective, Pending, AllRead, Readable, Chunk
<1> QED BY <1>1, <1>2, <1>3, <1>4, <1>5, <1>6, <1>7, <1>8 DEF Next, Scraper

-----------------------------------------------------------------------------
(* What is in the cache stays there                                         *)

LEMMA CacheKept ==
    Inv /\ [Next]_vars =>
        /\ \A id \in All : names[id] \in {"named", "nameless"} => names'[id] = names[id]
        /\ \A id \in Titles : pages[id] \in Answers => pages'[id] = pages[id]
<1> SUFFICES ASSUME Inv, [Next]_vars
             PROVE  /\ \A id \in All : names[id] \in {"named", "nameless"} =>
                           names'[id] = names[id]
                    /\ \A id \in Titles : pages[id] \in Answers => pages'[id] = pages[id]
    OBVIOUS
<1>1. CASE NameFetched
    <2>1. names[Ids[run.at]] = Absent /\ pages' = pages
        BY <1>1 DEF NameFetched
    <2>2. \E answer : names' = [names EXCEPT ![Ids[run.at]] = answer]
        BY <1>1 DEF NameFetched
    <2> QED BY <2>1, <2>2, ValuesAssumption DEF Inv, TypeOK
<1>2. CASE Keep
    <2> DEFINE id == Chunk(run.need, run.at)[run.kept + 1]
    <2>1. ~Readable(id) /\ names' = names
        BY <1>2, KeepIs DEF Keep
    <2>2. \E page : pages' = [pages EXCEPT ![id] = page]
        BY <1>2 DEF Keep
    <2> HIDE DEF id
    <2> QED BY <2>1, <2>2 DEF Readable, Inv, TypeOK
<1>3. CASE UNCHANGED <<names, pages>>
    BY <1>3
<1> QED BY <1>1, <1>2, <1>3
        DEF Next, Scraper, StartRun, NameCached, ServeFromCache, Answered, Throttled,
            NextChunk, Write, EmitNothing, EmitUp, EmitDown, RunDies, WikiEdit,
            MigrateUp, MigrateDown, Reload, Moving, Caches, vars

LEMMA ScrapedGrows == Inv /\ [Next]_vars => Within(Scraped, Scraped')
<1> SUFFICES ASSUME Inv, [Next]_vars PROVE Within(Scraped, Scraped')
    OBVIOUS
<1>1. \A id \in Titles : names[id] = "named" => names'[id] = "named"
    BY CacheKept DEF Titles
<1>2. \A id \in Titles : pages[id] \in Revisions => pages'[id] = pages[id]
    BY CacheKept DEF Answers
<1>3. Within(ScrapedIn(names, pages), ScrapedIn(names', pages'))
    BY <1>1, <1>2, HeardAgain
<1> QED BY <1>3, ScrapedIs

\* Nothing left to ask for: what is scraped no longer changes.
LEMMA ScrapedStays ==
    Inv /\ [Next]_vars /\ AllTold /\ AllRead => /\ AllTold' /\ AllRead'
                                               /\ Scraped' = Scraped
<1> SUFFICES ASSUME Inv, [Next]_vars, AllTold, AllRead
             PROVE  AllTold' /\ AllRead' /\ Scraped' = Scraped
    OBVIOUS
<1>1. names' = names
    <2>1. names \in [All -> {Absent, Torn, "named", "nameless"}]
        BY DEF Inv, TypeOK
    <2>2. CASE NameFetched
        <3>1. Ids[run.at] \in All /\ names[Ids[run.at]] = Absent
            BY <2>2, TurnIs DEF NameFetched, Inv
        <3> QED BY <3>1, ValuesAssumption DEF AllTold, Told
    <2>3. CASE ~NameFetched
        BY <2>3
        DEF Next, Scraper, StartRun, NameCached, ServeFromCache, Answered, Throttled, Keep,
            NextChunk, Write, EmitNothing, EmitUp, EmitDown, RunDies, WikiEdit,
            MigrateUp, MigrateDown, Reload, Moving, Caches, vars
    <2> QED BY <2>2, <2>3
<1>2. pages' = pages
    <2>1. ~Keep
        BY KeepIs DEF Keep, AllRead
    <2> QED BY <2>1
        DEF Next, Scraper, StartRun, NameCached, NameFetched, ServeFromCache, Answered,
            Throttled, NextChunk, Write, EmitNothing, EmitUp, EmitDown, RunDies, WikiEdit,
            MigrateUp, MigrateDown, Reload, Moving, Caches, vars
<1>3. Scraped' = Scraped
    BY <1>1, <1>2, ScrapedIs
<1> QED BY <1>1, <1>2, <1>3 DEF AllTold, AllRead, Told, Readable

-----------------------------------------------------------------------------
(* The types                                                                *)

LEMMA TypeStep == Inv /\ [Next]_vars => TypeOK'
<1> SUFFICES ASSUME Inv, [Next]_vars PROVE TypeOK'
    OBVIOUS
<1>0. TypeOK
    BY DEF Inv
<1>1. wiki' \in [Titles -> Revisions \cup {Missing}]
    <2>1. wiki \in [Titles -> Revisions \cup {Missing}]
        BY <1>0 DEF TypeOK
    <2>2. CASE WikiEdit
        BY <2>1, <2>2 DEF WikiEdit
    <2>3. CASE ~WikiEdit
        <3>1. wiki' = wiki
            BY <2>3
            DEF Next, Scraper, StartRun, NameCached, NameFetched, ServeFromCache, Answered,
                Throttled, Keep, NextChunk, Write, EmitNothing, EmitUp, EmitDown, RunDies,
                MigrateUp, MigrateDown, Reload, Moving, World, vars
        <3> QED BY <2>1, <3>1
    <2> QED BY <2>2, <2>3
<1>2. names' \in [All -> {Absent, Torn, "named", "nameless"}]
    <2>1. names \in [All -> {Absent, Torn, "named", "nameless"}]
        BY <1>0 DEF TypeOK
    <2>2. CASE NameFetched
        BY <2>1, <2>2 DEF NameFetched, Told
    <2>3. CASE ~NameFetched
        <3>1. names' = names
            BY <2>3
            DEF Next, Scraper, StartRun, NameCached, ServeFromCache, Answered, Throttled,
                Keep, NextChunk, Write, EmitNothing, EmitUp, EmitDown, RunDies, WikiEdit,
                MigrateUp, MigrateDown, Reload, Moving, Caches, vars
        <3> QED BY <2>1, <3>1
    <2> QED BY <2>2, <2>3
<1>3. pages' \in [Titles -> Answers \cup {Absent, Torn}]
    <2>1. pages \in [Titles -> Answers \cup {Absent, Torn}]
        BY <1>0 DEF TypeOK
    <2>2. CASE Keep
        <3> DEFINE id == Chunk(run.need, run.at)[run.kept + 1]
        <3>1. run.got[id] \in Answers
            BY <2>2, KeepIs DEF Keep
        <3>2. \E page \in Answers \cup {Torn} : pages' = [pages EXCEPT ![id] = page]
            BY <2>2, <3>1 DEF Keep
        <3> HIDE DEF id
        <3> QED BY <2>1, <3>2
    <2>3. CASE ~Keep
        <3>1. pages' = pages
            BY <2>3
            DEF Next, Scraper, StartRun, NameCached, NameFetched, ServeFromCache, Answered,
                Throttled, NextChunk, Write, EmitNothing, EmitUp, EmitDown, RunDies,
                WikiEdit, MigrateUp, MigrateDown, Reload, Moving, Caches, vars
        <3> QED BY <2>1, <3>1
    <2> QED BY <2>2, <2>3
<1>4. IsTable(Scraped)
    BY Heard, ScrapedIs
<1>5. IsTable(table')
    <2>1. IsTable(table)
        BY <1>0 DEF TypeOK
    <2>2. CASE Write
        BY <2>2, OverIs DEF Write, Upsert
    <2>3. CASE MigrateUp
        BY <2>3, OverIs DEF MigrateUp, Inserted
    <2>4. CASE MigrateDown
        BY <2>4 DEF MigrateDown, IsTable
    <2>5. CASE Reload
        BY <2>5, ShippedAssumption DEF Reload
    <2>6. CASE table' = table
        BY <2>1, <2>6
    <2> QED BY <2>2, <2>3, <2>4, <2>5, <2>6
        DEF Next, Scraper, StartRun, NameCached, NameFetched, ServeFromCache, Answered,
            Throttled, Keep, NextChunk, EmitNothing, EmitUp, EmitDown, RunDies,
            WikiEdit, Database, vars
<1>6. upFile' # Null => IsTable(upFile')
    <2>1. upFile # Null => IsTable(upFile)
        BY <1>0 DEF TypeOK
    <2>2. CASE EmitUp
        BY <1>4, <2>2, NoRowsIs DEF EmitUp
    <2>3. CASE upFile' = upFile
        BY <2>1, <2>3
    <2> QED BY <2>2, <2>3
        DEF Next, Scraper, StartRun, NameCached, NameFetched, ServeFromCache, Answered,
            Throttled, Keep, NextChunk, Write, EmitNothing, EmitDown, RunDies,
            WikiEdit, MigrateUp, MigrateDown, Reload, Moving, Files, vars
<1>7. permanent' # Null => IsTable(permanent')
    <2>1. (permanent # Null => IsTable(permanent)) /\ IsTable(table)
        BY <1>0 DEF TypeOK
    <2>2. CASE permanent' \in {permanent, table, Null}
        BY <2>1, <2>2
    <2> QED BY <2>2
        DEF Next, Scraper, StartRun, NameCached, NameFetched, ServeFromCache, Answered,
            Throttled, Keep, NextChunk, Write, EmitNothing, EmitUp, EmitDown, RunDies,
            WikiEdit, MigrateUp, MigrateDown, Reload, Moving, Files, vars
<1>8. settled' # Null => IsTable(settled'.rows) /\ settled'.overwrite \in BOOLEAN
    <2>1. settled # Null => IsTable(settled.rows) /\ settled.overwrite \in BOOLEAN
        BY <1>0 DEF TypeOK
    <2>2. CASE Write
        <3>1. run.overwrite \in BOOLEAN
            BY <1>0, <2>2, AtStep DEF Write, Running, Writing
        <3> QED BY <1>4, <2>2, <3>1 DEF Write
    <2>3. CASE settled' \in {settled, Null}
        BY <2>1, <2>3
    <2> QED BY <2>2, <2>3
        DEF Next, Scraper, StartRun, NameCached, NameFetched, ServeFromCache, Answered,
            Throttled, Keep, NextChunk, EmitNothing, EmitUp, EmitDown, RunDies,
            WikiEdit, MigrateUp, MigrateDown, Reload, Moving, Database, vars
<1>9. bounds' \in [runs : 0 .. MaxRuns, edits : 0 .. MaxEdits, moves : 0 .. MaxMoves]
    <2>1. bounds \in [runs : 0 .. MaxRuns, edits : 0 .. MaxEdits, moves : 0 .. MaxMoves]
        BY <1>0 DEF TypeOK
    <2>2. CASE StartRun
        BY <2>1, <2>2, BoundsAssumption DEF StartRun
    <2>3. CASE WikiEdit
        BY <2>1, <2>3, BoundsAssumption DEF WikiEdit
    <2>4. CASE MigrateUp \/ MigrateDown \/ Reload
        BY <2>1, <2>4, BoundsAssumption DEF MigrateUp, MigrateDown, Reload, Moving
    <2>5. CASE bounds' = bounds
        BY <2>1, <2>5
    <2> QED BY <2>2, <2>3, <2>4, <2>5
        DEF Next, Scraper, NameCached, NameFetched, ServeFromCache, Answered, Throttled,
            Keep, NextChunk, Write, EmitNothing, EmitUp, EmitDown, RunDies, World, vars
<1>10. run' \in {Stopped} \cup Naming \cup Asking \cup Keeping \cup Writing
    <2>1. run \in {Stopped} \cup Naming \cup Asking \cup Keeping \cup Writing
        BY <1>0 DEF TypeOK
    <2>2. CASE StartRun
        <3>1. Len(Ids) \in Nat
            BY IdsAssumption, LenProperties
        <3> QED BY <2>2, <3>1 DEF StartRun, Naming
    <2>3. CASE NameCached \/ NameFetched
        <3>1. run' = Stopped \/ (NameDue /\ NextName)
            BY <2>3 DEF NameCached, NameFetched
        <3> QED BY <1>0, <3>1, TurnIs
    <2>4. CASE ServeFromCache
        <3>1. run' \in Asking \cup Writing
            BY <2>4, ServeIs, RequestingIs
        <3> QED BY <3>1
    <2>5. CASE Answered
        BY <2>5, AnsweredIs
    <2>6. CASE Throttled
        <3>1. run \in Asking
            BY <1>0, <2>6, AtStep DEF Throttled
        <3> QED BY <2>6, <3>1, BatchAssumption DEF Throttled, Asking
    <2>7. CASE Keep
        <3>1. run \in Keeping
            BY <2>7, KeepIs DEF Keep
        <3> QED BY <2>7, <3>1 DEF Keep, Keeping
    <2>8. CASE NextChunk
        <3>1. run \in Keeping
            BY <2>8, KeepIs DEF NextChunk
        <3>2. /\ run.need \in Seq(Titles) /\ run.at + BatchSize \in Nat \ {0}
              /\ run.overwrite \in BOOLEAN /\ run.emit \in BOOLEAN
            BY <3>1, BatchAssumption DEF Keeping
        <3>3. run' \in Asking \cup Writing
            BY <2>8, <3>2, RequestingIs DEF NextChunk, Following
        <3> QED BY <3>3
    <2>9. CASE Write \/ EmitNothing \/ EmitUp \/ EmitDown
        <3>1. run \in Writing
            BY <1>0, <2>9, AtStep DEF Write, EmitNothing, EmitUp, EmitDown, Running
        <3> QED BY <2>9, <3>1 DEF Write, EmitNothing, EmitUp, EmitDown, Writing
    <2>10. CASE RunDies
        BY <2>10 DEF RunDies
    <2>11. CASE run' = run
        BY <2>1, <2>11
    <2> QED BY <2>2, <2>3, <2>4, <2>5, <2>6, <2>7, <2>8, <2>9, <2>10, <2>11
        DEF Next, Scraper, WikiEdit, MigrateUp, MigrateDown, Reload, Moving, vars
<1> QED BY <1>1, <1>2, <1>3, <1>5, <1>6, <1>7, <1>8, <1>9, <1>10 DEF TypeOK

-----------------------------------------------------------------------------
(* The table and the files                                                  *)

\* When a run has its rows there is nothing left to ask for.
LEMMA ReadThrough ==
    ASSUME Inv, run.step \in {"write", "emit", "emitDown"}
    PROVE  AllTold /\ AllRead
BY DEF Inv, NamesInv, PagesInv

LEMMA WriteIs ==
    ASSUME Inv, Write
    PROVE  /\ DOMAIN table' = DOMAIN table \cup DOMAIN Scraped
           /\ \A k \in DOMAIN table' :
                  \/ k \in DOMAIN Scraped /\ table'[k] = Scraped[k]
                  \/ k \in DOMAIN table /\ table'[k] = table[k]
           /\ run.overwrite => Within(Scraped, table')
           /\ ~run.overwrite => Within(table, table')
           /\ run.overwrite \in BOOLEAN
           /\ AllTold /\ AllRead
<1>1. table' = IF run.overwrite THEN Over(Scraped, table) ELSE Over(table, Scraped)
    BY DEF Write, Upsert
<1>2. run.overwrite \in BOOLEAN
    BY AtStep DEF Inv, Write, Running, Writing
<1>3. AllTold /\ AllRead
    BY ReadThrough DEF Write, Running
<1>4. CASE run.overwrite
    <2>1. /\ DOMAIN Over(Scraped, table) = DOMAIN Scraped \cup DOMAIN table
          /\ \A k \in DOMAIN Scraped : Over(Scraped, table)[k] = Scraped[k]
          /\ \A k \in DOMAIN table \ DOMAIN Scraped : Over(Scraped, table)[k] = table[k]
        BY OverIs
    <2>2. table' = Over(Scraped, table)
        BY <1>1, <1>4
    <2>3. Within(Scraped, table')
        BY <2>1, <2>2 DEF Within
    <2>4. /\ DOMAIN table' = DOMAIN table \cup DOMAIN Scraped
          /\ \A k \in DOMAIN table' :
                 \/ k \in DOMAIN Scraped /\ table'[k] = Scraped[k]
                 \/ k \in DOMAIN table /\ table'[k] = table[k]
        BY <2>1, <2>2
    <2> QED BY <1>2, <1>3, <1>4, <2>3, <2>4
<1>5. CASE ~run.overwrite
    <2>1. /\ DOMAIN Over(table, Scraped) = DOMAIN table \cup DOMAIN Scraped
          /\ \A k \in DOMAIN table : Over(table, Scraped)[k] = table[k]
          /\ \A k \in DOMAIN Scraped \ DOMAIN table : Over(table, Scraped)[k] = Scraped[k]
        BY OverIs
    <2>2. table' = Over(table, Scraped)
        BY <1>1, <1>5
    <2>3. Within(table, table')
        BY <2>1, <2>2 DEF Within
    <2>4. /\ DOMAIN table' = DOMAIN table \cup DOMAIN Scraped
          /\ \A k \in DOMAIN table' :
                 \/ k \in DOMAIN Scraped /\ table'[k] = Scraped[k]
                 \/ k \in DOMAIN table /\ table'[k] = table[k]
        BY <2>1, <2>2
    <2> QED BY <1>2, <1>3, <1>5, <2>3, <2>4
<1> QED BY <1>2, <1>4, <1>5

LEMMA SettledStep == Inv /\ [Next]_vars => SettledInv'
<1> SUFFICES ASSUME Inv, [Next]_vars, settled' # Null
             PROVE  /\ AllTold' /\ AllRead'
                    /\ settled'.rows = Scraped'
                    /\ DOMAIN Scraped' \subseteq DOMAIN table'
                    /\ settled'.overwrite => Within(Scraped', table')
    BY DEF SettledInv
<1>1. CASE Write
    <2>1. AllTold' /\ AllRead' /\ Scraped' = Scraped
        BY <1>1, WriteIs, ScrapedStays
    <2>2. settled'.rows = Scraped /\ settled'.overwrite = run.overwrite
        BY <1>1 DEF Write
    <2> QED BY <1>1, <2>1, <2>2, WriteIs
<1>2. CASE UNCHANGED <<settled, table>>
    <2>1. /\ AllTold /\ AllRead /\ settled.rows = Scraped
          /\ DOMAIN Scraped \subseteq DOMAIN table
          /\ settled.overwrite => Within(Scraped, table)
        BY <1>2 DEF Inv, SettledInv
    <2>2. AllTold' /\ AllRead' /\ Scraped' = Scraped
        BY <2>1, ScrapedStays
    <2> QED BY <1>2, <2>1, <2>2
<1> QED BY <1>1, <1>2
        DEF Next, Scraper, StartRun, NameCached, NameFetched, ServeFromCache, Answered,
            Throttled, Keep, NextChunk, EmitNothing, EmitUp, EmitDown, RunDies,
            WikiEdit, MigrateUp, MigrateDown, Reload, Moving, Database, vars

LEMMA SourceStep == Inv /\ [Next]_vars => SourceInv'
<1> SUFFICES ASSUME Inv, [Next]_vars PROVE SourceInv'
    OBVIOUS
<1>1. /\ \A k \in DOMAIN table \ DOMAIN Shipped :
             k \in DOMAIN Scraped /\ table[k] = Scraped[k]
      /\ upFile # Null => Within(upFile, Scraped)
    BY DEF Inv, SourceInv
<1>2. Within(Scraped, Scraped')
    BY ScrapedGrows
<1>3. \A k \in DOMAIN table' \ DOMAIN Shipped :
          k \in DOMAIN Scraped' /\ table'[k] = Scraped'[k]
    <2>1. CASE Write
        BY <1>1, <1>2, <2>1, WriteIs DEF Within
    <2>2. CASE MigrateUp
        <3>1. /\ DOMAIN Over(table, upFile) = DOMAIN table \cup DOMAIN upFile
              /\ \A k \in DOMAIN table : Over(table, upFile)[k] = table[k]
              /\ \A k \in DOMAIN upFile \ DOMAIN table : Over(table, upFile)[k] = upFile[k]
            BY OverIs
        <3>2. table' = Over(table, upFile) /\ Within(upFile, Scraped)
            BY <1>1, <2>2 DEF MigrateUp, Inserted
        <3> QED BY <1>1, <1>2, <3>1, <3>2 DEF Within
    <2>3. CASE MigrateDown
        BY <1>1, <1>2, <2>3 DEF MigrateDown, Within
    <2>4. CASE Reload
        BY <2>4 DEF Reload
    <2>5. CASE table' = table
        BY <1>1, <1>2, <2>5 DEF Within
    <2> QED BY <2>1, <2>2, <2>3, <2>4, <2>5
        DEF Next, Scraper, StartRun, NameCached, NameFetched, ServeFromCache, Answered,
            Throttled, Keep, NextChunk, EmitNothing, EmitUp, EmitDown, RunDies,
            WikiEdit, Database, vars
<1>4. upFile' # Null => Within(upFile', Scraped')
    <2>1. CASE EmitUp
        BY <1>2, <2>1, NoRowsIs DEF EmitUp, Within
    <2>2. CASE upFile' = upFile
        BY <1>1, <1>2, <2>2 DEF Within
    <2> QED BY <2>1, <2>2
        DEF Next, Scraper, StartRun, NameCached, NameFetched, ServeFromCache, Answered,
            Throttled, Keep, NextChunk, Write, EmitNothing, EmitDown, RunDies,
            WikiEdit, MigrateUp, MigrateDown, Reload, Moving, Files, vars
<1> QED BY <1>3, <1>4 DEF SourceInv

\* The table a run emits from, where it has every shipped text, is what its
\* file adds to the shipped tables.
LEMMA EmitDownIs ==
    ASSUME Inv, EmitDown, permanent' # Null
    PROVE  permanent' = Over(Shipped, upFile)
<1>0. permanent = Null
    BY DEF EmitDown, Running, Inv, FilesInv
<1>1. /\ permanent' = table
      /\ \A k \in DOMAIN Shipped : k \in DOMAIN table /\ table[k] = Shipped[k]
    BY <1>0 DEF EmitDown
<1>2. /\ upFile = Scraped /\ DOMAIN Scraped \subseteq DOMAIN table
      /\ \A k \in DOMAIN table \ DOMAIN Shipped :
             k \in DOMAIN Scraped /\ table[k] = Scraped[k]
      /\ IsTable(table)
    BY DEF EmitDown, Running, Inv, FilesInv, SourceInv, TypeOK
<1>3. /\ DOMAIN Over(Shipped, upFile) = DOMAIN table
      /\ \A k \in DOMAIN table : Over(Shipped, upFile)[k] = table[k]
      /\ IsTable(Over(Shipped, upFile))
    <2>1. /\ DOMAIN Over(Shipped, upFile) = DOMAIN Shipped \cup DOMAIN upFile
          /\ \A k \in DOMAIN Shipped : Over(Shipped, upFile)[k] = Shipped[k]
          /\ \A k \in DOMAIN upFile \ DOMAIN Shipped : Over(Shipped, upFile)[k] = upFile[k]
          /\ IsTable(Over(Shipped, upFile))
        BY OverIs
    <2> QED BY <1>1, <1>2, <2>1
<1> QED BY <1>1, <1>2, <1>3, TablesEqual

LEMMA FilesStep == Inv /\ [Next]_vars => FilesInv'
<1> SUFFICES ASSUME Inv, [Next]_vars PROVE FilesInv'
    OBVIOUS
<1>1. /\ run.step \in {"emit", "emitDown"} =>
           permanent = Null /\ DOMAIN Scraped \subseteq DOMAIN table
      /\ Running("emitDown") => upFile = Scraped
      /\ permanent # Null => permanent = Over(Shipped, upFile)
    BY DEF Inv, FilesInv
<1>2. CASE Write
    <2>1. Scraped' = Scraped /\ DOMAIN Scraped \subseteq DOMAIN table' /\ permanent' = Null
        BY <1>2, WriteIs, ScrapedStays DEF Write
    <2>2. run'.step # "emitDown"
        <3>1. run \in Writing
            BY <1>2, AtStep DEF Inv, Write, Running
        <3> QED BY <1>2, <3>1 DEF Write, Writing, Stopped
    <2> QED BY <2>1, <2>2 DEF FilesInv, Running
<1>3. CASE EmitUp
    <2>1. run.step = "emit"
        BY <1>3 DEF EmitUp, Running
    <2>2. Scraped' = Scraped
        BY <2>1, ReadThrough, ScrapedStays
    <2>3. /\ permanent' = Null /\ table' = table
          /\ run'.step = "emitDown" => upFile' = Scraped
        BY <1>1, <1>3, <2>1 DEF EmitUp, Database, Stopped
    <2> QED BY <1>1, <2>1, <2>2, <2>3 DEF FilesInv, Running
<1>4. CASE EmitDown
    <2>1. run'.step = "idle" /\ upFile' = upFile
        BY <1>4 DEF EmitDown, Stopped
    <2>2. permanent' # Null => permanent' = Over(Shipped, upFile')
        BY <1>4, <2>1, EmitDownIs
    <2>3. Over(Shipped, upFile)' = Over(Shipped, upFile')
        BY DEF Over
    <2> QED BY <2>1, <2>2, <2>3 DEF FilesInv, Running
<1>5. CASE WikiEdit \/ UNCHANGED vars
    <2>1. UNCHANGED <<run, permanent, upFile, table, names, pages>>
        BY <1>5 DEF WikiEdit, Caches, Database, Files, vars
    <2>2. Scraped' = Scraped
        BY <2>1, ScrapedIs
    <2> QED BY <1>1, <2>1, <2>2 DEF FilesInv, Running, Over
<1>6. CASE \/ StartRun \/ NameCached \/ NameFetched \/ ServeFromCache \/ Answered
           \/ Throttled \/ Keep \/ NextChunk \/ EmitNothing \/ RunDies
           \/ MigrateUp \/ MigrateDown \/ Reload
    <2>1. UNCHANGED <<permanent, upFile>>
        BY <1>6
        DEF StartRun, NameCached, NameFetched, ServeFromCache, Answered, Throttled, Keep,
            NextChunk, EmitNothing, RunDies, MigrateUp, MigrateDown, Reload, Moving, Files
    <2>2. run'.step \notin {"emit", "emitDown"}
        <3>1. CASE StartRun \/ EmitNothing \/ RunDies
            BY <3>1 DEF StartRun, EmitNothing, RunDies, Stopped
        <3>2. CASE NameCached \/ NameFetched
            <4>1. run' = Stopped \/ (NameDue /\ NextName)
                BY <3>2 DEF NameCached, NameFetched
            <4> QED BY <4>1, TurnIs DEF Inv, Stopped
        <3>3. CASE ServeFromCache \/ NextChunk
            BY <3>3 DEF ServeFromCache, NextChunk, Requesting
        <3>4. CASE Answered
            BY <3>4, AnsweredIs
        <3>5. CASE Throttled
            <4>1. run \in Asking
                BY <3>5, AtStep DEF Throttled, Inv
            <4> QED BY <3>5, <4>1 DEF Throttled, Asking, Stopped
        <3>6. CASE Keep
            <4>1. run \in Keeping
                BY <3>6, KeepIs DEF Keep
            <4> QED BY <3>6, <4>1 DEF Keep, Keeping, Stopped
        <3>7. CASE MigrateUp \/ MigrateDown \/ Reload
            BY <3>7 DEF MigrateUp, MigrateDown, Reload, Moving, Running
        <3> QED BY <1>6, <3>1, <3>2, <3>3, <3>4, <3>5, <3>6, <3>7
    <2> QED BY <1>1, <2>1, <2>2 DEF FilesInv, Running, Over
<1> QED BY <1>2, <1>3, <1>4, <1>5, <1>6 DEF Next, Scraper

-----------------------------------------------------------------------------
LEMMA InvInit == Init => Inv
<1> SUFFICES ASSUME Init PROVE Inv
    OBVIOUS
<1>1. TypeOK
    <2>1. wiki \in [Titles -> Revisions \cup {Missing}]
        BY ValuesAssumption DEF Init
    <2>2. bounds \in [runs : 0 .. MaxRuns, edits : 0 .. MaxEdits, moves : 0 .. MaxMoves]
        BY BoundsAssumption DEF Init
    <2> QED BY <2>1, <2>2, ShippedAssumption DEF Init, TypeOK
<1>2. NamesInv /\ PagesInv /\ FilesInv /\ SettledInv /\ SourceInv
    BY DEF Init, NamesInv, PagesInv, FilesInv, SettledInv, SourceInv, Running, Stopped
<1> QED BY <1>1, <1>2 DEF Inv

LEMMA Invariance == Spec => []Inv
<1>1. Inv /\ [Next]_vars => Inv'
    BY TypeStep, NamesStep, PagesStep, SettledStep, SourceStep, FilesStep DEF Inv
<1> QED BY <1>1, InvInit, PTL DEF Spec

\* At every moment of any number of runs, edits and migrations each variable
\* holds what the code can put there, the record of a run its fields included.
THEOREM TypeCorrect == Spec => []TypeOK
<1>1. Inv => TypeOK
    BY DEF Inv
<1> QED BY <1>1, Invariance, PTL

\* cache.go:9: whatever pages there are and however runs end, no request asks
\* for a title with a readable cached answer, and no such answer is replaced.
THEOREM CacheSaves == Spec => FetchedOnce
<1> DEFINE Once ==
        /\ \A id \in Titles : pages[id] \in Answers => pages'[id] = pages[id]
        /\ Answered => \A id \in DOMAIN run'.got : pages[id] \notin Answers
<1>1. Inv /\ [Next]_vars => Once
    <2> SUFFICES ASSUME Inv, [Next]_vars, Answered
                 PROVE  \A id \in DOMAIN run'.got : pages[id] \notin Answers
        BY CacheKept
    <2>1. /\ run \in Asking /\ Running("request")
          /\ DOMAIN run'.got =
                 {Chunk(run.need, run.at)[i] : i \in DOMAIN Chunk(run.need, run.at)}
        BY AnsweredIs
    <2>2. /\ run.need \in Seq(Titles) /\ run.at \in Nat \ {0} /\ Len(run.need) \in Nat
          /\ run.at <= Len(run.need) /\ Pending(run.need, run.at)
        BY <2>1, LenProperties DEF Inv, PagesInv, Asking
    <2>3. ASSUME NEW m \in DOMAIN Chunk(run.need, run.at)
          PROVE  pages[Chunk(run.need, run.at)[m]] \notin Answers
        <3>1. /\ m \in 1 .. Len(Chunk(run.need, run.at))
              /\ Len(Chunk(run.need, run.at)) \in Nat
              /\ run.at + Len(Chunk(run.need, run.at)) <= Len(run.need) + 1
              /\ Chunk(run.need, run.at)[m] = run.need[run.at + m - 1]
            BY <2>2, ChunkIs, BatchAssumption
        <3>2. run.at + m - 1 \in 1 .. Len(run.need) /\ run.at + m - 1 >= run.at
            BY <2>2, <3>1
        <3> QED BY <2>2, <3>1, <3>2 DEF Pending, Readable
    <2> QED BY <2>1, <2>3
<1>2. Inv /\ [Next]_vars => [Once]_vars
    BY <1>1
<1> HIDE DEF Once
<1>3. Spec => [][Once]_vars
    BY <1>2, Invariance, PTL DEF Spec
<1> QED BY <1>3 DEF Once, FetchedOnce

\* write.go:13: a run in the mode of the last one, or one that only fills gaps,
\* writes nothing, whatever happened to the wiki in between.
THEOREM RerunWritesNothing == Spec => SettledStays
<1> DEFINE NoOp == (Write /\ settled # Null /\ (settled.overwrite \/ ~run.overwrite)) =>
                       table' = table
<1>1. Inv => NoOp
    <2> SUFFICES ASSUME Inv, Write, settled # Null, settled.overwrite \/ ~run.overwrite
                 PROVE  table' = table
        OBVIOUS
    <2>1. /\ DOMAIN Scraped \subseteq DOMAIN table
          /\ settled.overwrite => Within(Scraped, table)
          /\ IsTable(table)
        BY DEF Inv, SettledInv, TypeOK
    <2>2. DOMAIN table' = DOMAIN table /\ IsTable(table')
        <3>1. IsTable(table')
            BY OverIs DEF Write, Upsert
        <3> QED BY <2>1, <3>1, WriteIs
    <2>3. \A k \in DOMAIN table : table'[k] = table[k]
        BY <2>1, <2>2, WriteIs DEF Within
    <2> QED BY <2>1, <2>2, <2>3, TablesEqual
<1>2. Inv /\ [Next]_vars => [NoOp]_vars
    BY <1>1
<1> HIDE DEF NoOp
<1>3. Spec => [][NoOp]_vars
    BY <1>2, Invariance, PTL DEF Spec
<1> QED BY <1>3 DEF NoOp, SettledStays

\* emit.go:13: on the shipped tables the emitted file brings back the table it
\* was emitted from, with the rows of every earlier run.
THEOREM EmittedSurvives == Spec => Survives
<1> DEFINE Back == (MigrateUp /\ table = Shipped /\ permanent # Null) => table' = permanent
<1>1. Inv => Back
    BY DEF Inv, FilesInv, MigrateUp, Inserted
<1>2. Inv /\ [Next]_vars => [Back]_vars
    BY <1>1
<1> HIDE DEF Back
<1>3. Spec => [][Back]_vars
    BY <1>2, Invariance, PTL DEF Spec
<1> QED BY <1>3 DEF Back, Survives
=============================================================================
