------------------------ MODULE LegendsBackfillProofs ------------------------
(***************************************************************************)
(* Theorems about LegendsBackfill, for every set of moves, levels and       *)
(* masteries and any number of runs and edits. They rest on one fact about  *)
(* a page: the two orders rows are met in, the page's and the file's, put   *)
(* the same row first for every move (FirstRowAgrees).                      *)
(***************************************************************************)
EXTENDS LegendsBackfill, TLAPS

\* The second level the page gives a move: the level-up entry's if it has one.
Want(p, m) == IF p.levelUp[m] # NoEntry THEN p.levelUp[m].second ELSE Null

Keys(R) == {Key(r) : r \in R}

(* A page's rows are rows, and whichever order picks the first row of a     *)
(* listed move, its second level is the one the page gives the move.        *)
LEMMA FirstRowAgrees ==
    ASSUME NEW p \in Page
    PROVE  /\ ScrapedRows(p) \in SUBSET Row
           /\ \A m \in MovesOf(ScrapedRows(p)) :
                /\ m \in Moves
                /\ Want(p, m) \in Cell
                /\ FirstScraped(ScrapedRows(p), m).second = Want(p, m)
                /\ FirstEmitted(ScrapedRows(p), m).second = Want(p, m)
<1> DEFINE S == ScrapedRows(p)
<1>1. S \in SUBSET Row
  BY DEF ScrapedRows, LevelUpRows, OtherRows, Row, Page, Entry, Cell, Methods
<1>2. ASSUME NEW m \in MovesOf(S)
      PROVE  /\ m \in Moves
             /\ Want(p, m) \in Cell
             /\ FirstScraped(S, m).second = Want(p, m)
             /\ FirstEmitted(S, m).second = Want(p, m)
  <2>1. PICK r0 \in S : r0.move = m
    BY <1>2 DEF MovesOf
  <2>2. m \in Moves
    BY <1>1, <2>1 DEF Row
  <2>3. \A r \in RowsOf(S, m) :
          \/ /\ r.method = "level-up" /\ p.levelUp[m] # NoEntry
             /\ r.second = p.levelUp[m].second
          \/ r.method = OtherMethod /\ r.second = Null
    BY DEF RowsOf, ScrapedRows, LevelUpRows, OtherRows
  <2>4. p.levelUp[m] # NoEntry =>
          \E r \in RowsOf(S, m) : r.method = "level-up"
    <3>1. SUFFICES ASSUME p.levelUp[m] # NoEntry
                   PROVE  \E r \in RowsOf(S, m) : r.method = "level-up"
      OBVIOUS
    <3> DEFINE row == [move |-> m, method |-> "level-up",
                       level |-> p.levelUp[m].level, second |-> p.levelUp[m].second]
    <3>2. row \in LevelUpRows(p)
      BY <2>2, <3>1 DEF LevelUpRows
    <3>3. row \in S /\ row.move = m /\ row.method = "level-up"
      BY <3>2 DEF ScrapedRows
    <3>4. QED
      BY <3>3 DEF RowsOf
  <2>5. RowsOf(S, m) # {}
    BY <2>1 DEF RowsOf
  <2>6. Want(p, m) \in Cell
    BY <2>2 DEF Want, Page, Entry, Cell
  <2>7. FirstScraped(S, m).second = Want(p, m)
    <3> DEFINE first(r) == \A q \in RowsOf(S, m) : ScrapeOrder(r) <= ScrapeOrder(q)
    <3>1. \E r \in RowsOf(S, m) : first(r)
      BY <2>3, <2>4, <2>5, OtherMethodAssumption DEF ScrapeOrder
    <3>2. PICK r \in RowsOf(S, m) : first(r) /\ r = FirstScraped(S, m)
      BY <3>1 DEF FirstScraped
    <3>3. QED
      BY <2>3, <2>4, <3>2, OtherMethodAssumption DEF ScrapeOrder, Want
  <2>8. FirstEmitted(S, m).second = Want(p, m)
    <3> DEFINE first(r) == \A q \in RowsOf(S, m) : EmitOrder(r) <= EmitOrder(q)
    <3>1. \E r \in RowsOf(S, m) : first(r)
      BY <2>3, <2>4, <2>5, OtherMethodAssumption DEF EmitOrder
    <3>2. PICK r \in RowsOf(S, m) : first(r) /\ r = FirstEmitted(S, m)
      BY <3>1 DEF FirstEmitted
    <3>3. QED
      BY <2>3, <2>4, <3>2, OtherMethodAssumption DEF EmitOrder, Want
  <2>9. QED
    BY <2>2, <2>6, <2>7, <2>8
<1>3. QED
  BY <1>1, <1>2

(* The batch of a run and the file it emits, in terms of the page alone.    *)
Offer(p) ==
    [m \in Moves |-> IF m \in MovesOf(ScrapedRows(p)) THEN Want(p, m) ELSE NoRow]

LEMMA BatchIsOffer ==
    ASSUME NEW p \in Page
    PROVE  /\ Offer(p) \in [Moves -> Cell \cup {NoRow}]
           /\ Keys(ScrapedRows(p)) \in SUBSET DetailKey
           /\ MovesOf(ScrapedRows(p)) \in SUBSET Moves
           /\ \A t : Batch(t, ScrapedRows(p)) =
                        GapFill(t, Keys(ScrapedRows(p)), Offer(p))
           /\ UpFile(ScrapedRows(p)) =
                [details |-> Keys(ScrapedRows(p)), values |-> Offer(p)]
<1>1. Offer(p) \in [Moves -> Cell \cup {NoRow}]
  BY FirstRowAgrees DEF Offer
<1>2. Keys(ScrapedRows(p)) \in SUBSET DetailKey
  BY FirstRowAgrees DEF Keys, Key, Row, DetailKey
<1>3. MovesOf(ScrapedRows(p)) \in SUBSET Moves
  BY FirstRowAgrees
<1>4. \A t : Batch(t, ScrapedRows(p)) = GapFill(t, Keys(ScrapedRows(p)), Offer(p))
  <2>1. [m \in Moves |-> IF m \in MovesOf(ScrapedRows(p))
                           THEN FirstScraped(ScrapedRows(p), m).second
                           ELSE NoRow] = Offer(p)
    BY FirstRowAgrees DEF Offer
  <2>2. QED
    BY <2>1 DEF Batch, Keys
<1>5. UpFile(ScrapedRows(p)) = [details |-> Keys(ScrapedRows(p)), values |-> Offer(p)]
  <2>1. [m \in Moves |-> IF m \in MovesOf(ScrapedRows(p))
                           THEN FirstEmitted(ScrapedRows(p), m).second
                           ELSE NoRow] = Offer(p)
    BY FirstRowAgrees DEF Offer
  <2>2. QED
    BY <2>1 DEF UpFile, Keys
<1>6. QED
  BY <1>1, <1>2, <1>3, <1>4, <1>5

\* What a run writes is never taken for a file that was not finished.
LEMMA UpFileWhole ==
    ASSUME NEW p \in Page
    PROVE  UpFile(ScrapedRows(p)) \notin {NoFile, Torn}
<1>1. UpFile(ScrapedRows(p)) \in UpFiles
  BY BatchIsOffer DEF UpFiles, Tables
<1>2. QED
  BY <1>1, NoFileAssumption DEF NoFileAssumption

LEMMA DownFileWhole ==
    ASSUME NEW p \in Page
    PROVE  DownFile(ScrapedRows(p)) \notin {NoFile, Torn}
<1>1. DownFile(ScrapedRows(p)) \in DownFiles
  BY BatchIsOffer DEF DownFiles, DownFile, Keys
<1>2. QED
  BY <1>1, NoFileAssumption DEF NoFileAssumption

\* A page without an entry is a page too: -limit leaving a species out is a
\* run over that one.
LEMMA EmptyPage ==
    \E p \in Page : ScrapedRows(p) = {}
<1> DEFINE p == [levelUp |-> [m \in Moves |-> NoEntry], other |-> {}]
<1>1. p \in Page
  BY DEF Page
<1>2. ScrapedRows(p) = {}
  BY DEF ScrapedRows, LevelUpRows, OtherRows
<1>3. QED
  BY <1>1, <1>2

LEMMA GapFillType ==
    ASSUME NEW t \in Tables, NEW D \in SUBSET DetailKey,
           NEW V \in [Moves -> Cell \cup {NoRow}]
    PROVE  GapFill(t, D, V) \in Tables
  BY DEF GapFill, Tables

LEMMA ApplyDownType ==
    ASSUME NEW t \in Tables, NEW f
    PROVE  ApplyDown(t, f) \in Tables
  BY DEF ApplyDown, Tables

-----------------------------------------------------------------------------
\* What the rows of a run are, in every state: some page's rows.
RowsArePages == \E p \in Page : rows = ScrapedRows(p)

TypeInv == TypeOK /\ RowsArePages

LEMMA TypeStep == TypeInv /\ [Next]_vars => TypeInv'
<1> SUFFICES ASSUME TypeInv, [Next]_vars
             PROVE  TypeInv'
  OBVIOUS
<1> USE DEF TypeInv, RowsArePages
<1>1. CASE Scrape
  <2>1. PICK p \in Page : rows' = ScrapedRows(p)
    BY <1>1, EmptyPage DEF Scrape, TypeOK
  <2>2. rows' \in SUBSET Row
    BY <2>1, FirstRowAgrees
  <2>3. TypeOK'
    BY <1>1, <2>2, BoundsAssumption DEF TypeOK, Scrape, World, Files
  <2>4. QED
    BY <2>1, <2>3
<1>2. PICK p \in Page : rows = ScrapedRows(p)
  OBVIOUS
<1>3. Batch(tables, rows) \in Tables /\ UpFile(rows) \in Tables
  BY <1>2, BatchIsOffer, GapFillType DEF TypeOK, Tables
<1>4. CASE Store
  BY <1>3, <1>4 DEF TypeOK, Store, World, Files
<1>5. CASE StoreFails
  BY <1>3, <1>5 DEF TypeOK, StoreFails, World, Files
<1>6. CASE EmitRefused
  BY <1>6 DEF TypeOK, EmitRefused, World, Files
<1>7. CASE TruncateUp \/ TruncateDown
  BY <1>7 DEF TypeOK, TruncateUp, TruncateDown, World
<1>15. CASE EmitUp
  BY <1>3, <1>15 DEF TypeOK, EmitUp, World, UpFiles
<1>8. CASE EmitDown
  BY <1>2, <1>8, BatchIsOffer DEF TypeOK, EmitDown, World, DownFile, DownFiles, Keys
<1>9. CASE Dies
  BY <1>9 DEF TypeOK, Dies, World, Files
<1>10. CASE MigrateUp
  <2>1. ApplyUp(tables, up) \in Tables
    BY <1>10, GapFillType DEF TypeOK, MigrateUp, ApplyUp, Tables, UpFiles
  <2>2. QED
    BY <1>10, <2>1 DEF TypeOK, MigrateUp, World, Files
<1>11. CASE MigrateDown
  BY <1>11, ApplyDownType DEF TypeOK, MigrateDown, World, Files
<1>12. CASE Reload
  BY <1>12 DEF TypeOK, Reload, World, Files, NoTables, Tables
<1>13. CASE PageEdited
  BY <1>13, BoundsAssumption DEF TypeOK, PageEdited, Files
<1>14. CASE UNCHANGED vars
  BY <1>14 DEF TypeOK, vars
<1>16. QED
  BY <1>1, <1>4, <1>5, <1>6, <1>7, <1>15, <1>8, <1>9, <1>10, <1>11, <1>12, <1>13, <1>14 DEF Next

LEMMA TypeInit == Init => TypeInv
<1>1. NoTables \in Tables
  BY DEF NoTables, Tables
<1>2. 0 \in 0 .. MaxRuns /\ 0 \in 0 .. MaxEdits
  BY BoundsAssumption
<1>3. Init => TypeOK
  BY <1>1, <1>2, Zenon DEF Init, TypeOK
<1>4. QED
  BY <1>3, EmptyPage DEF Init, RowsArePages, TypeInv

(* Every reachable state has the right types: in particular the first row   *)
(* of a batch or of a file is always one of its rows.                       *)
THEOREM TypeCorrect == Spec => []TypeOK
<1>1. TypeInv => TypeOK
  BY DEF TypeInv
<1>2. QED
  BY <1>1, TypeInit, TypeStep, PTL DEF Spec

-----------------------------------------------------------------------------
(* The file a run emits does to the tables the run found what its batch     *)
(* did: the parse order and the order of the sort never disagree.           *)
EmittedInv == TypeInv /\ (pc \in {"half", "downOpen"} => up = UpFile(rows))

THEOREM EmittedMatchesStored == Spec => []EmittedIsStored
<1>1. Init => EmittedInv
  BY TypeInit DEF Init, EmittedInv
<1>2. EmittedInv /\ [Next]_vars => EmittedInv'
  <2> SUFFICES ASSUME EmittedInv, [Next]_vars
               PROVE  (pc \in {"half", "downOpen"} => up = UpFile(rows))'
    BY TypeStep DEF EmittedInv
  <2>1. CASE EmitUp
    BY <2>1 DEF EmitUp
  <2>2. CASE ~ EmitUp
    <3>1. pc' \in {"half", "downOpen"} =>
            pc \in {"half", "downOpen"} /\ up' = up /\ rows' = rows
      BY <2>2 DEF Next, vars, Scrape, Store, StoreFails, EmitRefused, TruncateUp,
                  TruncateDown, EmitDown, Dies, MigrateUp, MigrateDown, Reload,
                  PageEdited, World, Files
    <3>2. QED
      BY <3>1 DEF EmittedInv
  <2>3. QED
    BY <2>1, <2>2
<1>3. EmittedInv => EmittedIsStored
  <2> SUFFICES ASSUME EmittedInv, pc \in {"half", "downOpen"}
               PROVE  ApplyUp(before, up) = Batch(before, rows)
    BY DEF EmittedIsStored
  <2>1. PICK p \in Page : rows = ScrapedRows(p)
    BY DEF EmittedInv, TypeInv, RowsArePages
  <2>2. up = [details |-> Keys(rows), values |-> Offer(p)]
    BY <2>1, BatchIsOffer DEF EmittedInv
  <2>3. up # Torn
    BY <2>1, <2>2, UpFileWhole DEF EmittedInv
  <2>4. QED
    BY <2>1, <2>2, <2>3, BatchIsOffer DEF ApplyUp
<1>4. QED
  BY <1>1, <1>2, <1>3, PTL DEF Spec

-----------------------------------------------------------------------------
(* A values row never changes its text: whatever writes it fills gaps.      *)
LEMMA FillKeeps ==
    ASSUME NEW t \in Tables, NEW D, NEW V, NEW m \in Moves, t.values[m] # NoRow
    PROVE  GapFill(t, D, V).values[m] = t.values[m]
  BY DEF GapFill

THEOREM NeverRewritten == Spec => ValuesNeverRewritten
<1>1. ASSUME TypeOK, [Next]_vars, NEW m \in Moves, tables.values[m] # NoRow
      PROVE  tables'.values[m] \in {tables.values[m], NoRow}
  <2> USE DEF TypeOK
  <2>1. Batch(tables, rows).values[m] = tables.values[m]
    BY <1>1, FillKeeps DEF Batch
  <2>2. CASE MigrateUp
    BY <1>1, <2>2, FillKeeps DEF MigrateUp, ApplyUp
  <2>3. CASE MigrateDown
    BY <1>1, <2>3 DEF MigrateDown, ApplyDown
  <2>4. CASE Reload
    BY <2>4 DEF Reload, NoTables
  <2>5. CASE Store \/ StoreFails
    BY <2>1, <2>5 DEF Store, StoreFails
  <2>6. CASE ~ (MigrateUp \/ MigrateDown \/ Reload \/ Store \/ StoreFails)
    <3>1. tables' = tables
      BY <1>1, <2>6 DEF Next, vars, Scrape, EmitRefused, TruncateUp, EmitUp,
                        TruncateDown, EmitDown, Dies, PageEdited
    <3>2. QED
      BY <3>1
  <2>7. QED
    BY <2>2, <2>3, <2>4, <2>5, <2>6
<1>2. TypeOK /\ [Next]_vars =>
        [\A m \in Moves :
            tables.values[m] # NoRow => tables'.values[m] \in {tables.values[m], NoRow}]_vars
  BY <1>1
<1>3. QED
  BY <1>2, TypeCorrect, PTL DEF Spec, ValuesNeverRewritten

-----------------------------------------------------------------------------
(* While the page stays as it is: every rows, file and table in sight is of *)
(* that page. The details are among the page's keys and a values row is     *)
(* there for exactly their moves, holding what the page gives the move.     *)
Sound(p, t) ==
    /\ t.details \in SUBSET Keys(ScrapedRows(p))
    /\ \A m \in Moves :
         /\ t.values[m] # NoRow => t.values[m] = Want(p, m)
         /\ t.values[m] # NoRow <=> \E k \in t.details : k.move = m

PageInv ==
    edits = 0 =>
        /\ rows \in {ScrapedRows(page), {}}
        /\ pc \in {"upOpen", "half", "downOpen"} => rows # {}
        /\ up \in {UpFile(ScrapedRows(page)), NoFile, Torn}
        /\ down \in {DownFile(ScrapedRows(page)), NoFile, Torn}
        /\ Sound(page, tables)

\* A listed move is one with a key, and has a second level to offer.
LEMMA Listed ==
    ASSUME NEW p \in Page, NEW m \in Moves
    PROVE  /\ m \in MovesOf(ScrapedRows(p)) <=> \E k \in Keys(ScrapedRows(p)) : k.move = m
           /\ m \in MovesOf(ScrapedRows(p)) => Offer(p)[m] = Want(p, m) /\ Want(p, m) # NoRow
           /\ m \notin MovesOf(ScrapedRows(p)) => Offer(p)[m] = NoRow
<1>1. m \in MovesOf(ScrapedRows(p)) <=> \E k \in Keys(ScrapedRows(p)) : k.move = m
  <2>1. \A r \in ScrapedRows(p) : Key(r).move = r.move
    BY DEF Key
  <2>2. ASSUME m \in MovesOf(ScrapedRows(p))
        PROVE  \E k \in Keys(ScrapedRows(p)) : k.move = m
    <3>1. PICK r \in ScrapedRows(p) : r.move = m
      BY <2>2 DEF MovesOf
    <3>2. Key(r) \in Keys(ScrapedRows(p)) /\ Key(r).move = m
      BY <2>1, <3>1 DEF Keys
    <3>3. QED
      BY <3>2
  <2>3. ASSUME NEW k \in Keys(ScrapedRows(p)), k.move = m
        PROVE  m \in MovesOf(ScrapedRows(p))
    BY <2>1, <2>3 DEF Keys, MovesOf
  <2>4. QED
    BY <2>2, <2>3
<1>2. m \in MovesOf(ScrapedRows(p)) => Want(p, m) # NoRow
  BY FirstRowAgrees, NullAssumption DEF Cell
<1>3. QED
  BY <1>1, <1>2 DEF Offer

LEMMA FillSound ==
    ASSUME NEW p \in Page, NEW t \in Tables, Sound(p, t)
    PROVE  Sound(p, GapFill(t, Keys(ScrapedRows(p)), Offer(p)))
<1> DEFINE u == GapFill(t, Keys(ScrapedRows(p)), Offer(p))
<1>1. u.details = t.details \cup Keys(ScrapedRows(p))
  BY DEF GapFill
<1>2. u.details \in SUBSET Keys(ScrapedRows(p))
  BY <1>1 DEF Sound
<1>3. ASSUME NEW m \in Moves
      PROVE  /\ u.values[m] # NoRow => u.values[m] = Want(p, m)
             /\ u.values[m] # NoRow <=> \E k \in u.details : k.move = m
  <2>1. u.values[m] = IF t.values[m] = NoRow THEN Offer(p)[m] ELSE t.values[m]
    BY DEF GapFill
  <2>2. QED
    BY <1>1, <2>1, Listed DEF Sound
<1>4. QED
  BY <1>2, <1>3 DEF Sound

LEMMA DownSound ==
    ASSUME NEW p \in Page, NEW t \in Tables, Sound(p, t)
    PROVE  Sound(p, ApplyDown(t, DownFile(ScrapedRows(p))))
<1> DEFINE u == ApplyDown(t, DownFile(ScrapedRows(p)))
<1> USE DownFileWhole
<1>1. u.details = {}
  BY DEF ApplyDown, DownFile, Keys, Sound
<1>2. \A m \in Moves : u.values[m] = NoRow
  <2> TAKE m \in Moves
  <2>1. u.values[m] = IF m \in MovesOf(ScrapedRows(p)) THEN NoRow ELSE t.values[m]
    BY DEF ApplyDown, DownFile
  <2>2. m \notin MovesOf(ScrapedRows(p)) => t.values[m] = NoRow
    BY Listed DEF Sound
  <2>3. QED
    BY <2>1, <2>2
<1>3. QED
  BY <1>1, <1>2 DEF Sound

LEMMA PageStep == TypeInv /\ PageInv /\ [Next]_vars => PageInv'
<1> SUFFICES ASSUME TypeInv, PageInv, [Next]_vars, edits' = 0
             PROVE  /\ rows' \in {ScrapedRows(page'), {}}
                    /\ pc' \in {"upOpen", "half", "downOpen"} => rows' # {}
                    /\ up' \in {UpFile(ScrapedRows(page')), NoFile, Torn}
                    /\ down' \in {DownFile(ScrapedRows(page')), NoFile, Torn}
                    /\ Sound(page', tables')
  BY DEF PageInv
<1> USE DEF TypeInv, TypeOK
<1>1. edits = 0 /\ page' = page
  <2>1. ~ PageEdited
    BY BoundsAssumption DEF PageEdited
  <2>2. edits' = edits /\ page' = page
    BY <2>1 DEF Next, vars, Scrape, Store, StoreFails, EmitRefused, TruncateUp, EmitUp,
                TruncateDown, EmitDown, Dies, MigrateUp, MigrateDown, Reload, World
  <2>3. QED
    BY <2>2
<1>2. /\ rows \in {ScrapedRows(page), {}}
      /\ pc \in {"upOpen", "half", "downOpen"} => rows # {}
      /\ up \in {UpFile(ScrapedRows(page)), NoFile, Torn}
      /\ down \in {DownFile(ScrapedRows(page)), NoFile, Torn}
      /\ Sound(page, tables)
  BY <1>1 DEF PageInv
<1>3. Sound(page, Batch(tables, rows))
  <2>1. CASE rows = ScrapedRows(page)
    BY <1>2, <2>1, BatchIsOffer, FillSound
  <2>2. CASE rows = {}
    <3>1. Batch(tables, rows) = tables
      BY <2>2 DEF Batch, GapFill, MovesOf, Tables
    <3>2. QED
      BY <1>2, <3>1
  <2>3. QED
    BY <1>2, <2>1, <2>2
<1>4. CASE Scrape
  BY <1>1, <1>2, <1>4 DEF Scrape, Files
<1>5. CASE Store \/ StoreFails
  BY <1>1, <1>2, <1>3, <1>5 DEF Store, StoreFails, Files
<1>6. CASE TruncateUp \/ EmitUp \/ TruncateDown \/ EmitDown
  BY <1>1, <1>2, <1>6 DEF TruncateUp, EmitUp, TruncateDown, EmitDown
<1>7. CASE MigrateUp
  <2>1. Sound(page, ApplyUp(tables, up))
    BY <1>2, <1>7, BatchIsOffer, FillSound DEF MigrateUp, ApplyUp
  <2>2. QED
    BY <1>1, <1>2, <1>7, <2>1 DEF MigrateUp, Files
<1>8. CASE MigrateDown
  <2>1. Sound(page, ApplyDown(tables, down))
    BY <1>2, <1>8, DownSound DEF MigrateDown, ApplyDown
  <2>2. QED
    BY <1>1, <1>2, <1>8, <2>1 DEF MigrateDown, Files
<1>9. CASE Reload
  <2>1. Sound(page, NoTables)
    BY DEF Sound, NoTables
  <2>2. QED
    BY <1>1, <1>2, <1>9, <2>1 DEF Reload, Files
<1>10. CASE EmitRefused \/ Dies \/ UNCHANGED vars
  BY <1>1, <1>2, <1>10 DEF EmitRefused, Dies, vars, Files
<1>11. CASE PageEdited
  BY <1>1, <1>11 DEF PageEdited
<1>12. QED
  BY <1>4, <1>5, <1>6, <1>7, <1>8, <1>9, <1>10, <1>11 DEF Next

LEMMA PageInvariant == Spec => [](TypeInv /\ PageInv)
<1>1. Init => PageInv
  BY DEF Init, PageInv, Sound, NoTables
<1>2. QED
  BY <1>1, TypeInit, TypeStep, PageStep, PTL DEF Spec

(* Details and values rows stay together through every run, crash and       *)
(* migration, as long as the page they come from is the same.               *)
THEOREM TablesTogether == Spec => []DetailsMatchValues
<1>1. PageInv => DetailsMatchValues
  BY DEF PageInv, DetailsMatchValues, Sound
<1>2. QED
  BY <1>1, PageInvariant, PTL

(* The taught row never displaces the level-up entry's second level.        *)
THEOREM LevelUpWins == Spec => []MasteryKept
<1>1. PageInv => MasteryKept
  BY DEF PageInv, MasteryKept, Sound, Want
<1>2. QED
  BY <1>1, PageInvariant, PTL

-----------------------------------------------------------------------------
(* An applied migration has an up file: no step takes one away.             *)
AppliedInv == applied => up # NoFile

LEMMA AppliedStep == TypeInv /\ AppliedInv /\ [Next]_vars => AppliedInv'
<1> SUFFICES ASSUME TypeInv, AppliedInv, [Next]_vars, applied'
             PROVE  up' # NoFile
  BY DEF AppliedInv
<1>1. CASE TruncateUp \/ EmitUp
  <2>1. PICK p \in Page : rows = ScrapedRows(p)
    BY DEF TypeInv, RowsArePages
  <2>2. QED
    BY <1>1, <2>1, UpFileWhole, NoFileAssumption
       DEF TruncateUp, EmitUp, NoFileAssumption
<1>2. CASE MigrateUp
  BY <1>2 DEF MigrateUp, Files
<1>3. CASE ~ (TruncateUp \/ EmitUp \/ MigrateUp)
  BY <1>3 DEF Next, vars, Scrape, Store, StoreFails, EmitRefused, TruncateDown,
              EmitDown, Dies, MigrateDown, Reload, PageEdited, Files, AppliedInv
<1>4. QED
  BY <1>1, <1>2, <1>3

LEMMA AppliedInvariant == Spec => []AppliedInv
<1>1. Init => AppliedInv
  BY DEF Init, AppliedInv
<1>2. Spec => []TypeInv
  BY TypeInit, TypeStep, PTL DEF Spec
<1>3. QED
  BY <1>1, <1>2, AppliedStep, PTL DEF Spec

\* From sound tables the down file leaves nothing, and the batch of the same
\* page then puts back every row there was; its up file is such a batch.
LEMMA FillAfterDown ==
    ASSUME NEW p \in Page, NEW t \in Tables, Sound(p, t)
    PROVE  LET again == GapFill(ApplyDown(t, DownFile(ScrapedRows(p))),
                                Keys(ScrapedRows(p)), Offer(p))
           IN  /\ t.details \subseteq again.details
               /\ \A m \in Moves : t.values[m] \in {again.values[m], NoRow}
<1> DEFINE none == ApplyDown(t, DownFile(ScrapedRows(p)))
           again == GapFill(none, Keys(ScrapedRows(p)), Offer(p))
<1>1. \A m \in Moves : none.values[m] =
          IF m \in MovesOf(ScrapedRows(p)) THEN NoRow ELSE t.values[m]
  BY DownFileWhole DEF ApplyDown, DownFile
<1> HIDE DEF none
<1>2. /\ again.details = none.details \cup Keys(ScrapedRows(p))
      /\ \A m \in Moves : again.values[m] =
             IF none.values[m] = NoRow THEN Offer(p)[m] ELSE none.values[m]
  BY DEF GapFill
<1> HIDE DEF again
<1>3. t.details \subseteq again.details
  BY <1>2 DEF Sound
<1>4. ASSUME NEW m \in Moves, t.values[m] # NoRow
      PROVE  t.values[m] = again.values[m]
  <2>1. t.values[m] = Want(p, m) /\ m \in MovesOf(ScrapedRows(p))
    BY <1>4, Listed DEF Sound
  <2>2. QED
    BY <1>1, <1>2, <2>1, Listed
<1>5. QED
  BY <1>3, <1>4 DEF again, none

(* What a whole down file takes away comes back: through the up file when   *)
(* that is whole, although a crash may have left a pair of two runs, and    *)
(* through the next run of the scraper also when it is torn, as long as the *)
(* page is the same.                                                        *)
THEOREM DownThenUp == Spec => []DownLosesNothing
<1>1. TypeInv /\ PageInv /\ AppliedInv => DownLosesNothing
  <2> SUFFICES ASSUME TypeInv, PageInv, AppliedInv, edits = 0, applied,
                      down \notin {NoFile, Torn}
               PROVE  LET rolled == ApplyDown(tables, down)
                      IN  /\ up # Torn => Restores(ApplyUp(rolled, up))
                          /\ Restores(Batch(rolled, ScrapedRows(page)))
    BY DEF DownLosesNothing
  <2> DEFINE S == ScrapedRows(page)
             rolled == ApplyDown(tables, down)
  <2>1. /\ up \in {UpFile(S), Torn} /\ down = DownFile(S)
        /\ Sound(page, tables) /\ page \in Page /\ tables \in Tables
    BY DEF PageInv, AppliedInv, TypeInv, TypeOK
  <2>2. Restores(GapFill(rolled, Keys(S), Offer(page)))
    BY <2>1, FillAfterDown DEF Restores
  <2>3. Batch(rolled, S) = GapFill(rolled, Keys(S), Offer(page))
    BY <2>1, BatchIsOffer
  <2>4. up # Torn => ApplyUp(rolled, up) = GapFill(rolled, Keys(S), Offer(page))
    BY <2>1, BatchIsOffer DEF ApplyUp
  <2>5. QED
    BY <2>2, <2>3, <2>4
<1>2. QED
  BY <1>1, PageInvariant, AppliedInvariant, PTL

-----------------------------------------------------------------------------
\* Tables with every key of the page have nothing to take from its batch.
LEMMA BatchAddsNothing ==
    ASSUME NEW p \in Page, NEW t \in Tables, Sound(p, t),
           Keys(ScrapedRows(p)) \subseteq t.details
    PROVE  Batch(t, ScrapedRows(p)) = t
<1> DEFINE u == GapFill(t, Keys(ScrapedRows(p)), Offer(p))
<1>1. u.details = t.details
  BY DEF GapFill
<1>2. ASSUME NEW m \in Moves
      PROVE  u.values[m] = t.values[m]
  <2>1. u.values[m] = IF t.values[m] = NoRow THEN Offer(p)[m] ELSE t.values[m]
    BY DEF GapFill
  <2>2. t.values[m] = NoRow => Offer(p)[m] = NoRow
    BY Listed DEF Sound
  <2>3. QED
    BY <2>1, <2>2
<1>3. u \in Tables
  BY BatchIsOffer, GapFillType
<1> HIDE DEF u
<1>4. u = t
  BY <1>1, <1>2, <1>3 DEF Tables
<1>5. QED
  BY <1>4, BatchIsOffer DEF u

(* A run that finds every learnset row of its page leaves both tables as    *)
(* they are, also when it fails or dies: the second pass is a no-op.        *)
THEOREM RerunKeeps == Spec => RerunIsNoOp
<1> DEFINE NoOp ==
        /\ edits = 0
        /\ {Key(r) : r \in ScrapedRows(page)} \subseteq tables.details
        /\ pc = "built"
        /\ ~ (MigrateUp \/ MigrateDown \/ PageEdited)
        => UNCHANGED tables
<1>1. TypeInv /\ PageInv /\ [Next]_vars => NoOp
  <2> SUFFICES ASSUME TypeInv, PageInv, [Next]_vars, edits = 0,
                      Keys(ScrapedRows(page)) \subseteq tables.details, pc = "built",
                      ~ (MigrateUp \/ MigrateDown \/ PageEdited)
               PROVE  tables' = tables
    BY DEF Keys
  <2>1. /\ rows \in {ScrapedRows(page), {}} /\ Sound(page, tables)
        /\ page \in Page /\ tables \in Tables
    BY DEF PageInv, TypeInv, TypeOK
  <2>2. Batch(tables, rows) = tables
    <3>1. CASE rows = ScrapedRows(page)
      BY <2>1, <3>1, BatchAddsNothing
    <3>2. CASE rows = {}
      BY <2>1, <3>2 DEF Batch, GapFill, MovesOf, Tables
    <3>3. QED
      BY <2>1, <3>1, <3>2
  <2>3. QED
    BY <2>2 DEF Next, vars, Scrape, Store, StoreFails, EmitRefused, TruncateUp, EmitUp,
                TruncateDown, EmitDown, Dies, Reload
<1>2. TypeInv /\ PageInv /\ [Next]_vars => [NoOp]_vars
  BY <1>1
<1> HIDE DEF NoOp
<1>3. Spec => [][NoOp]_vars
  BY <1>2, PageInvariant, PTL DEF Spec
<1>4. QED
  BY <1>3, PTL DEF NoOp, RerunIsNoOp
=============================================================================
