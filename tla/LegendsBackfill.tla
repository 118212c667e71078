--------------------------- MODULE LegendsBackfill ---------------------------
(***************************************************************************)
(* The Legends learnset pass of cmd/scrape, from the rows one species' page *)
(* yields to the two tables and the pair of migration files it leaves, and  *)
(* the operator around it: migrations up and down, the database reloaded    *)
(* from its dump, the scraper killed at any point, the wiki page edited     *)
(* between two runs.                                                        *)
(*                                                                          *)
(* One Pokemon stands for all: no statement reads a row of another one. One *)
(* row of movedetails says that a move is learnt by a method at a level;    *)
(* one row of legendsmovevalues, whose key has no method, holds the stats   *)
(* of the move. Of its eight columns only second_level differs between the  *)
(* methods of one move, so it is the value kept here.                       *)
(***************************************************************************)
EXTENDS Naturals

CONSTANTS
    Moves,        \* moves of the Pokemon in one game
    Levels,       \* level_learned of a level-up row; 0 is "no specific level"
    Masteries,    \* the levels a second_level column can hold
    Null,         \* SQL NULL in second_level
    NoRow,        \* legendsmovevalues has no row of that key
    NoEntry,      \* the page does not list the move as learnt by levelling up
    NoFile,       \* there is no migration file
    Torn,         \* a migration file whose writing was begun and not finished
    OtherMethod,  \* the second method section: "tutor" (Arceus), "machine" (Z-A)
    MaxRuns,      \* bound on the runs of the scraper
    MaxEdits      \* bound on the edits of the wiki page

ASSUME OtherMethodAssumption == OtherMethod \in {"tutor", "machine"}
ASSUME LevelsAssumption == Levels \subseteq Nat
ASSUME NullAssumption == NoRow # Null /\ NoRow \notin Masteries
ASSUME BoundsAssumption == MaxRuns \in Nat /\ MaxEdits \in Nat

Methods == {"level-up", OtherMethod}

Cell == Masteries \cup {Null}
Row == [move : Moves, method : Methods, level : Levels \cup {0}, second : Cell]
DetailKey == [move : Moves, method : Methods, level : Levels \cup {0}]
Entry == [level : Levels, second : Cell]

(* A page lists a move at most once in its level-up section and at most     *)
(* once in the other one; the committed 000012 migration, 25161 rows, holds *)
(* no counterexample.                                                       *)
Page == [levelUp : [Moves -> Entry \cup {NoEntry}], other : SUBSET Moves]

NoTables == [details |-> {}, values |-> [m \in Moves |-> NoRow]]
Tables == [details : SUBSET DetailKey, values : [Moves -> Cell \cup {NoRow}]]

UpFiles == Tables
DownFiles == [details : SUBSET DetailKey, moves : SUBSET Moves]

ASSUME NoFileAssumption ==
    /\ NoFile # Torn
    /\ {NoFile, Torn} \cap (UpFiles \cup DownFiles) = {}

VARIABLES
    page,       \* what the wiki, and so the page cache, holds for the species
    tables,     \* movedetails and legendsmovevalues
    pc,         \* where the run of the scraper stands
    emit,       \* the run was given -emit
    rows,       \* the rows the run built
    up, down,   \* the two files of the migration, each whole, Torn or absent
    applied,    \* the migration is recorded as applied
    runs, edits,
    before      \* history: the tables as the latest emitting run found them

vars == <<page, tables, pc, emit, rows, up, down, applied, runs, edits, before>>

TypeOK ==
    /\ page \in Page
    /\ tables \in Tables
    /\ pc \in {"idle", "built", "stored", "upOpen", "half", "downOpen"}
    /\ emit \in BOOLEAN
    /\ rows \in SUBSET Row
    /\ up \in UpFiles \cup {NoFile, Torn}
    /\ down \in DownFiles \cup {NoFile, Torn}
    /\ applied \in BOOLEAN
    /\ runs \in 0 .. MaxRuns
    /\ edits \in 0 .. MaxEdits
    /\ before \in Tables

-----------------------------------------------------------------------------
(* The rows of a page. parseLevelLAFields and parseLevelZAFields read a     *)
(* second level; parseTutorPLAFields and parseTmZAFields have none to read. *)
LevelUpRows(p) ==
    {[move |-> m, method |-> "level-up",
      level |-> p.levelUp[m].level, second |-> p.levelUp[m].second] :
        m \in {n \in Moves : p.levelUp[n] # NoEntry}}

OtherRows(p) ==
    {[move |-> m, method |-> OtherMethod, level |-> 0, second |-> Null] : m \in p.other}

ScrapedRows(p) == LevelUpRows(p) \cup OtherRows(p)

\* Mutant of ScrapeOrder: the level-up section is parsed last.
ScrapeOrderReversed(r) == IF r.method = "level-up" THEN 2 ELSE 1

\* Position of a row in the batch: the level-up section is parsed first.
ScrapeOrder(r) == IF r.method = "level-up" THEN 1 ELSE 2

\* Mutant of EmitOrder: the sort is descending.
EmitOrderDescending(r) ==
    CASE r.method = "level-up" -> 3
      [] r.method = "machine"  -> 2
      [] r.method = "tutor"    -> 1

\* Position of a row in the emitted file: the sort compares the method's text.
EmitOrder(r) ==
    CASE r.method = "level-up" -> 1
      [] r.method = "machine"  -> 2
      [] r.method = "tutor"    -> 3

Key(r) == [move |-> r.move, method |-> r.method, level |-> r.level]
RowsOf(R, m) == {r \in R : r.move = m}
MovesOf(R) == {r.move : r \in R}

\* The first row of move m in the batch, and in the file.
FirstScraped(R, m) ==
    CHOOSE r \in RowsOf(R, m) : \A q \in RowsOf(R, m) : ScrapeOrder(r) <= ScrapeOrder(q)
FirstEmitted(R, m) ==
    CHOOSE r \in RowsOf(R, m) : \A q \in RowsOf(R, m) : EmitOrder(r) <= EmitOrder(q)

\* Mutant of GapFill: the values are upserted DO UPDATE.
GapFillOverwrites(t, D, V) ==
    [details |-> t.details \cup D,
     values  |-> [m \in Moves |-> IF V[m] = NoRow THEN t.values[m] ELSE V[m]]]

\* Both upserts are ON CONFLICT DO NOTHING: only missing rows are added.
GapFill(t, D, V) ==
    [details |-> t.details \cup D,
     values  |-> [m \in Moves |-> IF t.values[m] = NoRow THEN V[m] ELSE t.values[m]]]

\* Mutant of Batch: the tables are emptied first.
BatchReplaces(t, R) ==
    GapFill(NoTables, {Key(r) : r \in R},
            [m \in Moves |-> IF m \in MovesOf(R) THEN FirstScraped(R, m).second ELSE NoRow])

\* Of the rows a batch offers for one values key the first one is kept.
Batch(t, R) ==
    GapFill(t, {Key(r) : r \in R},
            [m \in Moves |-> IF m \in MovesOf(R) THEN FirstScraped(R, m).second ELSE NoRow])

\* Mutant of UpFile: the rows are reduced to one per values key too early.
UpFileReduced(R) ==
    [details |-> {Key(FirstEmitted(R, m)) : m \in MovesOf(R)},
     values  |-> [m \in Moves |-> IF m \in MovesOf(R) THEN FirstEmitted(R, m).second ELSE NoRow]]

\* The up file: every detail row, and one values row per key.
UpFile(R) ==
    [details |-> {Key(r) : r \in R},
     values  |-> [m \in Moves |-> IF m \in MovesOf(R) THEN FirstEmitted(R, m).second ELSE NoRow]]

\* Mutant of DownFile: only movedetails is rolled back.
DownFileDetails(R) == [details |-> {Key(r) : r \in R}, moves |-> {}]

\* The down file names the same keys.
DownFile(R) == [details |-> {Key(r) : r \in R}, moves |-> MovesOf(R)]

(* What the two files do when golang-migrate runs them, each one            *)
(* transaction. A torn file never touches a table: an empty one has no      *)
(* statement, one that ends within a statement is a syntax error, and one   *)
(* that ends before its COMMIT is rolled back with the connection.          *)
ApplyUp(t, f) == IF f = Torn THEN t ELSE GapFill(t, f.details, f.values)
ApplyDown(t, f) ==
    IF f = Torn THEN t
    ELSE [details |-> t.details \ f.details,
          values  |-> [m \in Moves |-> IF m \in f.moves THEN NoRow ELSE t.values[m]]]

-----------------------------------------------------------------------------
Init ==
    /\ page \in Page
    /\ tables = NoTables
    /\ pc = "idle" /\ emit = FALSE /\ rows = {}
    /\ up = NoFile /\ down = NoFile /\ applied = FALSE
    /\ runs = 0 /\ edits = 0
    /\ before = NoTables

Files == <<up, down>>
World == <<page, edits>>

\* A run reads the page and builds its rows; -limit may leave the species out.
\* A -dry-run ends here and is a run that never happened.
Scrape ==
    /\ pc = "idle" /\ runs < MaxRuns
    /\ runs' = runs + 1
    /\ rows' \in {ScrapedRows(page), {}}
    /\ emit' \in BOOLEAN
    /\ pc' = "built"
    /\ UNCHANGED <<World, tables, Files, applied, before>>

\* writeLegendsMoveRows succeeds: the batch is one implicit transaction.
Store ==
    /\ pc = "built"
    /\ tables' = Batch(tables, rows)
    /\ pc' = IF emit THEN "stored" ELSE "idle"
    /\ before' = IF emit THEN tables ELSE before
    /\ UNCHANGED <<World, emit, rows, Files, applied, runs>>

\* The batch fails and the run ends: it was rolled back, or it committed and
\* the answer was lost.
StoreFails ==
    /\ pc = "built" /\ rows # {}
    /\ tables' \in {tables, Batch(tables, rows)}
    /\ pc' = "idle"
    /\ UNCHANGED <<World, emit, rows, Files, applied, runs, before>>

\* emitLegendsMigration refuses an empty set of rows.
EmitRefused ==
    /\ pc = "stored" /\ rows = {}
    /\ pc' = "idle"
    /\ UNCHANGED <<World, tables, emit, rows, Files, applied, runs, before>>

\* os.WriteFile truncates what was at the path and then writes.
TruncateUp ==
    /\ pc = "stored" /\ rows # {}
    /\ up' = Torn
    /\ pc' = "upOpen"
    /\ UNCHANGED <<World, tables, emit, rows, down, applied, runs, before>>

EmitUp ==
    /\ pc = "upOpen"
    /\ up' = UpFile(rows)
    /\ pc' = "half"
    /\ UNCHANGED <<World, tables, emit, rows, down, applied, runs, before>>

TruncateDown ==
    /\ pc = "half"
    /\ down' = Torn
    /\ pc' = "downOpen"
    /\ UNCHANGED <<World, tables, emit, rows, up, applied, runs, before>>

EmitDown ==
    /\ pc = "downOpen"
    /\ down' = DownFile(rows)
    /\ pc' = "idle"
    /\ UNCHANGED <<World, tables, emit, rows, up, applied, runs, before>>

\* The run is killed, or a file cannot be written: at any point, so that a
\* torn file stays beside a whole one of this or an earlier run.
Dies ==
    /\ pc # "idle"
    /\ pc' = "idle"
    /\ UNCHANGED <<World, tables, emit, rows, Files, applied, runs, before>>

\* A torn file is applied and does nothing, or is refused; a refused one also
\* leaves the version dirty, until it is forced back to what it was.
MigrateUp ==
    /\ ~applied /\ up # NoFile
    /\ tables' = ApplyUp(tables, up)
    /\ applied' \in IF up = Torn THEN BOOLEAN ELSE {TRUE}
    /\ UNCHANGED <<World, pc, emit, rows, Files, runs, before>>

MigrateDown ==
    /\ applied /\ down # NoFile
    /\ tables' = ApplyDown(tables, down)
    /\ applied' \in IF down = Torn THEN BOOLEAN ELSE {FALSE}
    /\ UNCHANGED <<World, pc, emit, rows, Files, runs, before>>

\* The container's volume is lost and db/init.sql loaded: it ends before this
\* migration and has no row of this Pokemon.
Reload ==
    /\ pc = "idle" /\ tables # NoTables
    /\ tables' = NoTables /\ applied' = FALSE
    /\ UNCHANGED <<World, pc, emit, rows, Files, runs, before>>

\* The wiki page changes, and the cached copy is dropped.
PageEdited ==
    /\ edits < MaxEdits
    /\ edits' = edits + 1
    /\ page' \in Page
    /\ UNCHANGED <<tables, pc, emit, rows, Files, applied, runs, before>>

Next ==
    \/ Scrape \/ Store \/ StoreFails
    \/ EmitRefused \/ TruncateUp \/ EmitUp \/ TruncateDown \/ EmitDown \/ Dies
    \/ MigrateUp \/ MigrateDown \/ Reload \/ PageEdited

Spec == Init /\ [][Next]_vars
-----------------------------------------------------------------------------
(* The migration file is written after the batch and by other code. Applied *)
(* to the tables the run found, it leaves what the batch left, whichever of *)
(* two methods' rows a values key takes: the order the sections are parsed  *)
(* in (legends.go 742-763) and the order of the sort (emit.go 236-247)      *)
(* agree, although one is a document's and the other an alphabet's.         *)
EmittedIsStored ==
    pc \in {"half", "downOpen"} => ApplyUp(before, up) = Batch(before, rows)

(* The API takes a Legends move's power and PP from its values row when one *)
(* exists and from the mainline move otherwise (pokemon.sql 46-56): a move  *)
(* learnt in these games never lacks one, and no values row outlives it.    *)
(* While the page stays as it is, no run, crash or migration separates them.*)
DetailsMatchValues ==
    edits = 0 => \A m \in Moves :
        tables.values[m] # NoRow <=> \E k \in tables.details : k.move = m

(* The second level of a move that is also taught is the level-up entry's:  *)
(* the taught row, which has none, never takes the shared values row first, *)
(* neither through the batch nor through the file.                          *)
MasteryKept ==
    edits = 0 => \A m \in Moves :
        /\ tables.values[m] # NoRow
        /\ page.levelUp[m] # NoEntry
        => tables.values[m] = page.levelUp[m].second

(* Gap filling: the text of an existing values row never changes under any  *)
(* sequence of runs, edits of the page and migrations; a row can only go.   *)
ValuesNeverRewritten ==
    [][\A m \in Moves :
        tables.values[m] # NoRow => tables'.values[m] \in {tables.values[m], NoRow}]_vars

(* Re-running the scraper after a pass that ended well changes nothing: if  *)
(* every learnset row of the page is there, no later run touches a table.   *)
RerunIsNoOp ==
    [][ /\ edits = 0
        /\ {Key(r) : r \in ScrapedRows(page)} \subseteq tables.details
        /\ pc = "built"
        /\ ~ (MigrateUp \/ MigrateDown \/ PageEdited)
        => UNCHANGED tables]_vars

(* Rolling an applied migration back is never final, even after crashes     *)
(* left a pair of files of two runs. What a whole down file takes away a    *)
(* whole up file brings back; when the up file is torn, so that migrating   *)
(* up again would not, a run of the scraper still does.                     *)
Restores(u) ==
    /\ tables.details \subseteq u.details
    /\ \A m \in Moves : tables.values[m] \in {u.values[m], NoRow}

DownLosesNothing ==
    (edits = 0 /\ applied /\ down \notin {NoFile, Torn}) =>
        LET rolled == ApplyDown(tables, down)
        IN  /\ up # Torn => Restores(ApplyUp(rolled, up))
            /\ Restores(Batch(rolled, ScrapedRows(page)))

(* What the down file says of itself (emit.go 315-320): it deletes only the *)
(* rows its up file inserted, so that up and down together change nothing.  *)
(* The code does not keep this: the up file adds only what is missing, the  *)
(* down file names every row of the run, and a run stores its rows before   *)
(* it emits them.                                                           *)
DownUndoesUp ==
    (~ applied /\ {up, down} \cap {NoFile, Torn} = {}) =>
        ApplyDown(ApplyUp(tables, up), down) = tables
=============================================================================
