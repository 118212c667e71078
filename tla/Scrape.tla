------------------------------- MODULE Scrape -------------------------------
(***************************************************************************)
(* The description passes of cmd/scrape, run after run over one disk cache: *)
(* the PokeAPI answer a page title is built from, the Bulbapedia pages in   *)
(* batches, the batch of rows and the emitted pair of migrations. The wiki  *)
(* changes, requests fail, a run dies between any two steps and in the      *)
(* middle of writing a file of the cache or of the migration. What a page   *)
(* says is a set of rows (RowsOf); the parsers are not part of this model.  *)
(* The disk is never full.                                                  *)
(***************************************************************************)
EXTENDS Naturals, Sequences, FiniteSets, Functions

CONSTANTS
    Ids,          \* the species or moves of the pass, as a sequence
    Nameless,     \* those PokeAPI has no English name for
    Revisions,    \* what a page may say
    AtFirst,      \* what pages are like before any edit
    RowsOf,       \* [id][revision]: its texts, a function of (id, game) keys
    Shipped,      \* the descriptions in db/init.sql
    BatchSize,    \* -batch
    MaxAttempts,  \* attempts of mediaWikiGet, scaled down from 6
    MaxRuns, MaxEdits, MaxMoves,   \* bounds of the model
    Absent, Torn,                  \* no cache file, half a cache file
    Missing, Blank,                \* no such page, a page without revisions
    Null

All == {Ids[i] : i \in DOMAIN Ids}
Titles == All \ Nameless   \* one page each
Answers == Revisions \cup {Missing, Blank}

\* A table, or the rows of a batch or a file: a function of keys.
IsTable(rows) == rows = [k \in DOMAIN rows |-> rows[k]]

ASSUME BatchAssumption == BatchSize \in Nat \ {0} /\ MaxAttempts \in Nat \ {0}
ASSUME BoundsAssumption == MaxRuns \in Nat /\ MaxEdits \in Nat /\ MaxMoves \in Nat
\* The ids are the keys of a map, or a primary key, sorted: none comes twice.
ASSUME IdsAssumption ==
    Ids \in Seq(All) /\ \A i, j \in DOMAIN Ids : Ids[i] = Ids[j] => i = j
\* A row is keyed by an id of its page: a form of one species, or the move.
ASSUME RowsAssumption ==
    \A i, j \in Titles : \A r, s \in Revisions :
        i # j => DOMAIN RowsOf[i][r] \cap DOMAIN RowsOf[j][s] = {}
ASSUME ShippedAssumption == IsTable(Shipped)
\* What stands for a file that is not there, or not whole, is no answer, and
\* a page without text is none of the revisions.
ASSUME ValuesAssumption ==
    /\ AtFirst \subseteq Revisions \cup {Missing}
    /\ Missing \notin Revisions /\ Blank \notin Revisions
    /\ {Absent, Torn} \cap (Answers \cup {"named", "nameless"}) = {} /\ Absent # Torn

VARIABLES
    wiki,        \* each page as it is today
    names,       \* the cached PokeAPI answers
    pages,       \* the cached pages
    table,       \* the stored descriptions, a function of keys
    upFile, downFile,
    run,         \* the run of the scraper
    settled,     \* the last run that wrote, if the table is still as it left it
    permanent,   \* the table the pair of files was emitted from, if no shipped
                 \* text of it had been rewritten or rolled back
    bounds       \* runs, edits of the wiki, migrations and reloads so far

vars == <<wiki, names, pages, table, upFile, downFile, run, settled, permanent, bounds>>
World == <<wiki, bounds>>
Caches == <<names, pages>>
Database == <<table, settled>>
Files == <<upFile, downFile, permanent>>

Stopped == [step |-> "idle"]
Running(step) == run.step = step

\* A run at each of its steps.
Naming == [step : {"names"}, at : 1 .. Len(Ids) + 1,
           overwrite : BOOLEAN, emit : BOOLEAN]
Asking == [step : {"request"}, need : Seq(Titles), at : Nat \ {0},
           attempt : 0 .. MaxAttempts - 1, overwrite : BOOLEAN, emit : BOOLEAN]
Keeping == [step : {"keep"}, need : Seq(Titles), at : Nat \ {0}, kept : Nat,
            got : UNION {[asked -> Answers] : asked \in SUBSET Titles},
            overwrite : BOOLEAN, emit : BOOLEAN]
Writing == [step : {"write", "emit", "emitDown"}, need : Seq(Titles),
            overwrite : BOOLEAN, emit : BOOLEAN]

TypeOK ==
    /\ wiki \in [Titles -> Revisions \cup {Missing}]
    /\ names \in [All -> {Absent, Torn, "named", "nameless"}]
    /\ pages \in [Titles -> Answers \cup {Absent, Torn}]
    /\ IsTable(table)
    /\ upFile # Null => IsTable(upFile)
    /\ permanent # Null => IsTable(permanent)
    /\ run \in {Stopped} \cup Naming \cup Asking \cup Keeping \cup Writing
    /\ settled # Null => IsTable(settled.rows) /\ settled.overwrite \in BOOLEAN
    /\ bounds \in [runs : 0 .. MaxRuns, edits : 0 .. MaxEdits, moves : 0 .. MaxMoves]

Init ==
    /\ wiki \in [Titles -> AtFirst]
    /\ names = [id \in All |-> Absent]
    /\ pages = [id \in Titles |-> Absent]
    /\ table = Shipped
    /\ upFile = Null /\ downFile = Null
    /\ run = Stopped
    /\ settled = Null /\ permanent = Null
    /\ bounds = [runs |-> 0, edits |-> 0, moves |-> 0]

-----------------------------------------------------------------------------
(* PokeAPI: one id after the other                                          *)

StartRun ==
    /\ Running("idle") /\ bounds.runs < MaxRuns
    /\ \E overwrite, emit \in BOOLEAN :
        run' = [step |-> "names", at |-> 1, overwrite |-> overwrite, emit |-> emit]
    /\ bounds' = [bounds EXCEPT !.runs = @ + 1]
    /\ UNCHANGED <<wiki, Caches, Database, Files>>

\* log.Fatalf, or the process is killed.
RunDies ==
    /\ ~Running("idle")
    /\ run' = Stopped
    /\ UNCHANGED <<World, Caches, Database, Files>>

NameDue == Running("names") /\ run.at <= Len(Ids)
NextName == run' = [run EXCEPT !.at = @ + 1]

\* The file exists: half an answer ends this run, and every later one.
NameCached ==
    /\ NameDue
    /\ names[Ids[run.at]] # Absent
    /\ IF names[Ids[run.at]] = Torn THEN run' = Stopped ELSE NextName
    /\ UNCHANGED <<World, Caches, Database, Files>>

\* PokeAPI has an English name for the id, or none.
Told(id) == IF id \in Nameless THEN "nameless" ELSE "named"

\* httpGet and put; a failed request is RunDies.
NameFetched ==
    /\ NameDue
    /\ names[Ids[run.at]] = Absent
    /\ \/ /\ names' = [names EXCEPT ![Ids[run.at]] = Told(Ids[run.at])]
          /\ NextName
       \/ /\ names' = [names EXCEPT ![Ids[run.at]] = Torn]
          /\ run' = Stopped
    /\ UNCHANGED <<World, pages, Database, Files>>

-----------------------------------------------------------------------------
(* fetchBulbapediaBatch                                                     *)

\* Mutant of Readable: a page that is not there is asked for again.
ReadableIfThere(id) == pages[id] \in Revisions \cup {Blank}

\* The file exists and json.Unmarshal takes it.
Readable(id) == pages[id] \in Answers

\* The members of wanted, met one after the other and appended.
Gathered(wanted) ==
    LET first[n \in 0 .. Len(Ids)] ==
            IF n = 0 THEN <<>>
            ELSE IF Ids[n] \in wanted THEN Append(first[n - 1], Ids[n])
            ELSE first[n - 1]
    IN first[Len(Ids)]

Titled == {id \in All : names[id] = "named"}
Need == Gathered({id \in Titled : ~Readable(id)})

Requesting(need, at) ==
    IF at > Len(need)
    THEN [step |-> "write", need |-> need, overwrite |-> run.overwrite, emit |-> run.emit]
    ELSE [step |-> "request", at |-> at, need |-> need, attempt |-> 0,
          overwrite |-> run.overwrite, emit |-> run.emit]

ServeFromCache ==
    /\ Running("names") /\ run.at > Len(Ids)
    /\ run' = Requesting(Need, 1)
    /\ UNCHANGED <<World, Caches, Database, Files>>

\* Mutant of Chunk: the end of a batch is the start of the next one, included.
ChunkInclusive(need, at) ==
    LET end == at + BatchSize
    IN SubSeq(need, at, IF end > Len(need) THEN Len(need) ELSE end)

Chunk(need, at) ==
    LET end == at + BatchSize - 1
    IN SubSeq(need, at, IF end > Len(need) THEN Len(need) ELSE end)

\* The answer has each page as it is, or without its revisions.
Answered ==
    /\ Running("request")
    /\ LET chunk == Chunk(run.need, run.at)
           asked == {chunk[i] : i \in DOMAIN chunk}
       IN \E cut \in SUBSET {id \in asked : wiki[id] # Missing} :
            run' = [step |-> "keep", need |-> run.need, at |-> run.at,
                    overwrite |-> run.overwrite, emit |-> run.emit, kept |-> 0,
                    got |-> [id \in asked |-> IF id \in cut THEN Blank ELSE wiki[id]]]
    /\ UNCHANGED <<World, Caches, Database, Files>>

\* 429 or 503: wait and ask again, up to the last attempt. Any other status, a
\* maxlag error object in a 200 or a network error is RunDies.
Throttled ==
    /\ Running("request")
    /\ run' = IF run.attempt + 1 < MaxAttempts
              THEN [run EXCEPT !.attempt = @ + 1] ELSE Stopped
    /\ UNCHANGED <<World, Caches, Database, Files>>

\* put: the titles of the chunk one after the other; a crash tears one file.
Keep ==
    /\ Running("keep")
    /\ run.kept < Len(Chunk(run.need, run.at))
    /\ LET id == Chunk(run.need, run.at)[run.kept + 1]
       IN \/ /\ pages' = [pages EXCEPT ![id] = run.got[id]]
             /\ run' = [run EXCEPT !.kept = @ + 1]
          \/ /\ pages' = [pages EXCEPT ![id] = Torn]
             /\ run' = Stopped
    /\ UNCHANGED <<World, names, Database, Files>>

\* Mutant of Following: the next batch starts where this one did.
FollowingSame(at) == at

Following(at) == at + BatchSize

NextChunk ==
    /\ Running("keep")
    /\ run.kept = Len(Chunk(run.need, run.at))
    /\ run' = Requesting(run.need, Following(run.at))
    /\ UNCHANGED <<World, Caches, Database, Files>>

-----------------------------------------------------------------------------
(* The rows, writeRows and emitMigration                                    *)

Over(first, second) ==
    [k \in DOMAIN first \cup DOMAIN second |->
        IF k \in DOMAIN first THEN first[k] ELSE second[k]]

NoRows == [k \in {} |-> Null]
Says(id) == IF names[id] = "named" /\ pages[id] \in Revisions
            THEN RowsOf[id][pages[id]] ELSE NoRows
Joined(ids) ==
    LET keys == UNION {DOMAIN Says(id) : id \in ids}
    IN [k \in keys |-> Says(CHOOSE id \in ids : k \in DOMAIN Says(id))[k]]

\* By now every page of the run was read back or has just been kept.
Scraped == Joined(Titles)

\* ON CONFLICT DO NOTHING, or DO UPDATE with -overwrite
Upsert(rows, overwrite) == IF overwrite THEN Over(rows, table) ELSE Over(table, rows)

\* writeRows: one batch is one implicit transaction; a failed one is RunDies.
Write ==
    /\ Running("write")
    /\ table' = Upsert(Scraped, run.overwrite)
    /\ settled' = [rows |-> Scraped, overwrite |-> run.overwrite]
    /\ permanent' = Null
    /\ run' = IF run.emit THEN [run EXCEPT !.step = "emit"] ELSE Stopped
    /\ UNCHANGED <<World, Caches, upFile, downFile>>

\* "no rows to emit"
EmitNothing ==
    /\ Running("emit") /\ Scraped = NoRows
    /\ run' = Stopped
    /\ UNCHANGED <<World, Caches, Database, Files>>

\* Mutant of Inserted: the emitted statement updates a row that is there.
InsertedOrUpdated(rows) == Over(rows, table)

\* What the statement of writeInsertBlock does: DO NOTHING, with -overwrite too.
Inserted(rows) == Over(table, rows)

\* os.WriteFile truncates what was there and then writes. A torn migration has
\* no effect, applied or refused (see LegendsBackfill): it stands as an empty one.
EmitUp ==
    /\ Running("emit") /\ Scraped # NoRows
    /\ \/ upFile' = Scraped /\ run' = [run EXCEPT !.step = "emitDown"]
       \/ upFile' = NoRows /\ run' = Stopped
    /\ UNCHANGED <<World, Caches, Database, downFile, permanent>>

EmitDown ==
    /\ Running("emitDown")
    /\ \/ /\ downFile' = DOMAIN Scraped
          /\ permanent' = IF \A k \in DOMAIN Shipped :
                               k \in DOMAIN table /\ table[k] = Shipped[k]
                          THEN table ELSE Null
       \/ downFile' = {} /\ UNCHANGED permanent
    /\ run' = Stopped
    /\ UNCHANGED <<World, Caches, Database, upFile>>

-----------------------------------------------------------------------------
(* The wiki, golang-migrate and the database container                      *)

WikiEdit ==
    /\ bounds.edits < MaxEdits
    /\ bounds' = [bounds EXCEPT !.edits = @ + 1]
    /\ \E id \in Titles, page \in Revisions \cup {Missing} :
        wiki' = [wiki EXCEPT ![id] = page]
    /\ UNCHANGED <<Caches, Database, Files, run>>

Moving == /\ Running("idle") /\ bounds.moves < MaxMoves
          /\ bounds' = [bounds EXCEPT !.moves = @ + 1]
          /\ settled' = Null
          /\ UNCHANGED <<wiki, Caches, Files, run>>

MigrateUp == Moving /\ upFile # Null /\ table' = Inserted(upFile)
MigrateDown == Moving /\ downFile # Null
                      /\ table' = [k \in DOMAIN table \ downFile |-> table[k]]
\* The volume is lost and the dump loaded.
Reload == Moving /\ table' = Shipped

Scraper ==
    \/ NameCached \/ NameFetched \/ ServeFromCache
    \/ Answered \/ Throttled \/ Keep \/ NextChunk
    \/ Write \/ EmitNothing \/ EmitUp \/ EmitDown
Next ==
    \/ StartRun \/ Scraper \/ RunDies
    \/ WikiEdit \/ MigrateUp \/ MigrateDown \/ Reload

Spec == Init /\ [][Next]_vars
\* A process that is not killed takes its next step.
FairSpec == Spec /\ WF_vars(Scraper)

-----------------------------------------------------------------------------
\* "Repeated scraper runs and parser iteration cost zero network requests once a
\* page has been fetched" (cache.go:9): over any runs and crashes, no request
\* asks for a title whose cached answer can be read, and no such answer is
\* replaced.
FetchedOnce ==
    [][/\ \A id \in Titles : pages[id] \in Answers => pages'[id] = pages[id]
       /\ Answered => \A id \in DOMAIN run'.got : pages[id] \notin Answers]_vars

\* A run ends, however often it is throttled: it retries a bounded number of
\* times and every batch brings it further.
RunEnds == []<>(run.step = "idle")

\* "Re-running the scraper after a successful pass is a true no-op" (write.go:13):
\* a run in the same mode, or one that only fills gaps, writes nothing, although
\* pages of the wiki changed, appeared or went away since.
SettledStays ==
    [][(Write /\ settled # Null /\ (settled.overwrite \/ ~run.overwrite)) =>
           table' = table]_vars

\* "A run intended to be permanent survives a db/init.sql regeneration"
\* (emit.go:13): on the shipped tables the emitted migration brings back what
\* the database held when it was emitted, the rows of earlier runs included,
\* unless -overwrite or a migrate-down had changed a shipped text before.
Survives ==
    [][(MigrateUp /\ table = Shipped /\ permanent # Null) => table' = permanent]_vars
=============================================================================
