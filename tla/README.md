# A TLA+ model of pokepedia-api-v2

The API serves reference data about Pokémon out of PostgreSQL. Half of what is
hard in it stands around the data: a response cache in Redis that must be
invisible, a search that must survive the loss of Elasticsearch, the circuit
breaker both of them share, and the offline commands that replace the search
index and the data under a running service. The other half is in answers put
together from several queries without a transaction, and in a scraper that reads
pages on which nothing says whom a line is about. This directory models those
parts in TLA+, checks them with TLC, and proves the central ones with TLAPS.

## The system

| Component | Source | State | Operations |
|---|---|---|---|
| Circuit breaker | `internal/breaker` | failures in a row, `openUntil`, `probing` | `Allow`, `Success`, `Failure`, `Healthy`, each under the mutex |
| Redis cache | `internal/cache` | the breaker; Redis itself; one goroutine per `Set` | `Get` (150 ms, cancelled with the request), `Set` (detached, 2 s) |
| Response cache | `internal/middleware` | one singleflight group | answer from the cache, or join/start the leader of the key; `capture` stores complete 200s |
| Router | `internal/server`, chi | chi's pool of route contexts | matches a request, hands it down the chain |
| Search | `internal/search`, `internal/service/search.go` | a second breaker | ask Elasticsearch, else Postgres trigrams, `degraded` |
| Health | `internal/handlers/health.go` | none | reports `Healthy` of both breakers, pings the database |
| Services and store | `internal/handlers`, `internal/service`, `internal/store`, `internal/pokeenum` | none; the tables | up to seven queries per request, regrouped into lists and pages |
| Indexer | `cmd/indexer` | indices and an alias in Elasticsearch | build, create, bulk load, verify, swap, prune |
| Scraper: fetching | `cmd/scrape/pokeapi.go`, `bulba.go`, `cache.go` | a disk cache of PokeAPI answers and Bulbapedia pages | look names up, request pages in batches, retry |
| Scraper: reading | `cmd/scrape/resolve.go`, `bulba.go`, `eggmoves.go`, `legends.go` | where a walk over a section is | resolve labels, attribute entries |
| Scraper: writing | `cmd/scrape/write.go`, `emit.go` | the description, learnset and values tables; migration files | one batch of rows; a pair of migrations |

They interact through calls (handlers to services to store; the middleware to
the cache; the search service to the client), through shared state (a breaker
is shared by all request goroutines; Redis by every instance and by
`make cache-flush`; the alias by search and indexer), and through contexts: a
request's cancellation reaches everything that runs under it, unless the code
detaches it.

What is hard, and what makes each part correct:

- **Breaker.** Calls that were let through before an outage report during it,
  after it, and under somebody else's probe. It is right if at most one call per
  cooldown goes to a dead backend and a recovered backend is noticed.
- **Cache.** Commands may land after their caller has timed out; entries vanish
  at any time. It is right if it never makes an entry up, and each granted probe
  is reported.
- **Response cache.** Requests come and go while a detached leader works for
  them. It is right if every request ends, gets its own path's complete body, and
  never one older than the last flush that found nothing under way.
- **Search.** Right if only Postgres can make it fail, whatever the breaker and
  Elasticsearch do, and it returns from degraded operation. One request escapes that:
  a suggestion whose size does not fit an int32.
- **Answers.** A list or a page is made of several queries while a migration or a
  scrape adds rows, and two services answer the same question by different
  queries. Right if what a list shows can be opened and looks the same there, and
  no regrouping on the way loses a row, mixes two games or leaves the order of
  release.
- **Scraper, fetching.** A run dies between any two requests and in the middle of
  writing a file. Right if nothing readable is fetched again, every run ends, a
  repeated run changes nothing, and the emitted file restores what was written.
- **Scraper, reading.** A label on a page names a form in free words, and holds
  for what follows it. Right if the label is given to the one form it fits best,
  to nobody where it could mean one or another, and reaches no further than the
  page means it to.
- **Scraper, Legends pass.** Nothing in a learnset entry says whose it is; that
  follows from the headings and game markers before it. Right if every entry goes
  to whom the whole section names or is reported. The rows are written twice, as a
  batch and as a pair of migration files, by different code. Right if both agree
  and no run, crash or migration leaves one of the two tables without the other.
- **Indexer.** May die between any two requests and may run twice at once. Right
  if the alias only ever names a complete index, search never goes dark or back
  in time, and indices do not pile up.

The hazards, each at its line, are listed in `PROJECT.json`.

## Modules

| Module | Models | Notes |
|---|---|---|
| `Breaker` | `internal/breaker/breaker.go` | state and methods; extended by its two owners |
| `Gate` | abstract | closed / open / half-open, with a rest before each probe |
| `RedisCache` | `internal/cache/cache.go` | `Get` and `Set` calls split at their round trip to Redis |
| `LossyCache` | abstract | a store that may lose anything but invents nothing |
| `ResponseCache` | `internal/middleware/responsecache.go` with the router | uses `LossyCache` for the cache: composed through the abstract specification `RedisCache` implements |
| `Proxy` | abstract | requests and fitting answers, nothing else |
| `SearchClient` | `internal/search`, `internal/service/search.go`, `internal/handlers/search.go` | |
| `Indexer` | `cmd/indexer` | |
| `Pokeenum` | `internal/pokeenum` | games, version groups, regions and their orders, row by row |
| `Store` | `internal/store/*.sql.go` | what each query answers: joins, coalescing, order |
| `Requests` | handlers and services | a request as a sequence of queries, each of which may fail or find new rows |
| `Pokedex` | `service/pokedex.go`, `handlers/pokedex.go` | Pokédexes, team lists, candidates |
| `Pages` | the other services and handlers | detail pages and lists |
| `Answers` | composes `Pokedex` and `Pages` | every endpoint over one database, and what answers promise together |
| `Scrape` | `pokeapi.go`, `bulba.go`, `cache.go`, `write.go`, `emit.go` | description runs, one after the other, over one disk cache |
| `LegendsWalk` | `parseLegendsSection` in `cmd/scrape/legends.go` | the walk over one section, against a reading that keeps no state |
| `FormMarker` | `cmd/scrape/resolve.go` | the index of a species and `resolveFormMarker`, against `Meant`, which does not scan |
| `SpeciesPage` | composes `LegendsWalk` and `FormMarker`, with `parsePokemonDexEntries` and `parseBreedingSection` | the three walks with the labels resolved |
| `LegendsBackfill` | `cmd/scrape/legends.go`, `write.go`, `emit.go` | rows to tables and migration files, and the operator around it |
| `RedisCacheProofs`, `SearchClientProofs`, `ResponseCacheProofs`, `IndexerProofs`, `SpeciesPageProofs`, `LegendsBackfillProofs`, `ScrapeProofs`, `AnswersProofs` | | theorems |
| `MC*` | | the instances TLC checks, one `.cfg` per question |

How state and actions correspond to code:

- **Time** is a countdown: `cooling` is how far `openUntil` lies ahead, and
  `ClockTicks` moves the clock. `sinceProbe` is a history variable. `failures`
  stays at `Threshold` once there, because the code only compares it.
- **A call** that is split in two has a place to wait: `reading`/`write` for the
  cache, `at` for a search, `phase` for a request, `step` for an indexer run.
  Everything between two round trips is one action.
- **A refused call** (`Allow` is false, the client is disabled) changes nothing
  in the cache, and sends a search to Postgres.
- **`ResponseCache`.** `flight[k]` is singleflight's call for key `k` with its
  followers. The leader's steps are `Dispatch` (route), `Load` (run the handler)
  and `Finish` (`capture` stores, the followers are answered). `route` is what
  each pooled route context holds; it is reset when a request takes the context
  (`Arrive`) and filled when it is matched (`Match`).
- **Data** is a version number; a body is the path and version it was made from.
- **`Answers`.** `scenario` is a database before and after one row was added,
  `stage` says which of them queries see, and `Migrate` turns the one into the
  other at any moment. `req.got` holds the results of the queries done so far:
  each query is one action (`Query`, `QueryOne`, with the status of its failure),
  and the assembly is part of the action that replies. `answer` keeps the last
  answer with the stage it began and ended at, and `earlier` the list or candidate
  a client follows up: those two are what the properties compare. A row's columns
  are those some query joins, filters, orders or groups by, and the few a property
  compares.
- **`Scrape`.** `run.step` goes `names` → `request` → `keep` → (`request` …) →
  `write` → `emit` → `emitDown` → `idle`. A cache entry is a fact, a page as it was
  when it was fetched, `Torn` when the process died in `put`, or `Absent`. An
  answer may come without revisions (`Blank`), which the code keeps like a page.
  What the parsers make of a page is the constant `RowsOf`. `Gathered` is the loop
  that appends the ids whose page has to be asked for, `Told` what the second
  PokeAPI answer of an id says: a name, or that it has none. `settled` and
  `permanent` are history: the last run that wrote while nothing else touched the
  table, and the table an emitted pair stands for.
- **`LegendsWalk`.** A section is a sequence of headings, markers and entries;
  what a label is resolved to is part of the occurrence, and an empty set
  stands for an unresolved label. One action per arm of the loop's `switch` and
  early `continue`. `default` is `defaultIDs`: it never changes, but which it is
  depends on the species, so it is chosen at the start. `Owner` is the reference:
  it looks at the whole section.
- **`FormMarker`.** Labels and slugs are sequences of lower-case words. `Placed` is
  one turn of the loop that keeps the best and the second; `BestTwo` is the loop over
  the forms in the order of the index, which passes a form that shares no word. `Meant` is the reference: of the forms whose
  own words the label says, those no other form fits better.
- **`SpeciesPage`.** `page` is the section being walked. A Legends section is handed
  to `LegendsWalk` with its labels resolved (`PageInit`); the other two walks are
  `walk` and the `Meet…` actions, one set for both because they differ only in
  the kinds of occurrence they meet: Pokédex sections have no markers and their
  entries carry their own games.
- **`SearchClient`.** A query is a route and a size. `Takes` is Elasticsearch's window,
  `Int32` Go's conversion, `Lim` the LIMIT of the fallback's statement; a negative one
  makes Postgres refuse it (`PostgresFails`). `Int32Max` scales the width down.
- **`LegendsBackfill`.** One Pokémon stands for all. A run goes `idle` → `built`
  (`Scrape`) → `stored` (`Store`) → `upOpen` → `half` (`TruncateUp`, `EmitUp`) →
  `downOpen` → `idle` (`TruncateDown`, `EmitDown`), and `Dies` leaves it anywhere. A
  file is `Torn` from its truncation until it is whole. Of the values columns only
  `second_level` is kept, the one that differs between two methods of one move.
  `MigrateUp` and `MigrateDown` run the emitted SQL as one transaction each. A torn
  file changes no table: cut to nothing or to comments it has no statement,
  cut within a statement it is a syntax error, and cut before its COMMIT it is
  rolled back with the connection. `Scrape` models a torn migration file as an empty
  one.
- **Mutants.** Definitions commented "Mutant of X" are deliberately wrong
  variants of X, one for each property, kept beside X. No specification uses
  them; they document which mistake each property would catch.

## What TLC checks

| Run | Instance | Shows |
|---|---|---|
| `redis_cache` | threshold 2, cooldown 2, 3 readers, 2 writers, 2 keys, a small and an oversize body | one probe per window; a probe loses its call only to an oversize body; unless one does, recovery is noticed; the breaker implements `Gate`; the cache implements `LossyCache` |
| `redis_oversize` | 2 readers, 1 writer, 1 key, an oversize body | **violated**: recovery is not noticed |
| `response_cache` | 2 requests, 2 paths of which 1 exists, 2 contexts, 1 writer, 1 change of the data | implements `Proxy`; only sound bodies are stored; no follower is lost; every request ends |
| `response_route` | as above with late leaders, both paths exist | **violated**: a body is stored under another path's key |
| `search` | threshold 2, cooldown 2, 2 searches, 3 queries: a suggestion without a size, and on both routes a size beyond the window and beyond an int32 | fails soft, with the one exception; every probe has an owner; always ends; recovery is noticed |
| `answers` | 236 databases of up to 13 Pokémon, most of them gaining one row between any two queries; every endpoint | team lists are complete and without repetition under "National"; what they list can be opened, with the same types; builder and page agree on a move's values; pages lose and mix nothing; the national Pokédex is cut at the generations; removed abilities are there exactly in their time; a move comes with the newest wording |
| `team_twice` | the same | **violated**: a Pokémon of two regional Pokédexes is listed twice |
| `scrape` | 3 titles and an id without a name, 2 to a request, 2 attempts, 2 runs, 1 edit, 2 migrations or reloads | nothing readable is fetched again; runs end; a repeated run writes nothing; the emitted file restores the table |
| `species_page` | all sections of Floette up to 5 long (egg moves: 4), and one heading, tag and entry under every label of 9 shipped and 156 invented species | every entry goes to whom the page names; none is dropped silently; a label means what it says, in whatever order the forms come |
| `legends_backfill` | 2 moves, 2 methods, 2 runs, 1 edit of the page | batch and file agree; tables stay together; nothing is rewritten; a re-run is a no-op; after a rollback a whole up file restores all, and a re-run always does |
| `legends_down` | the same | **violated**: down removes more than up added |
| `indexer` | 2 runs, keep 2, 4 indices, 2 changes of the data | see the indexer above |

**Why these bounds.** Two failures are the fewest that differ from one, and a
cooldown of two ticks is the shortest that can be interrupted half-way. Three
readers let an old call report while a probe is out and a third tries. Two
writers let commands overtake each other. Two requests, paths and contexts are
what a follower and a context taken over by another request need; the single
data change separates an old from a new body. Four names with `Keep` 2 let two failed runs'
indices crowd a live one. Five
occurrences hold a block with two headings, its marker and two entries after it.
Two runs let one repeat, contradict or overwrite the files of another; a page
may list each of two moves in one section, in both or in none.
`MaxVersion` and `MaxNames` only bound how often the
pipeline and the indexer run; they appear in guards.

For `answers` the databases are chosen around what the code distinguishes: a
Pokémon whose types changed, one with a regional form, in none, one or several
Pokédexes of a game and with or without a learnset there; the first species of
every generation with forms after them and one missing; each shipped Pokémon
whose ability was taken away; two forms of one species with moves in three games,
past values, Legends values and repeated wordings. One added row is enough to
come between two queries; a request shares nothing with another, so one at a time
is enough, and a second one follows up what the first has shown. `IdSpan` scales
int32 to 16 bits: 81 + 65536 is the id that wraps. For `scrape`, two titles to a
request leave one for a second request; pages are there or missing at first
(`AtFirst`); two runs let one find what the other left, torn or settled;
`MaxAttempts` is 6 in the code. For `species_page`, six slugs give forms whose words
contain one another's, share some and share none, and one to three of them appear
in every order.

**Fairness.** Goroutines run, and calls end because their contexts have
deadlines: weak fairness on the end of each call and on the leader's steps. The
clock advances. Two assumptions concern the environment, and only
`RecoveryNoticed` and `RecoveryUnlessLost` need them. There is traffic: some request calls `Get`
whenever a `Get` could go out, and a query that could be the probe is not for
ever one whose size Elasticsearch rejects. And a backend that is up again and again
while a call waits answers one before its deadline and before its client leaves.
Nothing is assumed of clients, evictions, orphaned commands' success or the
pipeline; no request depends on `Leave` in order to end. In
`Scrape` a process that is not killed takes its next step; nothing is assumed of
the network, which may throttle a request each time until the run gives up.

**`PromptDispatch`.** The leader reads the route context of the request that
started it. `response_cache` assumes the leader has routed before that request
returns, which scheduling nearly always grants; `response_route` drops the
assumption. What the first run shows therefore holds up to that race.

## What the failing runs mean

- *The oversize body* (`cache.go:128`). `Set` asks the breaker before it looks at
  the body's length. If `Allow` grants the probe and the body is too long, nobody
  reports, `probing` stays set and the cache stays off until the process
  restarts. Checking the length first repairs it: `ProbeLostOnlyOversize` and theorem
  `ProbeOwned` show that nothing else leaks a probe, and `RecoveryUnlessLost` that
  nothing else keeps the cache off.
- *The route context* (`responsecache.go:103`). A context detached from
  cancellation still carries chi's pooled route context.
- *The down file* (`emit.go:319`). A run stores its rows and then emits them, so
  on that database the up file finds everything there and the down file deletes
  it all. What still holds is `DownLosesNothing`: a whole up file restores it, and
  where a crash tore that file, a run of the scraper does.
- *The team list* (`service/pokedex.go:155`). Each region of a game makes a group from
  its own query, and only the leftover group leaves out who was shown. A comment
  promises candidates "deduplicated by Pokemon ID" across every region. What holds is
  `RosterComplete`: nobody is missing, and "National" repeats nobody.

## What is proved

All theorems hold for every threshold and cooldown (positive), and for every
set of keys, bodies, readers, writers, searches, requests, paths, contexts,
Pokémon, moves and labels, for species of any number of forms under any names,
for sections of any length and any number of runs, titles and indices. They use
only the named assumptions of their modules: the numbers are positive; `None`,
`NoFile`, `Torn` and their like are no values; the second method section is tutor
or machine; labels name Pokémon of the species, whose ids are distinct
(`PagesAssumption`); ids are listed once, a page yields at most one row for a key,
and the shipped table is one (`IdsAssumption`, `RowsAssumption`,
`ShippedAssumption`). TLC evaluates each of them on the instance it checks.
The theorems about `Answers` hold for any finite tables of which
`ScenariosAssumption` says: rows are only added, ids are keys, species are numbered
from 1, a Pokémon has at most one past typing, a number of a Pokédex is given
once, no wording is empty, and the tables the pages join are `Linked` and `Shipped`.
Ids are primary keys. `Linked` is what else the schema guarantees: the keys of
`000020_keys_and_constraints` and of the tables made by `000003` and `000010`, the
foreign keys of `000001_baseline`, and columns that are enumerations. The rest no
constraint says, but it is true of the rows in `db/init.sql`. `Shipped` is what the
pages rely on: a move has at most one past value for a game (the join would list
the move twice), and of a Pokémon at most one ability was removed, a hidden one or one
of the two that `buildCandidateDetail` knows by the Pokémon's id. Fifteen Pokémon
list one ability twice, says `000020`; none of them lost one.

The inductive invariant of the breaker is `BreakerOK`: its types and
`BreakerInv`. The types alone say nothing about probes. `BreakerInv` has two
parts that need each other: a probe is out only when the breaker is open and
rested (so that only the report of some call, and not the clock, can change what
`Allow` answers), and an open breaker without a probe still rests for what its
last probe leaves of a cooldown (`cooling + sinceProbe >= Cooldown`). When
`Allow` grants a probe, `cooling` is 0, hence `sinceProbe` is `Cooldown`: that is
`OneProbePerWindow` (lemma `AdmitsRested`). `RedisCacheProofs` and
`SearchClientProofs` each prove for their own breaker that every method preserves
`BreakerOK`, and that each of their steps is one method or leaves it alone.

| Theorem | States |
|---|---|
| `RedisCacheProofs!TypeCorrect`, `SearchClientProofs!TypeCorrect` | types |
| `BreakerInvariant` (both) | `BreakerInv` |
| `OneProbe` (both) | one call per cooldown goes to a dead backend |
| `FailsSoft` | a search fails only while Postgres is down, unless it is a suggestion whose size does not fit an int32 |
| `ProbeKept` | in the cache, a probe loses the call that will report it only to a `Set` of an oversize body |
| `ProbeOwned` (both) | a probe always has a call that will report it; for the cache, provided no body is oversize |
| `LossyRefinement` | `RedisCache` implements `LossyCache` |
| `SpeciesPageProofs!TypeCorrect`, `LegendsBackfillProofs!TypeCorrect` | types |
| `AttributedAsRead` | in any section with any answers to its labels, every entry goes to whom the whole section names |
| `NothingLost` | there, an entry without rows is reported |
| `PagesAttributed` | both, for the pages and the answers `resolveFormMarker` gives |
| `PagesReadAsNamed` | every entry of every page goes to the Pokémon and the games the page names |
| `EmittedMatchesStored` | the up file adds what the batch added |
| `NeverRewritten` | gap filling rewrites no values row |
| `DownThenUp` | while the page is unchanged, after a whole down file a whole up file brings back every row and text of the tables, and a run of the scraper does so whatever the up file is |
| `RerunKeeps` | a batch that finds every learnset row of its page in the tables leaves both alone |
| `ScrapeProofs!TypeCorrect` | types |
| `CacheSaves` | no title with a readable cached answer is requested, and no such answer is replaced |
| `RerunWritesNothing` | a run in the mode of the last settled one, or one that only fills gaps, changes no row |
| `EmittedSurvives` | on the shipped tables the up file brings back the table it was emitted from |
| `TablesTogether`, `LevelUpWins` | details and values stay together; the level-up entry's second level is kept |
| `GateRefinement` | the breaker in `RedisCache` implements `Gate` |
| `ResponseCacheProofs!TypeCorrect`, `IndexerProofs!TypeCorrect` | types |
| `NoneLost` | whoever waits has a leader that will answer it |
| `StoredSound` | provided leaders route promptly, every stored body is one of its key |
| `ProxyRefinement` | with the same proviso, `ResponseCache` implements `Proxy` |
| `GoodServed` | search reads a complete index, even when runs overlap |
| `RosterWhole` | a team list shows everyone the game had when it began, nobody it has not when it ends, and nobody again under "National" |
| `ListedServed` | whom a team list shows can be opened, and while the tables stand still, has the same types there |
| `Described` | the moves of a candidate come with the newest wording of the game |
| `NationalDex` | the national Pokédex shows everyone once, in the group of their generation |
| `PagesAreWhole` | the regrouped pages of a Pokémon, a species and a move lose no row of the tables, make none up and leave no order |
| `ValuesAreOne` | while the tables stand still, the candidate and the Pokémon's page give a move the same power, PP and cooldown in a game |
| `AbilitiesOfTheirTime` | a removed ability is a candidate's in the games up to its removal, never beside its replacement |
| `LiveSpared`, `StaysLit`, `StaysFresh`, `NonePiledUp` | alone, a run never lists the live index, never leaves search without one or with older data, and leaves at most `Keep` |

For `ResponseCache` the invariant `Consistent` ties each leader to its followers in
both directions (`Joined` and `NoFollowerLost`) and makes route contexts private
(`Present`). That is enough for `NoneLost`. `StoredSound` and `ProxyRefinement` also
need `Routed`: a context holds the path of the request that has borrowed it, and
a spawned leader's context is still borrowed by a follower of its key. `Leave`
preserves that only under `PromptDispatch`, which the theorems name; run
`response_route` shows that without it they are false. `Fit` then says that
whatever is stored, under way to Redis or ready for followers is an answer `Proxy`
may give now: a flush may raise the floor only when nothing is under way, or `Fit`
would break.

For `Indexer`, `Named` and `Served` hold whatever overlaps: no two runs know one
name, a run in front of its swap is not live yet, and what it has verified is
full or gone. With `~overlap`, `Alone` adds that the run under way builds the
newest index and that search is on it once swapped, so that `prune` (which keeps
the newest) cannot list it; `Dated` orders the data by name, and `Pruned` counts
what a run spares. `NewestFew` (the newest n are at most n) goes through the
smallest element of the set, without induction.

`LegendsWalk` needs an invariant that says what its two walking variables mean
(`Meaning`): `currentIDs` is the `Owner` of the next position, and
`headingsSinceMarker` distinguishes none, one and more than one heading in the
open block. The lemmas `HeadingStep` and `BlockStep` say how the reference
reading moves on over one occurrence; each action is then one of their cases.

`SpeciesPage` adds two things. What `resolveFormMarker` answers is what the label
means (`MarkerMeans`). The scan remembers two candidates only, and has to tell a
label that fits one form best from one that fits several: `Ranked` says what two
are enough for. After i forms the best is one that none met is better than, and the
second one that none of the others is better than, so that best is better than second
exactly when it is the only one of its rank. `BestMeans` draws the three
conclusions (one form, a tie of forms whose every word is said, nobody). The
scan's induction goes through the least position at which `Ranked` could fail
(`Smallest`), because the library's induction rule takes an operator. And the two
other walks keep `EntryInv`: the Pokémon of the last heading, the games of the last
marker, and for each entry passed the rows the page names, which later entries
cannot change because a row carries its position. `walk` and the Legends walk's
variables do not touch each other, so `WalkInv` carries over as it is.

For `LegendsBackfill` the key lemma is `FirstRowAgrees`: of the rows that share a
values key, the first in page order and the first in sort order carry the same
second level, for either second method. The rest is about one page. As long as it
was not edited, the tables hold only what that page wants and the files are that
page's (`PageInv` with `Sound`), so details and values cannot part. `DownThenUp`
also needs that an applied migration has an up file (`AppliedInv`): from sound
tables a whole down file leaves nothing, and filling from the page's rows, by the up
file or by a batch, puts every row back (`FillAfterDown`). `RerunKeeps`
needs `BatchAddsNothing`: tables that have every key of the page take nothing
from its batch.

For `Scrape` the invariant has five parts besides the types. `NamesInv`: a name file
is absent, torn or what PokeAPI told, and the ids a run has passed are told.
`PagesInv`: `need` has no title twice, and from `at` on (while a batch is being
kept, from `at + kept` on) it is exactly the titles whose cache file cannot be read
(`Pending`). That makes `FetchedOnce` inductive: a batch is written to the cache page
by page, and the process can die in between. `SettledInv`: after a settled run the
cache is whole, the rows of the run are those the cache gives, and the table has
all their keys, with their texts if the run overwrites. `SourceInv`: whatever the table
has beyond the shipped rows, and every row of the up file, is what the cache says.
`FilesInv`: while a run emits, all scraped keys are in the table, and `permanent` is
the shipped table with the rows of the up file added. `CacheKept` and `ScrapedGrows`
tie them together: what was read stays, so scraped rows never go away or change.
`Gathered` is the append loop; its lemma `GatheredIs` (every wanted id, once, nothing
else) is proved like the scan's.

For `Answers` there are three layers. *Orders.* `ORDER BY` is in the model a ranking:
row i is the one with i - 1 rows before it. `Ranked` and `Listing` show, for any strict
total order over a finite set, that no rank is empty and none is shared, so such a
list loses no row and invents none; that Pokédex numbers or ids really give a
total order (`ByNumAltId`, `ByNumId`) is where the keys of the tables are used.
*Queries and assembly.* `RegionList`, `NationalList` and `LearnsetList` say which
rows the queries of a list answer; the types need `OneTyping`, because a past typing is
a row that may or may not be there. `UnseenIs` says what the service's loop over
the ids already shown leaves, and `TeamBodyIs` what the reply holds then, list by
list. *Time.* Each query of a request sees the tables at another moment. The
invariant `Inv` says that what a request holds (`Asking`), and what an answer was
made from (`Known`), are results of its queries at some moment between its begin
and now (`Between`). Tables only grow, so whoever a query could show at its
moment was one of the game's, or becomes one, between begin and end
(`MembersGrow`): that is `RosterWhole`. `Follows` orders the list a client has seen
before the candidate it opens, so the tables that answer the candidate contain
the row that was listed. `Described` needs the order of the queries: wordings are
looked up after the moves. `NationalDex` is about one query and its cut: rows rise
(`Rises`, from `Listing`), so the first rows of the nine separators come in order, the
first of them is row 1 because species start at 1, and the nine pieces tile the rows
(`CutsAre`, `CutsTile`); ids being keys, a place in a piece and a Pokémon are then
one to one (`WholeDexIs`).

The pages need more than that. `Arranging` extends the ranking to any key of numbers
(`KeyOf`, `Shows`, `Sorted`); a stable sort has the place as the last number of its
key. `Kept` is a group: the rows at some places of a list, in their order; `KeptShown` says it shows
those rows and no other. `Split` by game, again by method, and a sort by level lose
nothing and mix nothing (`SplitByVersion`, `SplitByMethod`, `MovesetsAre`), so a
detail holds what its own rows of the batch hold (`DetailIs`); learners and
wordings go the same way. The joins are read off the keys: `JoinedAre` and
`MoveRowsAre` give the one row a learnset entry joins to, past and Legends values
included, and `CandidateMovesAre` and `AllOfEachMove` the value the candidate's code
falls back to; both are `ValuesIn` the tables. `AbilitiesAre` does the same for
`buildCandidateDetail`'s filter. A second invariant, `PageInv`, sits on top of
`Inv`, whose `Asking` knows only the queries of a list: every result a request has
kept is what its query answers in one of the stages since it began (`Fetched`), an answer was
assembled from such results (`Told`), and what a client opens next has the name
or number it was shown (`Leads`). A page may mix stages, one per query. `ValuesAreOne`
needs only the moves to be of one stage, which the request times of both answers
give; `PagesAreWhole` uses that tables grow, so the stage of each query lies
between `Began` and `Ended`.

The type invariants of `SearchClient`, `ResponseCache`, `Indexer`, `LegendsWalk`,
`LegendsBackfill` and `Scrape` and the search's `OneProbePerWindow` are theorems and
no longer part of a run.

**Only model-checked:** all liveness (`RecoveryUnlessLost`, `RecoveryNoticed`, `EverySearchEnds`,
`EveryRequestEnds`, `RunEnds`), because liveness under fairness and ENABLED are beyond
the prover. Every invariant, action property and refinement of the passing runs is
stated by a theorem, some with a proviso the theorem names: `StoredSound` and
`ProxyRefinement` (prompt dispatch).

## What is not modelled, and why

- **Cache, middleware, search.** Counters, rate-limited logs, `Ping`/`Close`, headers
  and `X-Cache` values have no effect on anything else. Query building and ranking
  are pure. `SearchByType` has no caller. The trigram searches of `search.sql.go`
  are a success or a failure of Postgres. Rejections by Elasticsearch and departed
  clients count as failures (`client.go:79`), so the breaker can open on a healthy
  cluster, and a query too short for Elasticsearch is answered by the fallback with
  `degraded: false` (`service/search.go:81`): the model has both, and no property
  forbids them, because no document does. A suggestion of more than 2^31 - 1 hits can
  answer 500 with both backends up: Elasticsearch refuses the size, and the
  fallback converts it unchecked to the int32 of its LIMIT (`service/search.go:130`).
  The model has that too, and `FailSoft` names it as its exception.
- **Answers.** A path number that is no `int64` (400 before any query), columns that
  are only shown (a move's accuracy, the power values of the agile and the strong style),
  formatting (`ToDisplay`, slugs), and the health endpoint. Lists
  resolve past types by the region's generation and a candidate's page by the
  game's; `ListedIsServed` asks for equal types only where the two agree. Where a
  removed ability is hidden the page skips the generation filter, so in an older
  game it may show a regular ability that came later: `AbilitiesInTheirTime` is
  about removal and replacement, not about when an ability was new.
- **Indexer.** Names are in creation order, so a clock set back is outside the
  model; `buildDocs` reads the data in one step; `-only`, `-dry-run` and the document
  builders are left out; `-keep` is assumed positive, which the code does not check.
- **Scraper.** The `-source pokeapi` pass, `-dry-run`, redirects and normalised titles,
  a page cache that cannot be written (`bulba.go:217` ignores the error and goes on
  without the file), the finders of templates and headings, wikitext clean-up, and the
  item, display-name and egg-move writers, which follow the pattern of the
  description writer. The fields of one entry and what a page says are inputs.
  Label case, apostrophes and punctuation are abstracted to words. A page gives one
  text per game and Pokémon and lists a move at most once per section: the order of
  duplicates under an unstable sort is not defined. `knownGaps` only changes a
  report's wording.
- **External.** Elasticsearch, Redis, Postgres, golang-migrate, the wiki, PokeAPI and
  chi are modelled from how the code uses them.

## Plan

What is left, in the order of what it would add:

1. `Indexer` refined: `-only`, one action per query of `buildDocs` against tables that
   change, and the composition with `SearchClient`.
2. The item, egg-move and display-name writers as instances of one abstract
   gap-filling table, of which `Scrape` and `LegendsBackfill` are the first two.
