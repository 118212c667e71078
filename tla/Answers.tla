------------------------------ MODULE Answers ------------------------------
(***************************************************************************)
(* The read API: every handler of Pokedex and Pages against one database    *)
(* that may gain rows in the middle of a request, and what its answers      *)
(* promise a client that puts several of them together.                     *)
(***************************************************************************)
EXTENDS Pokedex, Pages

Next == Migrate \/ PokedexNext \/ PagesNext
Spec == Init /\ [][Next]_vars

-----------------------------------------------------------------------------
Answered(ep) == answer # NoAnswer /\ answer.ep = ep /\ answer.status = 200
Began == scenario[answer.began]
Ended == scenario[answer.ended]
Stable == answer.began = answer.ended
Body == answer.body
Ranks(values, list) == [i \in DOMAIN values |-> Position(values[i], list)]
Ascending(s) == \A i, j \in DOMAIN s : i < j => s[i] < s[j]

\* Ids a list shows, and the rows that show one of them.
Listed(groups) == UNION {{groups[g].pokemon[i].id : i \in DOMAIN groups[g].pokemon} :
                         g \in DOMAIN groups}
Entries(groups, id) == UNION {
    {r \in {groups[g].pokemon[i] : i \in DOMAIN groups[g].pokemon} : r.id = id} :
    g \in DOMAIN groups}

\* Who a game has: in one of its Pokedexes, or with a learnset in it.
Members(d, version) == {p.id : p \in {q \in d.pokemon :
    \/ version = "national"
    \/ \E n \in d.dexnumber : /\ Lists(n, q.id)
                              /\ \E i \in DOMAIN versionGroups[version].regions :
                                     versionGroups[version].regions[i] = n.dex
    \/ \E m \in d.movedetails : m.pokemon = q.id /\ m.version = version}}

\* A team list, put together from one query per region and one for the rest
\* with rows arriving between them, shows everyone the game had when it began,
\* nobody it does not have, and under "National" nobody one of its Pokedexes has
\* shown. (Two Pokedexes may both show a Pokemon: see CandidatesOnce.)
RosterComplete ==
    Answered("team") =>
        /\ Members(Began, answer.name) \subseteq Listed(Body)
        /\ Listed(Body) \subseteq Members(Ended, answer.name)
        /\ \A g \in DOMAIN Body : Body[g].list = "National" =>
               Listed(<<Body[g]>>) \cap Listed(SubSeq(Body, 1, g - 1)) = {}

\* pokedex.go:110 - a team list "combines candidates across every region a
\* version group spans, deduplicated by Pokemon ID". The code does not keep
\* this: it leaves out of "National" whom a region has shown, but of no region
\* whom another one has.
CandidatesOnce ==
    Answered("team") =>
        \A g, h \in DOMAIN Body :
            g # h => Listed(<<Body[g]>>) \cap Listed(<<Body[h]>>) = {}

\* Every Pokedex a game uses follows the rules of the game's own generation.
RulesAgree(version) == \A i \in DOMAIN TeamRegions(version) :
    RegionGen[TeamRegions(version)[i]] = versionGroups[version].gen

FollowsList == /\ answer # NoAnswer /\ answer.ep = "candidate"
               /\ earlier # NoAnswer /\ earlier.ep = "team"

\* What a team list shows can be opened: a candidate of it is never "not
\* found", one that is not in it never opens while the tables stand still, and
\* both show the same types (GetTeamCandidates asks for the rules of the region,
\* GetTeamCandidate for those of the game: see RulesAgree).
ListedIsServed ==
    FollowsList =>
        /\ answer.id \in Listed(earlier.body) => answer.status # 404
        /\ (answer.status = 200 /\ earlier.began = answer.ended) =>
               /\ answer.id \in Listed(earlier.body)
               /\ RulesAgree(answer.name) =>
                      \A r \in Entries(earlier.body, answer.id) :
                          r.types = Body.types

\* The power, PP and cooldown of a move in a game, as the Pokemon's page has it.
ValuesOnPage(page, version) ==
    LET here == {v \in DOMAIN page.movesets : page.movesets[v].version = version}
        rows(v, m) == page.movesets[v].methods[m].rows
    IN UNION {UNION {{[move |-> rows(v, m)[i].move, power |-> rows(v, m)[i].power,
                       pp |-> rows(v, m)[i].pp, cooldown |-> rows(v, m)[i].cooldown] :
                      i \in DOMAIN rows(v, m)} :
                     m \in DOMAIN page.movesets[v].methods} : v \in here}

\* The team builder and the Pokemon's page resolve the values of a game by two
\* queries and two services, and give one answer: the same moves with the same
\* power, PP and cooldown.
ValuesAgree ==
    (/\ Answered("pokemon") /\ earlier # NoAnswer /\ earlier.ep = "candidate"
     /\ earlier.name # "national" /\ earlier.began = answer.ended) =>
        {[move |-> m.move, power |-> m.power, pp |-> m.pp,
          cooldown |-> m.cooldown] : m \in earlier.body.moves}
            = ValuesOnPage(Body, earlier.name)

\* Every move a page's movesets hold, with its version, method and level.
Taught(page) ==
    LET set(v, m) == page.movesets[v].methods[m]
    IN UNION {UNION {{<<page.movesets[v].version, set(v, m).of,
                        set(v, m).rows[i].move, set(v, m).rows[i].level>> :
                      i \in DOMAIN set(v, m).rows} :
                     m \in DOMAIN page.movesets[v].methods} :
              v \in DOMAIN page.movesets}
TaughtIn(d, id) == {<<r.version, r.method, r.move, r.level>> :
    r \in {s \in d.movedetails : s.pokemon = id}}

\* Games in order, methods in order, levels in order.
MovesetsOrdered(page) ==
    LET sets(v) == page.movesets[v].methods
    IN /\ Ascending(Ranks([v \in DOMAIN page.movesets |->
                              page.movesets[v].version], VersionGroupOrder))
       /\ \A v \in DOMAIN page.movesets :
            /\ Ascending(Ranks([m \in DOMAIN sets(v) |-> sets(v)[m].of],
                               LearnMethodOrder))
            /\ \A m \in DOMAIN sets(v) : \A i, j \in DOMAIN sets(v)[m].rows :
                   i < j => sets(v)[m].rows[i].level <= sets(v)[m].rows[j].level

MovesetsWhole(page) ==
    /\ TaughtIn(Began, page.id) \subseteq Taught(page)
    /\ Taught(page) \subseteq TaughtIn(Ended, page.id)
    /\ MovesetsOrdered(page)

\* Each wording once, with all its games, and no game lost.
WordingsWhole(groups, before, after) ==
    LET said == UNION {{<<groups[g].games[i], groups[g].text>> :
                        i \in DOMAIN groups[g].games} : g \in DOMAIN groups}
        all(table) == {<<d.version, d.text>> : d \in {e \in table : e.of = Body.row.id}}
    IN /\ all(before) \subseteq said /\ said \subseteq all(after)
       /\ \A g, h \in DOMAIN groups : g # h => groups[g].text # groups[h].text
       /\ Ascending(Ranks([g \in DOMAIN groups |-> groups[g].games[1]], GameOrder))

LearnersWhole ==
    LET groups == Body.pokemon
        shown == UNION {{<<groups[g].of, groups[g].rows[i].id>> :
                         i \in DOMAIN groups[g].rows} : g \in DOMAIN groups}
        all(d) == {<<m.method, m.pokemon>> :
                   m \in {n \in d.movedetails : n.move = Body.row.id}}
    IN /\ all(Began) \subseteq shown /\ shown \subseteq all(Ended)
       /\ Ascending(Ranks([g \in DOMAIN groups |-> groups[g].of], LearnMethodOrder))

\* The pages regroup the rows of their queries more than once on the way to the
\* client: nothing is lost, shown for another Pokemon or another game, or out of
\* the order of release, whatever rows arrive between two queries.
PagesWhole ==
    /\ Answered("pokemon") => MovesetsWhole(Body)
    /\ Answered("species") =>
           /\ {Body.forms[i].id : i \in DOMAIN Body.forms}
                \in {{p.id : p \in {q \in d.pokemon : q.species = Body.id}} :
                     d \in {Began, Ended}}
           /\ \A i \in DOMAIN Body.forms : MovesetsWhole(Body.forms[i])
    /\ Answered("move") =>
           /\ LearnersWhole
           /\ WordingsWhole(Body.descriptions, Began.movedescriptions,
                            Ended.movedescriptions)

\* The national Pokedex is cut where each generation begins: the groups are all
\* the rows in their order, and a Pokemon and its forms, which share a number,
\* are in the group of that number's generation.
NationalDexWhole ==
    (Answered("dex") /\ answer.name = "national") =>
        LET count == Len(separatorNums)
            rows == UNION {{<<g, i>> : i \in DOMAIN Body[g].pokemon} : g \in DOMAIN Body}
            row(r) == Body[r[1]].pokemon[r[2]]
        IN /\ Len(Body) = count
           /\ {row(r).id : r \in rows}
                \in {{p.id : p \in d.pokemon} : d \in {Began, Ended}}
           /\ Cardinality(rows) = Cardinality({row(r).id : r \in rows})
           /\ \A r \in rows :
                /\ separatorNums[r[1]] <= row(r).num
                /\ r[1] < count => row(r).num < separatorNums[r[1] + 1]

\* An ability that later games took away is a candidate's in exactly the games
\* up to its removal, and never together with what replaced it: the hidden
\* ability for a hidden one, Wind Rider (274) for Shiftry's Early Bird.
AbilitiesInTheirTime ==
    (Answered("candidate") /\ Stable) =>
        LET gen == versionGroups[answer.name].gen
            mine == {a \in Ended.abilitydetails : a.pokemon = answer.id}
            removed == {a \in mine : a.gen # Null}
            replaced(a) == {b \in mine \ removed :
                               (a.hidden /\ b.hidden) \/ (a.ability = 48 /\ b.ability = 274)}
        IN \A a \in removed :
               /\ a.ability \in Body.abilities <=> gen <= a.gen
               /\ a.ability \in Body.abilities =>
                      \A b \in replaced(a) : b.ability \notin Body.abilities

\* A move of a candidate comes with the newest wording of the requested games,
\* and with none only if they had none: the descriptions are looked up after the
\* moves they are for, so one that arrived with its move is found.
CandidateDescribed ==
    Answered("candidate") =>
        \A m \in Body.moves :
            LET games == versionGroups[answer.name].games
                wordings(d) == {w \in d.movedescriptions : w.of = m.move
                                    /\ (games = {} \/ w.version \in games)}
                age(w) == Position(w.version, GameOrder)
            IN IF m.text = "" THEN wordings(Began) = {}
               ELSE \E w \in wordings(Ended) :
                        /\ w.text = m.text
                        /\ \A o \in wordings(Began) : age(o) <= age(w)
=============================================================================
