------------------------------- MODULE Store -------------------------------
(***************************************************************************)
(* internal/store: the tables of the database and what each query answers.  *)
(* A database is a record of tables, a table a set of rows. A row keeps the *)
(* columns that select, join or order rows and those an answer can get      *)
(* wrong; `types` stands for type1 and type2, `power` and `pp` for the      *)
(* numbers of a move. Names that are only shown are left out. A query whose *)
(* order can be observed answers a sequence, any other a set.               *)
(***************************************************************************)
EXTENDS Pokeenum

Tables == [
    pokemon |-> {"id", "name", "species", "types"},
    species |-> {"id", "name"},
    dexnumber |-> {"species", "dex", "num", "default", "alts"},
    pasttypes |-> {"pokemon", "gen", "types"},
    movedetails |-> {"pokemon", "move", "method", "level", "version"},
    move |-> {"id", "name", "power", "pp"},
    pastmovevalues |-> {"move", "versions", "power", "pp"},
    legendsmovevalues |-> {"pokemon", "move", "version", "power", "pp", "cooldown"},
    ability |-> {"id", "name", "gen"},
    abilitydetails |-> {"pokemon", "ability", "hidden", "gen"},
    item |-> {"id", "name", "showdown", "holdable", "formats"},
    itemheldby |-> {"item", "pokemon", "version"},
    evolution |-> {"chain", "id", "from", "to"},
    evolutionpeek |-> {"chain", "pokemon"},
    pokemondescriptions |-> {"of", "version", "text"},
    movedescriptions |-> {"of", "version", "text"},
    abilitydescriptions |-> {"of", "version", "text"},
    itemdescriptions |-> {"of", "version", "text"} ]

\* ORDER BY a key of numbers that no two rows share.
Before(a, b) == \E k \in DOMAIN a :
    a[k] < b[k] /\ \A j \in 1 .. k - 1 : a[j] = b[j]
ByKey(rows, key) ==
    [i \in 1 .. Cardinality(rows) |-> CHOOSE r \in rows :
        Cardinality({s \in rows : Before(key[s], key[r])}) = i - 1]
OrderBy(rows, Key(_)) == ByKey(rows, [r \in rows |-> Key(r)])

Coalesce(a, b) == IF a = Null THEN b ELSE a
One(rows) == CHOOSE r \in rows : TRUE
OrElse(rows, row) == IF rows = {} THEN {row} ELSE rows

\* :one by primary key or by the unique name; no row is pgx.ErrNoRows.
ByID(table, id) == {r \in table : r.id = id}
ByName(table, name) == {r \in table : r.name = name}

-----------------------------------------------------------------------------
(* pokedex.sql                                                              *)

Lists(d, id) == d.default = id \/ id \in d.alts
PastTypes(db, id, gen) == {t \in db.pasttypes : t.pokemon = id /\ t.gen >= gen}

\* LEFT JOIN pasttypes: every record of a past typing that still applies.
TypesIn(db, p, gen) ==
    OrElse({t.types : t \in PastTypes(db, p.id, gen)}, p.types)
AllTypes(db) ==
    {p.types : p \in db.pokemon} \cup {t.types : t \in db.pasttypes}

\* The FROM and WHERE that GetDexByRegion and GetTeamCandidatesByRegion share.
RegionRows(db, gen, dex) ==
    LET joined == {j \in db.dexnumber \X db.pokemon \X AllTypes(db) :
            /\ j[1].dex = dex
            /\ Lists(j[1], j[2].id)
            /\ j[3] \in TypesIn(db, j[2], gen)}
    IN OrderBy({[num |-> j[1].num, alt |-> IF j[2].id = j[1].default THEN 0 ELSE 1,
                 id |-> j[2].id, types |-> j[3]] : j \in joined},
               LAMBDA r : <<r.num, r.alt, r.id>>)
GetDexByRegion(db, gen, dex) == RegionRows(db, gen, dex)
GetTeamCandidatesByRegion(db, gen, dex) == RegionRows(db, gen, dex)

\* GetDexNational and GetTeamCandidatesNational: today's types.
NationalRows(db) ==
    OrderBy({[num |-> p.species, id |-> p.id, types |-> p.types] : p \in db.pokemon},
            LAMBDA r : <<r.num, r.id>>)

GetTeamCandidatesNationalByVersionGroup(db, gen, version) ==
    LET joined == {j \in db.pokemon \X AllTypes(db) :
            /\ \E md \in db.movedetails :
                   md.pokemon = j[1].id /\ md.version = version
            /\ j[2] \in TypesIn(db, j[1], gen)}
    IN OrderBy({[num |-> j[1].species, id |-> j[1].id, types |-> j[2]] :
                j \in joined}, LAMBDA r : <<r.num, r.id>>)

GetTeamCandidateNationalByID(db, id) ==
    {[id |-> p.id, types |-> p.types] : p \in ByID(db.pokemon, id)}

\* Mutant of GetTeamCandidateByID: only the Pokedexes make a member.
GetTeamCandidateByIDInDex(db, gen, id, regions, version) ==
    {[id |-> p.id, types |-> One(TypesIn(db, p, gen))] :
        p \in {q \in ByID(db.pokemon, id) :
            \E d \in db.dexnumber : d.dex \in regions /\ Lists(d, id)}}

\* The lateral join takes the earliest past typing that still applies.
GetTeamCandidateByID(db, gen, id, regions, version) ==
    LET earliest(p) == OrElse({t.types : t \in {
            u \in PastTypes(db, id, gen) :
                \A w \in PastTypes(db, id, gen) : u.gen <= w.gen}}, p.types)
    IN {[id |-> p.id, types |-> One(earliest(p))] :
        p \in {q \in ByID(db.pokemon, id) :
            \/ \E d \in db.dexnumber : d.dex \in regions /\ Lists(d, id)
            \/ \E md \in db.movedetails :
                   md.pokemon = id /\ md.version = version}}

GetCandidateAbilitiesByIDs(db, ids) ==
    OrderBy({[pokemon |-> j[1].pokemon, id |-> j[2].id, gen |-> j[2].gen,
              hidden |-> j[1].hidden, removed |-> j[1].gen] :
             j \in {k \in db.abilitydetails \X db.ability :
                 k[1].pokemon \in ids /\ k[2].id = k[1].ability}},
            LAMBDA r : <<r.pokemon, IF r.hidden THEN 1 ELSE 0, r.id>>)

GetCandidateMovesByIDs(db, ids) ==
    {[pokemon |-> j[1].pokemon, move |-> j[2].id, power |-> j[2].power,
      pp |-> j[2].pp, cooldown |-> Null] :
     j \in {k \in db.movedetails \X db.move :
         k[1].pokemon \in ids /\ k[2].id = k[1].move}}

NoPastValues == [move |-> Null, versions |-> {}, power |-> Null, pp |-> Null]
NoLegendsValues == [pokemon |-> Null, move |-> Null, version |-> Null,
                    power |-> Null, pp |-> Null, cooldown |-> Null]

\* LEFT JOIN pastmovevalues and LEFT JOIN legendsmovevalues.
PastValues(db, d) == OrElse({v \in db.pastmovevalues :
    v.move = d.move /\ d.version \in v.versions}, NoPastValues)
LegendsValues(db, d) == OrElse({v \in db.legendsmovevalues :
    v.pokemon = d.pokemon /\ v.move = d.move /\ v.version = d.version},
    NoLegendsValues)
LearntMoves(db, ids) == {j \in
    db.movedetails \X db.move \X (db.pastmovevalues \cup {NoPastValues})
        \X (db.legendsmovevalues \cup {NoLegendsValues}) :
    /\ j[1].pokemon \in ids /\ j[2].id = j[1].move
    /\ j[3] \in PastValues(db, j[1]) /\ j[4] \in LegendsValues(db, j[1])}

\* Mutant of GetCandidateMovesByIDsAndVersion: COALESCE over all three tables.
GetCandidateMovesCoalesced(db, ids, version) ==
    {[pokemon |-> j[1].pokemon, move |-> j[2].id,
      power |-> Coalesce(j[4].power, Coalesce(j[3].power, j[2].power)),
      pp |-> Coalesce(j[4].pp, Coalesce(j[3].pp, j[2].pp)),
      cooldown |-> j[4].cooldown] :
     j \in {k \in LearntMoves(db, ids) : k[1].version = version}}

GetCandidateMovesByIDsAndVersion(db, ids, version) ==
    {[pokemon |-> j[1].pokemon, move |-> j[2].id,
      power |-> IF j[4].pokemon # Null THEN j[4].power
                ELSE Coalesce(j[3].power, j[2].power),
      pp |-> IF j[4].pokemon # Null THEN j[4].pp
             ELSE Coalesce(j[3].pp, j[2].pp),
      cooldown |-> j[4].cooldown] :
     j \in {k \in LearntMoves(db, ids) : k[1].version = version}}

\* Mutant of GetCandidateMoveDescriptions: ORDER BY version without DESC.
GetCandidateMoveDescriptionsOldest(db, moves, games) ==
    LET wanted == {d \in db.movedescriptions :
            d.of \in moves /\ (games = {} \/ d.version \in games)}
    IN {d \in wanted : \A e \in wanted : e.of = d.of =>
            Position(d.version, GameOrder) <= Position(e.version, GameOrder)}

\* DISTINCT ON (move_id) ... ORDER BY version DESC: the newest wording.
GetCandidateMoveDescriptions(db, moves, games) ==
    LET wanted == {d \in db.movedescriptions :
            d.of \in moves /\ (games = {} \/ d.version \in games)}
    IN {d \in wanted : \A e \in wanted : e.of = d.of =>
            Position(e.version, GameOrder) <= Position(d.version, GameOrder)}

-----------------------------------------------------------------------------
(* pokemon.sql and species.sql                                              *)

GetDexNumbersByIDs(db, ids) ==
    {[pokemon |-> j[1], dex |-> j[2].dex, num |-> j[2].num] :
     j \in {k \in ids \X db.dexnumber : Lists(k[2], k[1])}}

GetPokemonDescriptionsByIDs(db, ids) ==
    OrderBy({d \in db.pokemondescriptions : d.of \in ids},
            LAMBDA d : <<d.of, Position(d.version, GameOrder)>>)

\* get_evolution_chain_by_id; a Pokemon is in one chain.
ChainsOf(db, id) ==
    {e.chain : e \in {f \in db.evolution : f.from = id \/ f.to = id}} \cup
    {k.chain : k \in {l \in db.evolutionpeek : l.pokemon = id}}
GetEvolutionChainByIDs(db, ids) ==
    {[pokemon |-> j[1], line |-> j[2]] :
     j \in {k \in ids \X db.evolution : k[2].chain \in ChainsOf(db, k[1])}}

GetPokemonMovesByIDs(db, ids) ==
    LET rows == {[pokemon |-> j[1].pokemon, move |-> j[1].move,
                  method |-> j[1].method, level |-> j[1].level,
                  version |-> j[1].version,
                  power |-> IF j[4].pokemon # Null THEN j[4].power
                            ELSE Coalesce(j[3].power, j[2].power),
                  pp |-> IF j[4].pokemon # Null THEN j[4].pp
                         ELSE Coalesce(j[3].pp, j[2].pp),
                  cooldown |-> j[4].cooldown] : j \in LearntMoves(db, ids)}
    IN OrderBy(rows, LAMBDA r :
           <<r.pokemon, Position(r.version, VersionGroupOrder),
             Position(r.method, MethodColumnOrder), r.level, r.move>>)

GetPokemonAbilitiesByIDs(db, ids) == GetCandidateAbilitiesByIDs(db, ids)

GetPokemon(db, id) == ByID(db.pokemon, id)
GetPokemonByName(db, name) == ByName(db.pokemon, name)
GetSpeciesByID(db, id) == ByID(db.species, id)
GetSpeciesByName(db, name) == ByName(db.species, name)
GetSpeciesIdFromPokemon(db, id) == {p.species : p \in ByID(db.pokemon, id)}

GetPokemonBySpeciesID(db, id) ==
    OrderBy({p \in db.pokemon : p.species = id}, LAMBDA p : <<p.id>>)

-----------------------------------------------------------------------------
(* moves.sql, abilities.sql and items.sql                                   *)

GetMove(db, id) == ByID(db.move, id)
GetMoveByName(db, name) == ByName(db.move, name)
GetMoves(db) == db.move
GetAbility(db, id) == ByID(db.ability, id)
GetAbilityByName(db, name) == ByName(db.ability, name)
GetAbilitiesList(db) == db.ability
GetItem(db, id) == ByID(db.item, id)
GetItemByName(db, name) == ByName(db.item, name)
GetItemsList(db) == db.item

GetPastMoveValues(db, move) == {v \in db.pastmovevalues : v.move = move}

\* The games of each wording, the wording of the oldest game first.
GroupedDescriptions(table, id) ==
    LET mine == {d \in table : d.of = id}
        age(d) == Position(d.version, GameOrder)
        games(text) == OrderBy({d \in mine : d.text = text}, LAMBDA d : <<age(d)>>)
        groups == {games(d.text) : d \in mine}
        row(g) == [games |-> [i \in DOMAIN g |-> g[i].version], text |-> g[1].text]
    IN OrderBy({row(g) : g \in groups},
               LAMBDA r : <<Position(r.games[1], GameOrder)>>)
GetMoveDescriptions(db, id) == GroupedDescriptions(db.movedescriptions, id)
GetAbilityDescriptions(db, id) == GroupedDescriptions(db.abilitydescriptions, id)
GetItemDescriptions(db, id) == GroupedDescriptions(db.itemdescriptions, id)

\* Rows of one Pokemon come in any order; the answer splits them by method.
Snap(p) == [id |-> p.id, species |-> p.species]
GetPokemonLearnableMove(db, move) ==
    OrderBy({[id |-> j[2].id, species |-> j[2].species, method |-> j[1].method] :
             j \in {k \in db.movedetails \X db.pokemon :
                 k[1].move = move /\ k[2].id = k[1].pokemon}},
            LAMBDA r : <<r.species, r.id, Position(r.method, MethodColumnOrder)>>)

GetPokemonLearnableAbility(db, ability) ==
    {Snap(p) : p \in {q \in db.pokemon : \E d \in db.abilitydetails :
        d.pokemon = q.id /\ d.ability = ability}}
GetPokemonHoldingItem(db, item) ==
    {Snap(p) : p \in {q \in db.pokemon : \E h \in db.itemheldby :
        h.pokemon = q.id /\ h.item = item}}
GetHoldableItems(db, format) ==
    {i.showdown : i \in {j \in db.item :
        j.holdable /\ j.showdown # Null /\ format \in j.formats}}
=============================================================================
