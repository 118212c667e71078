----------------------------- MODULE MCAnswers -----------------------------
(* Small databases in the shapes of the shipped data, and who asks what.    *)
EXTENDS Answers

Nothing == [t \in DOMAIN Tables |-> {}]
Slug(id) == "no-" \o ToString(id)
Mon(id, species, types) ==
    [id |-> id, name |-> Slug(id), species |-> species, types |-> types]
Dex(dex, num, default, alts) ==
    [species |-> num, dex |-> dex, num |-> num, default |-> default, alts |-> alts]
Learns(mon, move, method, level, version) ==
    [pokemon |-> mon, move |-> move, method |-> method, level |-> level,
     version |-> version]
Move(id, power, pp) == [id |-> id, name |-> Slug(id), power |-> power, pp |-> pp]
Says(of, version, text) == [of |-> of, version |-> version, text |-> text]
Ability(id, gen) == [id |-> id, name |-> Slug(id), gen |-> gen]
Has(mon, ability, hidden, gen) ==
    [pokemon |-> mon, ability |-> ability, hidden |-> hidden, gen |-> gen]
Ask1(ep, name, id) == [ep |-> ep, name |-> name, id |-> id]
Scenario(before, after, asks) == [before |-> before, after |-> after, asks |-> asks]

\* One more row of a table, or none.
Grown(d, table, rows) == {d} \cup {[d EXCEPT ![table] = @ \cup {r}] : r \in rows}

-----------------------------------------------------------------------------
(* Who is in a game: Magnemite, that got its second type in generation 2,   *)
(* and a Pokemon with a regional form, in up to three Pokedexes.             *)
Magnemite == Mon(81, 81, {"electric", "steel"})
Rattata == Mon(19, 19, {"normal"})
RattataAlola == Mon(10091, 19, {"dark"})
RosterDexes == {Dex("kanto", 81, 81, {}), Dex("kanto", 19, 19, {10091}),
                Dex("kalos-central", 10, 81, {}), Dex("kalos-coastal", 5, 81, {19})}
RosterLearns == {Learns(81, 33, "level-up", 1, "x-y"),
                 Learns(10091, 33, "level-up", 1, "x-y"),
                 Learns(81, 33, "level-up", 1, "red-blue")}
RosterAsks ==
    {Ask1(ep, n, 0) : ep \in {"dex", "team"},
        n \in {"x-y", "national", "nowhere"}} \cup
    {Ask1("dex", "red-blue-yellow", 0), Ask1("team", "red-blue", 0),
     Ask1("team", "firered-leafgreen", 0)} \cup
    {Ask1("candidate", n, id) : n \in {"x-y", "red-blue", "firered-leafgreen", "national", "nowhere"},
        id \in {81, 10091, 81 + 65536}}
Roster ==
    LET base == [Nothing EXCEPT
            !.pokemon = {Magnemite, Rattata, RattataAlola},
            !.pasttypes = {[pokemon |-> 81, gen |-> 1, types |-> {"electric"}]},
            !.move = {Move(33, 40, 35)}]
        with(dexes, learns) == [base EXCEPT !.dexnumber = dexes, !.movedetails = learns]
    IN UNION {{Scenario(d, e, RosterAsks) :
            e \in Grown(d, "dexnumber", RosterDexes) \cup Grown(d, "movedetails", RosterLearns)} :
           d \in {with(dexes, learns) :
               dexes \in {{}, RosterDexes} \cup {{x} : x \in RosterDexes},
               learns \in {{}, RosterLearns} \cup {{x} : x \in RosterLearns}}}

-----------------------------------------------------------------------------
(* The national Pokedex: the first species of each generation, with forms.   *)
National ==
    LET firsts == {Mon(separatorNums[i], separatorNums[i], {"normal"}) :
                   i \in DOMAIN separatorNums}
        others == {Mon(151, 151, {"psychic"}), Mon(10033, 3, {"grass"}),
                   Mon(10200, 152, {"grass"}), Mon(905, 905, {"fairy"})}
        db0(ps) == [Nothing EXCEPT !.pokemon = ps]
    IN UNION {{Scenario(db0(ps), d, {Ask1("dex", "national", 0)}) :
               d \in Grown(db0(ps), "pokemon", others \cup firsts)} :
              ps \in {firsts \cup s : s \in SUBSET others}
                     \cup {firsts \ {Mon(252, 252, {"normal"})}}}

-----------------------------------------------------------------------------
(* The Pokemon whose abilities later games took away, as shipped.            *)
TimeOf(id, abilities, has) ==
    LET games == DOMAIN versionGroups
        d == [Nothing EXCEPT !.pokemon = {Mon(id, id, {"ghost"})},
              !.ability = abilities, !.abilitydetails = has,
              !.move = {Move(33, 40, 35)},
              !.movedetails = {Learns(id, 33, "level-up", 1, v) : v \in games}]
    IN Scenario(d, d, {Ask1("candidate", v, id) : v \in games})
Times == {
    TimeOf(94, {Ability(26, 3), Ability(130, 5)},
           {Has(94, 26, FALSE, 6), Has(94, 130, FALSE, Null)}),
    TimeOf(145, {Ability(46, 3), Ability(31, 3), Ability(9, 3)},
           {Has(145, 46, FALSE, Null), Has(145, 31, TRUE, 5), Has(145, 9, TRUE, Null)}),
    TimeOf(243, {Ability(46, 3), Ability(10, 3), Ability(39, 3)},
           {Has(243, 46, FALSE, Null), Has(243, 10, TRUE, 6), Has(243, 39, TRUE, Null)}),
    TimeOf(275, {Ability(34, 3), Ability(48, 3), Ability(124, 5), Ability(274, 9)},
           {Has(275, 34, FALSE, Null), Has(275, 48, FALSE, 8), Has(275, 274, FALSE, Null),
            Has(275, 124, TRUE, Null)}),
    TimeOf(395, {Ability(67, 3), Ability(128, 5), Ability(172, 5)},
           {Has(395, 67, FALSE, Null), Has(395, 128, TRUE, 8), Has(395, 172, TRUE, Null)})}

-----------------------------------------------------------------------------
(* Moves, values and wordings of two forms of one species.                   *)
PageLearns == {Learns(19, 33, "level-up", 7, "red-blue"),
               Learns(19, 45, "level-up", 1, "red-blue"),
               Learns(19, 45, "egg", 0, "x-y"), Learns(19, 33, "machine", 0, "x-y"),
               Learns(10091, 33, "level-up", 1, "x-y"),
               Learns(10091, 45, "level-up", 5, "legends-za")}
PageWords == {Says(33, "red", "old"), Says(33, "x", "new"), Says(33, "y", "new"),
              Says(45, "blue", "old"), Says(33, "blue", "old")}
PageAsks ==
    {Ask1(ep, "", 19) : ep \in {"pokemon", "species"}} \cup
    {Ask1("species", "", 10091), Ask1("pokemon", "", 10091), Ask1("pokemon", Slug(19), 0),
     Ask1("pokemon", "", 7), Ask1("species", Slug(19), 0), Ask1("species", "", 10000),
     Ask1("species", "", 10500), Ask1("move", "", 33), Ask1("move", Slug(33), 0), Ask1("move", "", 7),
     Ask1("ability", "", 50), Ask1("item", "", 217), Ask1("moves", "", 0),
     Ask1("abilities", "", 0), Ask1("items", "", 0), Ask1("holdable", "9", 0),
     Ask1("holdable", "10", 0)} \cup
    {Ask1("candidate", v, id) : v \in {"red-blue", "x-y", "legends-za", "national"},
                                id \in {19, 10091}}
PageDB ==
    [Nothing EXCEPT
        !.pokemon = {Rattata, RattataAlola}, !.species = {[id |-> 19, name |-> Slug(19)]},
        !.dexnumber = {Dex("kanto", 19, 19, {10091})},
        !.move = {Move(33, 40, 35), Move(45, Null, 40)},
        !.pastmovevalues = {[move |-> 33, versions |-> {"red-blue", "yellow"},
                             power |-> 35, pp |-> Null]},
        !.legendsmovevalues = {[pokemon |-> 10091, move |-> 45, version |-> "legends-za",
                                power |-> Null, pp |-> Null, cooldown |-> 8]},
        !.movedetails = PageLearns, !.movedescriptions = PageWords,
        !.ability = {Ability(50, 3), Ability(62, 3)},
        !.abilitydetails = {Has(19, 50, FALSE, Null), Has(10091, 62, FALSE, Null)},
        !.abilitydescriptions = {Says(50, "x", "flees")},
        !.item = {[id |-> 217, name |-> Slug(217), showdown |-> "quickclaw",
                   holdable |-> TRUE, formats |-> {"9"}]},
        !.itemheldby = {[item |-> 217, pokemon |-> 19, version |-> "x"]},
        !.evolution = {[chain |-> 1, id |-> 1, from |-> 19, to |-> 20]},
        !.evolutionpeek = {[chain |-> 1, pokemon |-> 10091]},
        !.pokemondescriptions = {Says(19, "red", "bites"), Says(10091, "sun", "hoards")}]
PagesDB ==
    LET less == {[PageDB EXCEPT !.movedetails = @ \ {r}] : r \in PageLearns}
            \cup {[PageDB EXCEPT !.movedescriptions = @ \ {w}] : w \in PageWords}
            \cup {[PageDB EXCEPT
                !.pokemon = {Rattata}, !.legendsmovevalues = {}, !.evolutionpeek = {},
                !.movedetails = {r \in @ : r.pokemon = 19},
                !.abilitydetails = {r \in @ : r.pokemon = 19},
                !.pokemondescriptions = {r \in @ : r.of = 19}]}
    IN {Scenario(d, PageDB, PageAsks) : d \in less \cup {PageDB}}

MCScenarios == Roster \cup National \cup Times \cup PagesDB
=============================================================================
