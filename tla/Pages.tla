------------------------------- MODULE Pages -------------------------------
(***************************************************************************)
(* The pages of one Pokemon, species, move, ability and item, and the lists *)
(* of moves, abilities and items: service/{pokemon,species,moves,abilities, *)
(* items}.go behind the handlers of the same names.                         *)
(***************************************************************************)
EXTENDS Requests

Distinct(rows, Field(_)) == {Field(rows[i]) : i \in DOMAIN rows}
InOrder(values, list) == OrderBy(values, LAMBDA v : <<Position(v, list)>>)

\* The rows of a list at some of its places, in their order.
Kept(rows, at) ==
    LET place == OrderBy(at, LAMBDA i : <<i>>)
    IN [i \in DOMAIN place |-> rows[place[i]]]

\* SliceStable: by level, rows of one level as the query left them.
ByLevel(rows) ==
    LET place == OrderBy(DOMAIN rows, LAMBDA i : <<rows[i].level, i>>)
    IN [i \in DOMAIN rows |-> rows[place[i]]]

Groups(rows, values, Field(_)) ==
    [g \in DOMAIN values |->
        [of |-> values[g],
         rows |-> Kept(rows, {i \in DOMAIN rows : Field(rows[i]) = values[g]})]]

\* Moves by version group, then by learn method, then by level.
groupMoveset(moves) ==
    LET version(m) == m.version
        method(m) == m.method
        versions == Groups(moves,
            InOrder(Distinct(moves, version), VersionGroupOrder), version)
        methods(rows) == Groups(rows,
            InOrder(Distinct(rows, method), LearnMethodOrder), method)
        sorted(groups) == [g \in DOMAIN groups |->
            [groups[g] EXCEPT !.rows = ByLevel(@)]]
    IN [v \in DOMAIN versions |->
           [version |-> versions[v].of, methods |-> sorted(methods(versions[v].rows))]]

groupPokemonLearnable(rows) ==
    LET method(r) == r.method
    IN Groups(rows, InOrder(Distinct(rows, method), LearnMethodOrder), method)

\* The rows of one Pokemon out of the rows of a batch of Pokemon.
Own(rows, id) == Kept(rows, {i \in DOMAIN rows : rows[i].pokemon = id})
OwnSet(rows, id) == {r \in rows : r.pokemon = id}

assembleDetail(p, numbers, entries, evolution, moves, abilities) ==
    [id |-> p.id, species |-> p.species, types |-> p.types,
     numbers |-> OwnSet(numbers, p.id),
     entries |-> Kept(entries, {i \in DOMAIN entries : entries[i].of = p.id}),
     evolution |-> {e.line : e \in OwnSet(evolution, p.id)},
     movesets |-> groupMoveset(Own(moves, p.id)),
     abilities |-> Own(abilities, p.id)]

-----------------------------------------------------------------------------
(* /pokemon and /species, by id or by name                                  *)

ByNumber == req.name = ""
Either(byID(_, _), byName(_, _)) ==
    IF ByNumber THEN byID(db, req.id) ELSE byName(db, req.name)

\* Ids above 10000 are those of forms, to be resolved to a species first.
FormIdAbove == 10000
Resolves == ByNumber /\ req.id > FormIdAbove

PokemonRow ==
    /\ Serving("pokemon", 0)
    /\ QueryOne(Either(GetPokemon, GetPokemonByName))

SpeciesOfForm ==
    /\ Serving("species", 0) /\ Resolves
    /\ QueryOne(GetSpeciesIdFromPokemon(db, req.id))

SpeciesRow ==
    /\ Serving("species", IF Resolves THEN 1 ELSE 0)
    /\ QueryOne(IF Resolves THEN GetSpeciesByID(db, One(Got(1)))
                ELSE Either(GetSpeciesByID, GetSpeciesByName))

SpeciesForms ==
    /\ Serving("species", IF Resolves THEN 2 ELSE 1)
    /\ Query(GetPokemonBySpeciesID(db, One(Got(Len(req.got))).id), 500)

\* buildDetails: how many queries come before its five, and for whom they are.
BeforeDetails == IF req.ep = "pokemon" THEN 1 ELSE IF Resolves THEN 3 ELSE 2
Batch == IF req.ep = "pokemon" THEN <<One(Got(1))>> ELSE Got(BeforeDetails)
Ids == {Batch[i].id : i \in DOMAIN Batch}
Detailing(k) == /\ req # Idle /\ req.ep \in {"pokemon", "species"}
                /\ Len(req.got) = BeforeDetails + k

DexNumbers == Detailing(0) /\ Query(GetDexNumbersByIDs(db, Ids), 500)
DexEntries == Detailing(1) /\ Query(GetPokemonDescriptionsByIDs(db, Ids), 500)
Evolution == Detailing(2) /\ Query(GetEvolutionChainByIDs(db, Ids), 500)
Moves == Detailing(3) /\ Query(GetPokemonMovesByIDs(db, Ids), 500)
Abilities == Detailing(4) /\ Query(GetPokemonAbilitiesByIDs(db, Ids), 500)

\* Mutant of buildDetails: every Pokemon of the batch gets the whole batch's.
buildDetailsShared(ps, r) ==
    [i \in DOMAIN ps |->
        [assembleDetail(ps[i], r[1], r[2], r[3], r[4], r[5])
            EXCEPT !.movesets = groupMoveset(r[4])]]

buildDetails(ps, r) ==
    [i \in DOMAIN ps |-> assembleDetail(ps[i], r[1], r[2], r[3], r[4], r[5])]

DetailReply ==
    /\ Detailing(5)
    /\ LET details == buildDetails(Batch,
               SubSeq(req.got, BeforeDetails + 1, BeforeDetails + 5))
       IN Reply(200, IF req.ep = "pokemon" THEN details[1]
                     ELSE [id |-> One(Got(BeforeDetails - 1)).id, forms |-> details])

-----------------------------------------------------------------------------
(* /moves, /abilities, /items and the items a Pokemon may hold              *)

DetailPages == {"move", "ability", "item"}
ListPages == {"moves", "abilities", "items", "holdable"}

PageRow(ep) ==
    /\ Serving(ep, 0)
    /\ QueryOne(CASE ep = "move" -> Either(GetMove, GetMoveByName)
                  [] ep = "ability" -> Either(GetAbility, GetAbilityByName)
                  [] ep = "item" -> Either(GetItem, GetItemByName))

\* The query `rows(id)` a page makes next, once it has its row.
ThenQuery(ep, k, rows(_)) == /\ Serving(ep, k)
                             /\ Query(rows(One(Got(1)).id), 500)

MoveRest ==
    \/ ThenQuery("move", 1, LAMBDA id : GetPastMoveValues(db, id))
    \/ ThenQuery("move", 2, LAMBDA id : GetMoveDescriptions(db, id))
    \/ ThenQuery("move", 3, LAMBDA id : GetPokemonLearnableMove(db, id))
    \/ /\ Serving("move", 4)
       /\ Reply(200, [row |-> One(Got(1)), past |-> Got(2), descriptions |-> Got(3),
                      pokemon |-> groupPokemonLearnable(Got(4))])

AbilityRest ==
    \/ ThenQuery("ability", 1, LAMBDA id : GetAbilityDescriptions(db, id))
    \/ ThenQuery("ability", 2, LAMBDA id : GetPokemonLearnableAbility(db, id))
    \/ /\ Serving("ability", 3)
       /\ Reply(200, [row |-> One(Got(1)), descriptions |-> Got(2), pokemon |-> Got(3)])

ItemRest ==
    \/ ThenQuery("item", 1, LAMBDA id : GetItemDescriptions(db, id))
    \/ ThenQuery("item", 2, LAMBDA id : GetPokemonHoldingItem(db, id))
    \/ /\ Serving("item", 3)
       /\ Reply(200, [row |-> One(Got(1)), descriptions |-> Got(2), pokemon |-> Got(3)])

\* BattleFormatKey values stored in item.legal_formats
itemFormats == {"1", "2", "3", "4", "5", "6", "7", "8", "9", "nationaldex", "legendsza"}

ListOf(ep) == CASE ep = "moves" -> GetMoves(db)
                [] ep = "abilities" -> GetAbilitiesList(db)
                [] ep = "items" -> GetItemsList(db)
                [] ep = "holdable" -> GetHoldableItems(db, req.name)

BadFormat ==
    /\ Serving("holdable", 0)
    /\ req.name \notin itemFormats
    /\ Reply(400, Null)

ListRows(ep) ==
    /\ Serving(ep, 0)
    /\ ep = "holdable" => req.name \in itemFormats
    /\ Query(ListOf(ep), 500)

ListReply(ep) ==
    /\ Serving(ep, 1)
    /\ Reply(200, Got(1))

-----------------------------------------------------------------------------
PagesNext ==
    \/ Ask("pokemon") \/ PokemonRow
    \/ Ask("species") \/ SpeciesOfForm \/ SpeciesRow \/ SpeciesForms
    \/ DexNumbers \/ DexEntries \/ Evolution \/ Moves \/ Abilities \/ DetailReply
    \/ \E ep \in DetailPages : Ask(ep) \/ PageRow(ep)
    \/ MoveRest \/ AbilityRest \/ ItemRest \/ BadFormat
    \/ \E ep \in ListPages : Ask(ep) \/ ListRows(ep) \/ ListReply(ep)
=============================================================================
