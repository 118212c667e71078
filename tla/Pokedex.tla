------------------------------ MODULE Pokedex ------------------------------
(***************************************************************************)
(* service/pokedex.go behind handlers/pokedex.go: the regional and national *)
(* Pokedexes, the candidates of a team builder and one candidate's details. *)
(***************************************************************************)
EXTENDS Requests

Group(list, rows) == [list |-> list, pokemon |-> rows]

-----------------------------------------------------------------------------
(* /pokedex/{name}                                                          *)

\* Official national dex numbers where each generation begins.
separatorNums == <<1, 152, 252, 387, 494, 650, 722, 810, 906>>

\* Mutant of SeparatorIndices: the scan goes on to the last form of a number.
SeparatorIndicesLast(rows, num) ==
    {i \in DOMAIN rows : /\ rows[i].num = num
                         /\ \A j \in i + 1 .. Len(rows) : rows[j].num # num}

SeparatorIndices(rows, num) ==
    {i \in DOMAIN rows : /\ rows[i].num = num
                         /\ \A j \in 1 .. i - 1 : rows[j].num # num}

\* The national rows cut where each generation begins; {} if one is missing.
GenGroups(rows) ==
    LET start(i) == One(SeparatorIndices(rows, separatorNums[i]))
        end(i) == IF i < Len(separatorNums) THEN start(i + 1) - 1 ELSE Len(rows)
    IN IF \E i \in DOMAIN separatorNums : SeparatorIndices(rows, separatorNums[i]) = {}
       THEN {}
       ELSE {[i \in DOMAIN separatorNums |-> Group(
               "Gen " \o ToString(i), SubSeq(rows, start(i), end(i)))]}

RegionsOf(name) ==
    IF name \in DOMAIN pokedexVersions THEN pokedexVersions[name] ELSE <<>>
RegionGroups(regions, got) ==
    [i \in DOMAIN regions |-> Group(regions[i], got[i])]

DexUnknown ==
    /\ Serving("dex", 0)
    /\ req.name \notin DOMAIN pokedexVersions
    /\ Reply(400, Null)

DexRegion(k) ==
    /\ Serving("dex", k - 1)
    /\ req.name # "national" /\ k \in DOMAIN RegionsOf(req.name)
    /\ LET region == RegionsOf(req.name)[k]
       IN Query(GetDexByRegion(db, RegionGen[region], region), 400)

DexReply ==
    /\ Serving("dex", Len(RegionsOf(req.name)))
    /\ req.name \in DOMAIN pokedexVersions \ {"national"}
    /\ Reply(200, RegionGroups(RegionsOf(req.name), req.got))

DexNational ==
    /\ Serving("dex", 0)
    /\ req.name = "national"
    /\ Query(NationalRows(db), 400)

\* "could not find National Dex #%d" is a 400 too.
DexNationalReply ==
    /\ Serving("dex", 1)
    /\ req.name = "national"
    /\ LET groups == GenGroups(Got(1))
       IN IF groups = {} THEN Reply(400, Null) ELSE Reply(200, One(groups))

-----------------------------------------------------------------------------
(* /team-building/{version}                                                 *)

TeamRegions(version) ==
    IF version \in DOMAIN versionGroups \ {"national"}
    THEN versionGroups[version].regions ELSE <<>>

\* Mutant of Unseen: only the last region's rows count as seen.
UnseenLast(groups, rows) ==
    SelectSeq(rows, LAMBDA r : \A i \in DOMAIN groups[Len(groups)].pokemon :
        groups[Len(groups)].pokemon[i].id # r.id)

\* The rows of Pokemon that no regional list has shown.
Unseen(groups, rows) ==
    LET new(r) == \A g \in DOMAIN groups :
            \A i \in DOMAIN groups[g].pokemon : groups[g].pokemon[i].id # r.id
        upTo[i \in 0 .. Len(rows)] ==
            IF i = 0 THEN <<>>
            ELSE IF new(rows[i]) THEN Append(upTo[i - 1], rows[i])
            ELSE upTo[i - 1]
    IN upTo[Len(rows)]

TeamUnknown ==
    /\ Serving("team", 0)
    /\ req.name \notin DOMAIN versionGroups
    /\ Reply(400, Null)

TeamNational ==
    /\ Serving("team", 0)
    /\ req.name = "national"
    /\ Query(NationalRows(db), 400)

TeamNationalReply ==
    /\ Serving("team", 1)
    /\ req.name = "national"
    /\ Reply(200, <<Group("National", Got(1))>>)

TeamRegion(k) ==
    /\ Serving("team", k - 1)
    /\ k \in DOMAIN TeamRegions(req.name)
    /\ LET region == TeamRegions(req.name)[k]
       IN Query(GetTeamCandidatesByRegion(db, RegionGen[region], region), 400)

TeamByVersion ==
    /\ req # Idle /\ req.name \in DOMAIN versionGroups \ {"national"}
    /\ Serving("team", Len(TeamRegions(req.name)))
    /\ Query(GetTeamCandidatesNationalByVersionGroup(
           db, versionGroups[req.name].gen, req.name), 400)

TeamReply ==
    /\ req # Idle /\ TeamRegions(req.name) # <<>>
    /\ Serving("team", Len(TeamRegions(req.name)) + 1)
    /\ LET groups == RegionGroups(TeamRegions(req.name), req.got)
           national == Unseen(groups, Got(Len(req.got)))
       IN Reply(200, IF national = <<>> THEN groups
                     ELSE Append(groups, Group("National", national)))

-----------------------------------------------------------------------------
(* /team-building/{version}/{id}                                            *)

\* Mutant of StillThere: the generation that removed it is too late.
StillThereStrict(ability, gen) == gen < ability.removed

StillThere(ability, gen) == gen <= ability.removed

\* The abilities a game of a generation has. If one that was removed since is
\* still there: all but its replacement, without asking when they were new.
AbilitiesIn(id, rows, gen) ==
    LET removed == {i \in DOMAIN rows : rows[i].removed # Null}
        first == CHOOSE i \in removed : \A j \in removed : i <= j
        keep(K(_)) == {r.id : r \in {s \in {rows[i] : i \in DOMAIN rows} : K(s)}}
    IN IF removed = {} \/ ~StillThere(rows[first], gen)
       THEN keep(LAMBDA a : a.gen <= gen /\ a.removed = Null)
       ELSE IF \E i \in removed : rows[i].hidden
       THEN keep(LAMBDA a : ~(a.removed = Null /\ a.hidden))
       ELSE CASE id = 94 -> {26}                       \* Gengar: Levitate
              [] id = 275 -> keep(LAMBDA a : a.id # 274)
              [] OTHER -> {}

\* seenMoves: one row of each move, and the query leaves open which.
OneOfEachMove(rows) ==
    {some \in SUBSET rows : \A r \in rows :
        Cardinality({s \in some : s.move = r.move}) = 1}

DescriptionOf(move, rows) ==
    One(OrElse({d.text : d \in {e \in rows : e.of = move}}, ""))

buildCandidateDetail(row, abilities, moves, descriptions, gen) ==
    [id |-> row.id, types |-> row.types,
     abilities |-> AbilitiesIn(row.id, abilities, gen),
     moves |-> {[move |-> m.move, power |-> m.power, pp |-> m.pp,
                 cooldown |-> m.cooldown,
                 text |-> DescriptionOf(m.move, descriptions)] : m \in moves}]

CandidateUnknown ==
    /\ Serving("candidate", 0)
    /\ req.name \notin DOMAIN versionGroups
    /\ Reply(400, Null)

CandidateRow ==
    /\ Serving("candidate", 0)
    /\ req.name \in DOMAIN versionGroups
    /\ LET vg == versionGroups[req.name]
           member == GetTeamCandidateByID(
               db, vg.gen, req.id, {vg.regions[i] : i \in DOMAIN vg.regions}, req.name)
       IN QueryOne(IF req.name = "national"
                   THEN GetTeamCandidateNationalByID(db, req.id) ELSE member)

CandidateAbilities ==
    /\ Serving("candidate", 1)
    /\ Query(GetCandidateAbilitiesByIDs(db, {req.id}), 500)

CandidateMoves ==
    /\ Serving("candidate", 2)
    /\ Query(IF req.name = "national"
             THEN GetCandidateMovesByIDs(db, {req.id})
             ELSE GetCandidateMovesByIDsAndVersion(db, {req.id}, req.name), 500)

CandidateDescriptions ==
    /\ Serving("candidate", 3)
    /\ Query(GetCandidateMoveDescriptions(db, {m.move : m \in Got(3)},
                                          versionGroups[req.name].games), 500)

CandidateReply ==
    /\ Serving("candidate", 4)
    /\ \E moves \in OneOfEachMove(Got(3)) :
        Reply(200, buildCandidateDetail(One(Got(1)), Got(2), moves, Got(4),
                                        versionGroups[req.name].gen))

-----------------------------------------------------------------------------
PokedexNext ==
    \/ Ask("dex") \/ DexUnknown \/ DexReply \/ DexNational \/ DexNationalReply
    \/ \E k \in 1 .. 5 : DexRegion(k) \/ TeamRegion(k)
    \/ Ask("team") \/ TeamUnknown \/ TeamNational \/ TeamNationalReply
    \/ TeamByVersion \/ TeamReply
    \/ Ask("candidate") \/ CandidateUnknown \/ CandidateRow
    \/ CandidateAbilities \/ CandidateMoves \/ CandidateDescriptions
    \/ CandidateReply
=============================================================================
