----------------------------- MODULE SpeciesPage -----------------------------
(***************************************************************************)
(* The walks of cmd/scrape over the sections of one species' page: the      *)
(* Legends learnsets (LegendsWalk), the Pokedex entries and the egg moves,  *)
(* each with the labels resolveFormMarker (FormMarker) reads. A section is  *)
(* walked by itself. The three keep whom an entry belongs to in currentIDs, *)
(* but only the first forgets a heading, and only the third keeps a game.   *)
(***************************************************************************)
EXTENDS LegendsWalk, FormMarker, TLC

CONSTANTS Pages   \* [species, pass, groups, sections]: each section is a page's

VARIABLES
    page,   \* [species, pass, groups, items]: the section being walked
    walk    \* the state of a walk over Pokedex entries or egg moves

pageVars == <<page, walk>>

\* Species whose untagged entries are not, or not only, the base form's.
legendsSpeciesDefaults ==
    487 :> {10007} @@ 641 :> {641} @@ 642 :> {642} @@ 645 :> {645} @@ 902 :> {902}
    @@ 905 :> {905} @@ 681 :> {681, 10026} @@ 648 :> {648, 10018}
    @@ 877 :> {877, 10187} @@ 718 :> {718, 10120, 10181}
    @@ 479 :> {479, 10008, 10009, 10010, 10011, 10012} @@ 849 :> {849, 10184}

defaultIDs(species) ==
    IF species.id \in DOMAIN legendsSpeciesDefaults
    THEN legendsSpeciesDefaults[species.id] ELSE species.literalBase

\* The section as the Legends walk sees it: labels read, anything else as it is.
Read(p, Resolve(_, _)) ==
    [i \in DOMAIN p.items |->
        LET o == p.items[i]
        IN CASE o.kind = "form" -> [kind |-> "form", ids |-> Resolve(p.species, o.label)]
             [] o.kind = "marker" -> [kind |-> "marker"]
             [] o.kind = "entry" ->
                  [kind |-> "entry", tag |-> IF o.tag \in {Untagged, Malformed} THEN o.tag
                                             ELSE Resolve(p.species, o.tag)]]

\* A section is a sequence of headings, markers and entries. The Pokemon of a
\* species have distinct ids, the table's key. Whom a label of a learnset page
\* or its default names is among the Pokemon of the model.
ASSUME PagesAssumption ==
    \A p \in Pages :
        /\ p.species.forms \in Seq([id : Nat, name : Seq(STRING)])
        /\ \A i, j \in DOMAIN p.species.forms :
               p.species.forms[i].id = p.species.forms[j].id => i = j
        /\ \A items \in p.sections :
               /\ Len(items) \in Nat /\ DOMAIN items = 1 .. Len(items)
               /\ \A o \in Words(items) : o.kind \in {"form", "marker", "entry"}
        /\ p.pass = "legends" =>
             /\ defaultIDs(p.species) \in SUBSET Mons
             /\ \A items \in p.sections : \A o \in Words(items) :
                  /\ o.kind = "form" => resolveFormMarker(p.species, o.label) \in Labels
                  /\ o.kind = "entry" /\ o.tag \notin {Untagged, Malformed} =>
                         resolveFormMarker(p.species, o.tag) \in Labels

Legends == page.pass = "legends"

PageInit ==
    /\ \E p \in Pages : \E items \in p.sections :
        page = [species |-> p.species, pass |-> p.pass, groups |-> p.groups,
                items |-> items]
    /\ section = IF Legends THEN Read(page, resolveFormMarker) ELSE <<>>
    /\ default = IF Legends THEN defaultIDs(page.species) ELSE {}
    /\ AtStart
    /\ walk = [at |-> 0, ids |-> page.species.literalBase, groups |-> page.groups,
               rows |-> {}, reported |-> {}]

-----------------------------------------------------------------------------
(* parsePokemonDexEntries and parseBreedingSection                           *)

Meets(kind) ==
    /\ ~Legends
    /\ walk.at < Len(page.items)
    /\ page.items[walk.at + 1].kind = kind
    /\ UNCHANGED <<page, vars>>

Here == page.items[walk.at + 1]
Reporting(cond) == IF cond THEN walk.reported \cup {walk.at + 1} ELSE walk.reported

\* {{Dex/Form|...}}, or a heading below "By breeding"
MeetForm ==
    /\ Meets("form")
    /\ LET ids == resolveFormMarker(page.species, Here.label)
       IN walk' = [walk EXCEPT !.at = @ + 1, !.ids = ids,
                               !.reported = Reporting(ids = {})]

\* {{gameabbrevN|...}}: an unknown game stops the rows until the next marker.
MeetMarker ==
    /\ Meets("marker")
    /\ walk' = [walk EXCEPT !.at = @ + 1, !.groups = Here.groups,
                            !.reported = Reporting(Here.groups = {})]

\* No form resolved: the entry is not even looked at.
PassOver ==
    /\ Meets("entry") /\ walk.ids = {}
    /\ walk' = [walk EXCEPT !.at = @ + 1]

\* Too few fields, which is not reported, or a move nobody knows.
MeetMalformed ==
    /\ Meets("entry") /\ walk.ids # {} /\ Here.tag = Malformed
    /\ \E unknownMove \in BOOLEAN :
        /\ unknownMove => page.pass = "breeding"
        /\ walk' = [walk EXCEPT !.at = @ + 1, !.reported = Reporting(unknownMove)]

MeetEntry ==
    /\ Meets("entry") /\ walk.ids # {} /\ Here.tag # Malformed
    /\ LET groups == IF page.pass = "dex" \/ Here.groups # {} THEN Here.groups
                     ELSE walk.groups
       IN walk' = [walk EXCEPT !.at = @ + 1,
                               !.rows = @ \cup (walk.ids \X groups \X {walk.at + 1})]

PageNext ==
    \/ Legends /\ Next /\ UNCHANGED pageVars
    \/ MeetForm \/ MeetMarker \/ PassOver \/ MeetMalformed \/ MeetEntry

PageSpec == PageInit /\ [][PageNext]_<<vars, pageVars>>

-----------------------------------------------------------------------------
LastBefore(i, kind) ==
    {f \in 1 .. i - 1 : /\ page.items[f].kind = kind
                        /\ \A g \in f + 1 .. i - 1 : page.items[g].kind # kind}

NamedIds(i) ==
    LET last == LastBefore(i, "form")
    IN IF last = {} THEN page.species.literalBase
       ELSE UNION {Meant(page.species, page.items[f].label) : f \in last}
NamedGroups(i) ==
    LET last == LastBefore(i, "marker")
    IN IF page.pass = "dex" \/ page.items[i].groups # {} THEN page.items[i].groups
       ELSE IF last = {} THEN page.groups
       ELSE UNION {page.items[m].groups : m \in last}

\* Every entry of every section belongs to the Pokemon and the games the page
\* names: the scan of resolveFormMarker finds what a label means in whatever
\* order the forms come, names nobody where it could mean one or another, and
\* no walk lets a heading or a game reach further than the page means it to.
ReadAsNamed ==
    /\ LET named == Read(page, Meant)
       IN \A i \in 1 .. pos :
            named[i].kind = "entry" /\ named[i].tag # Malformed =>
                Learners(i) = WithMegas(IF named[i].tag = Untagged
                                        THEN Owner(named, default, i) ELSE named[i].tag)
    /\ \A i \in 1 .. walk.at :
        page.items[i].kind = "entry" /\ page.items[i].tag # Malformed =>
            {r \in walk.rows : r[3] = i} = NamedIds(i) \X NamedGroups(i) \X {i}
=============================================================================
