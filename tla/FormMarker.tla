----------------------------- MODULE FormMarker -----------------------------
(***************************************************************************)
(* cmd/scrape/resolve.go: which of a species' Pokemon a label on its page   *)
(* names. Labels and names are sequences of lower-case words; a species is  *)
(* its number and its Pokemon in the order of their ids.                    *)
(***************************************************************************)
EXTENDS Naturals, FiniteSets, SequencesExt

Words(s) == {s[i] : i \in DOMAIN s}

\* The root is the longest common beginning of the slugs; a literal base is a
\* form of that very name, and not every species has one.
speciesRootSlug(forms) == LongestCommonPrefix({f.name : f \in Words(forms)})
buildSpeciesIndex(id, forms) ==
    LET root == speciesRootSlug(forms)
    IN [id |-> id, forms |-> forms, root |-> Words(root),
        literalBase |-> {f.id : f \in {g \in Words(forms) : g.name = root}}]

\* The words a label and a slug say the same thing with; filler is dropped.
formSynonyms ==
    [alolan |-> "alola", galarian |-> "galar", hisuian |-> "hisui",
     paldean |-> "paldea", gigantamax |-> "gmax", form |-> "", forme |-> ""]

tokenize(label) ==
    {IF w \in DOMAIN formSynonyms THEN formSynonyms[w] ELSE w : w \in Words(label)} \ {""}

\* Labels that name a base form without a word of its slug.
knownBaseLabels == {
    <<"hero", "of", "many", "battles">>, <<"zero", "form">>, <<"teal", "mask">>,
    <<"hoopa", "confined">>, <<"chest", "form">>, <<"normal", "form">>,
    <<"normal">>, <<"male">>, <<"male", "oinkologne">>}

\* [species, label, slugs]
breedingFormOverrides == {
    <<555, <<"darmanitan">>, {<<"darmanitan", "standard">>}>>,
    <<555, <<"galarian", "darmanitan">>, {<<"darmanitan", "galar", "standard">>}>>,
    <<658, <<"battle", "bond", "greninja">>, {<<"greninja">>}>>,
    <<386, <<"all", "forms">>, {<<"deoxys", f>> : f \in {"normal", "attack", "defense", "speed"}}>>,
    <<670, <<"all", "regular", "forms">>, {<<"floette">>}>>,
    <<208, <<"pokemon", "legends", "arceus">>, {<<"steelix">>}>>,
    <<208, <<"pokemon", "sword", "shield", "brilliant", "diamond", "and",
             "shining", "pearl">>, {<<"steelix">>}>>}

Overridden(species, label) ==
    {f.id : f \in {g \in Words(species.forms) : \E o \in breedingFormOverrides :
                       o[1] = species.id /\ o[2] = label /\ g.name \in o[3]}}

-----------------------------------------------------------------------------
(* The scan for the best two                                                *)

Nobody == [id |-> 0, matched |-> 0, extra |-> 0]

Scored(form, root, says) ==
    LET suffix == Words(form.name) \ root
    IN [id |-> form.id, matched |-> Cardinality(says \cap suffix),
        extra |-> Cardinality(suffix \ says)]

Better(a, b) == \/ a.matched > b.matched
                \/ a.matched = b.matched /\ a.extra < b.extra

\* Mutant of Placed: a candidate as good as the best is not remembered.
PlacedUntied(top, c) ==
    IF Better(c, top.best) THEN [best |-> c, second |-> top.best] ELSE top

Placed(top, c) ==
    IF Better(c, top.best) THEN [best |-> c, second |-> top.best]
    ELSE IF Better(c, top.second) THEN [top EXCEPT !.second = c]
    ELSE top

\* The loop over the forms; one that shares no word with the label is passed.
BestTwo(species, says) ==
    LET cand(i) == Scored(species.forms[i], species.root, says)
        top[i \in 0 .. Len(species.forms)] ==
            IF i = 0 THEN [best |-> Nobody, second |-> Nobody]
            ELSE IF cand(i).matched = 0 THEN top[i - 1]
            ELSE Placed(top[i - 1], cand(i))
    IN top[Len(species.forms)]

BestOf(species, says) ==
    LET scored == {Scored(f, species.root, says) : f \in Words(species.forms)}
        top == BestTwo(species, says)
        tied == {c \in scored : c.matched = top.best.matched /\ c.extra = 0}
    IN IF top.best.matched > 0 /\ Better(top.best, top.second) THEN {top.best.id}
       ELSE IF top.best.matched > 0 /\ top.best.extra = 0 /\ Cardinality(tied) >= 2
       THEN {c.id : c \in tied}
       ELSE IF Len(species.forms) = 1 THEN {species.forms[1].id} ELSE {}

\* {} when the label is not resolved
resolveFormMarker(species, label) ==
    LET base == species.literalBase
        says == tokenize(label) \ species.root
    IN IF label \in knownBaseLabels /\ base # {} THEN base
       ELSE IF Overridden(species, label) # {} THEN Overridden(species, label)
       ELSE IF says = {} THEN base
       ELSE BestOf(species, says)

-----------------------------------------------------------------------------
(* What a label means, without a scan                                        *)

\* How a form's own words and the words said overlap, and what each leaves out.
Own(species, form) == Words(form.name) \ species.root
Fits(species, says, a, b) ==
    LET common(f) == Cardinality(Own(species, f) \cap says)
        unsaid(f) == Cardinality(Own(species, f) \ says)
    IN common(a) > common(b) \/ (common(a) = common(b) /\ unsaid(a) < unsaid(b))

\* A label means the base if it says nothing beyond the species' name, else the
\* form it fits better than any other; several forms only if it says all the
\* words of each, and nobody when it could mean one or another.
Meant(species, label) ==
    LET base == species.literalBase
        says == tokenize(label) \ species.root
        near == {f \in Words(species.forms) : Own(species, f) \cap says # {}}
        nearest == {f \in near : \A g \in near : ~Fits(species, says, g, f)}
    IN IF label \in knownBaseLabels /\ base # {} THEN base
       ELSE IF Overridden(species, label) # {} THEN Overridden(species, label)
       ELSE IF says = {} THEN base
       ELSE IF Len(species.forms) = 1 THEN {species.forms[1].id}
       ELSE IF \/ Cardinality(nearest) = 1
               \/ \A f \in nearest : Own(species, f) \subseteq says
       THEN {f.id : f \in nearest}
       ELSE {}
=============================================================================
