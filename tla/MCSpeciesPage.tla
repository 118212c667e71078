--------------------------- MODULE MCSpeciesPage ---------------------------
(* Long sections of one shipped species, and one heading and one entry for  *)
(* every label of many others, shipped and made up.                         *)
EXTENDS SpeciesPage

Species(id, forms) == buildSpeciesIndex(id, forms)
Is(id, name) == [id |-> id, name |-> name]

FormItem(label) == [kind |-> "form", label |-> label]
MarkerItem(groups) == [kind |-> "marker", groups |-> groups]
EntryItem(tag, groups) == [kind |-> "entry", tag |-> tag, groups |-> groups]
Page(species, pass, groups, sections) ==
    [species |-> species, pass |-> pass, groups |-> groups, sections |-> sections]
Long(kinds, n) == {[1 .. k -> kinds] : k \in 0 .. n}

-----------------------------------------------------------------------------
\* One form, a Mega that Legends gives the moves of the base, and a label of
\* each sort: an override, a form's own words, and words of no form.
Floette == Species(670, <<Is(670, <<"floette">>), Is(10061, <<"floette", "eternal">>),
                          Is(10296, <<"floette", "mega">>)>>)
FloetteLabels == {<<"all", "regular", "forms">>, <<"eternal", "flower">>, <<"red", "flower">>}
LegendsItems ==
    {FormItem(l) : l \in FloetteLabels} \cup {MarkerItem({})}
    \cup {EntryItem(t, {}) : t \in {Untagged, Malformed, <<"eternal", "floette">>}}
EggItems ==
    {FormItem(l) : l \in FloetteLabels}
    \cup {MarkerItem({"sword-shield"}), MarkerItem({})}
    \cup {EntryItem(Untagged, {}), EntryItem(Untagged, {"bdsp"}), EntryItem(Malformed, {})}
LongPages ==
    {Page(Floette, "legends", {}, s) : s \in Long(LegendsItems, MaxLen)}
    \cup {Page(Floette, "breeding", g, s) :
            g \in {{}, {"x-y", "oras"}}, s \in Long(EggItems, 4)}

-----------------------------------------------------------------------------
Shipped == {
    <<Species(6, <<Is(6, <<"charizard">>), Is(10034, <<"charizard", "mega", "x">>),
                   Is(10035, <<"charizard", "mega", "y">>)>>),
      {<<"mega", "charizard", "y">>, <<"mega", "charizard">>, <<"charizard">>}>>,
    <<Species(445, <<Is(445, <<"garchomp">>), Is(10058, <<"garchomp", "mega">>),
                     Is(10309, <<"garchomp", "mega", "z">>)>>),
      {<<"mega", "garchomp">>, <<"mega", "garchomp", "z">>}>>,
    <<Species(550, <<Is(550, <<"basculin", "red", "striped">>),
                     Is(10016, <<"basculin", "blue", "striped">>),
                     Is(10247, <<"basculin", "white", "striped">>)>>),
      {<<"red", "striped", "blue", "striped", "basculin">>, <<"white", "striped", "form">>,
       <<"basculin">>, <<"striped">>}>>,
    <<Species(555, <<Is(555, <<"darmanitan", "standard">>), Is(10017, <<"darmanitan", "zen">>),
                     Is(10177, <<"darmanitan", "galar", "standard">>),
                     Is(10178, <<"darmanitan", "galar", "zen">>)>>),
      {<<"darmanitan">>, <<"galarian", "darmanitan">>, <<"galarian", "form">>,
       <<"galarian", "form", "zen", "mode">>, <<"zen", "mode">>}>>,
    <<Species(902, <<Is(902, <<"basculegion", "male">>), Is(10248, <<"basculegion", "female">>)>>),
      {<<"male">>, <<"female">>}>>,
    <<Species(888, <<Is(888, <<"zacian">>), Is(10188, <<"zacian", "crowned">>)>>),
      {<<"hero", "of", "many", "battles">>, <<"crowned", "sword">>}>>,
    <<Species(1017, <<Is(1017, <<"ogerpon">>), Is(10273, <<"ogerpon", "wellspring", "mask">>),
                      Is(10274, <<"ogerpon", "hearthflame", "mask">>)>>),
      {<<"teal", "mask">>, <<"mask">>, <<"wellspring", "mask">>}>>,
    <<Species(773, <<Is(773, <<"silvally">>)>>), {<<"type", "fire">>, <<"silvally">>}>>,
    <<Species(52, <<Is(52, <<"meowth">>), Is(10107, <<"meowth", "alola">>),
                    Is(10161, <<"meowth", "galar">>)>>),
      {<<"alolan", "form">>, <<"alolan", "meowth">>, <<"form">>}>>}

\* Made up: one to three forms in every order, under labels of two words.
Slugs == {<<"x">>, <<"x", "mega">>, <<"x", "mega", "z">>, <<"x", "alola">>,
          <<"x", "alola", "zen">>, <<"x", "zen">>}
Invented ==
    {Species(1, [i \in DOMAIN s |-> Is(i, s[i])]) :
        s \in {t \in UNION {[1 .. n -> Slugs] : n \in 1 .. 3} :
               \A i, j \in DOMAIN t : i # j => t[i] # t[j]}}
InventedLabels == {<<a, b>> : a \in {"x", "mega", "z"}, b \in {"zen", "alolan", "wings", "mega"}}

ShortPages ==
    {Page(s, "dex", {}, {<<EntryItem(Untagged, {"red"}), FormItem(l),
                           EntryItem(Untagged, {"x", "y"}), EntryItem(Malformed, {})>> :
                          l \in InventedLabels}) : s \in Invented}
    \cup UNION {{
        Page(c[1], "dex", {}, {<<FormItem(l), EntryItem(Untagged, {"za"})>> : l \in c[2]}),
        Page(c[1], "legends", {}, {<<FormItem(l), EntryItem(Untagged, {})>> : l \in c[2]}),
        Page(c[1], "legends", {}, {<<EntryItem(l, {}), EntryItem(Untagged, {})>> : l \in c[2]})} :
        c \in Shipped}

MCPages == LongPages \cup ShortPages

-----------------------------------------------------------------------------
MCMons == UNION {{f.id : f \in Words(p[1].forms)} : p \in Shipped \cup {<<Floette, {}>>}}
MCMegas == [m \in MCMons |-> CASE m = 670 -> {10296} [] m = 445 -> {10309} [] OTHER -> {}]
MCLabels ==
    {resolveFormMarker(Floette, l) : l \in FloetteLabels}
    \cup UNION {{resolveFormMarker(c[1], l) : l \in c[2]} : c \in Shipped}
=============================================================================
