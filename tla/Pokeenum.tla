------------------------------ MODULE Pokeenum ------------------------------
(***************************************************************************)
(* The tables of internal/pokeenum that the services look names up in, row  *)
(* by row, and the orders of the PostgreSQL enumerations they go with.      *)
(***************************************************************************)
EXTENDS Naturals, Sequences, FiniteSets, TLC

CONSTANT Null    \* SQL NULL and Go's nil

Position(x, list) ==
    LET at == {i \in DOMAIN list : list[i] = x}
    IN IF at = {} THEN Len(list) + 1 ELSE CHOOSE i \in at : \A j \in at : i <= j

\* The generation whose rules each regional Pokedex follows.
RegionGen ==
    [region \in {"national"} |-> Null] @@
    [region \in {"kanto"} |-> 1] @@
    [region \in {"original-johto"} |-> 2] @@
    [region \in {"hoenn"} |-> 3] @@
    [region \in {
        "original-sinnoh", "extended-sinnoh", "updated-johto"} |-> 4] @@
    [region \in {"original-unova", "updated-unova"} |-> 5] @@
    [region \in {
        "kalos-central", "kalos-coastal", "kalos-mountain",
        "updated-hoenn"} |-> 6] @@
    [region \in {
        "original-alola", "original-melemele", "original-akala",
        "original-ulaula", "original-poni", "updated-alola",
        "updated-melemele", "updated-akala", "updated-ulaula",
        "updated-poni", "letsgo-kanto"} |-> 7] @@
    [region \in {"galar", "isle-of-armor", "crown-tundra", "hisui"} |-> 8] @@
    [region \in {
        "paldea", "kitakami", "blueberry", "lumiose", "hyperspace"} |-> 9]

\* The Pokedexes of /pokedex/{name}: its regions, in the order of the answer.
pokedexVersions == [name \in {"national"} |-> <<"national">>] @@
    "red-blue-yellow" :> <<"kanto">> @@
    "gold-silver-crystal" :> <<"original-johto">> @@
    "ruby-sapphire-emerald" :> <<"hoenn">> @@
    "firered-leafgreen" :> <<"kanto">> @@
    "diamond-pearl-platinum" :> <<"extended-sinnoh">> @@
    "heartgold-soulsilver" :> <<"updated-johto">> @@
    "black-white" :> <<"original-unova">> @@
    "black-2-white-2" :> <<"updated-unova">> @@
    "x-y" :> <<"kalos-central", "kalos-coastal", "kalos-mountain">> @@
    "omega-ruby-alpha-sapphire" :> <<"updated-hoenn">> @@
    "sun-moon" :> <<
        "original-alola", "original-melemele", "original-akala",
        "original-ulaula", "original-poni">> @@
    "ultra-sun-ultra-moon" :> <<
        "updated-alola", "updated-melemele", "updated-akala",
        "updated-ulaula", "updated-poni">> @@
    "lets-go-pikachu-eevee" :> <<"letsgo-kanto">> @@
    "sword-shield" :> <<"galar", "isle-of-armor", "crown-tundra">> @@
    "brilliant-diamond-shining-pearl" :> <<"original-sinnoh">> @@
    "legends-arceus" :> <<"hisui">> @@
    "scarlet-violet" :> <<"paldea", "kitakami", "blueberry">> @@
    "legends-za" :> <<"lumiose", "hyperspace">>

VersionGroup(name, gen, regions, games) ==
    [name |-> name, gen |-> gen, regions |-> regions, games |-> games]

versionGroupRows == {
    VersionGroup("national", 10, <<"national">>, {}),
    VersionGroup("red-blue", 1, <<"kanto">>, {"red", "blue"}),
    VersionGroup("yellow", 1, <<"kanto">>, {"yellow"}),
    VersionGroup("gold-silver", 2, <<"original-johto">>, {"gold", "silver"}),
    VersionGroup("crystal", 2, <<"original-johto">>, {"crystal"}),
    VersionGroup("ruby-sapphire", 3, <<"hoenn">>, {"ruby", "sapphire"}),
    VersionGroup("emerald", 3, <<"hoenn">>, {"emerald"}),
    VersionGroup("firered-leafgreen", 3, <<"kanto">>, {"firered", "leafgreen"}),
    VersionGroup("diamond-pearl", 4, <<"original-sinnoh">>, {"diamond", "pearl"}),
    VersionGroup("platinum", 4, <<"extended-sinnoh">>, {"platinum"}),
    VersionGroup("heartgold-soulsilver", 4, <<"updated-johto">>, {"heartgold", "soulsilver"}),
    VersionGroup("black-white", 5, <<"original-unova">>, {"black", "white"}),
    VersionGroup("black-2-white-2", 5, <<"updated-unova">>, {"black-2", "white-2"}),
    VersionGroup("x-y", 6, <<"kalos-central", "kalos-coastal", "kalos-mountain">>,
        {"x", "y"}),
    VersionGroup("omega-ruby-alpha-sapphire", 6, <<"updated-hoenn">>,
        {"omega-ruby", "alpha-sapphire"}),
    VersionGroup("sun-moon", 7, <<
        "original-alola", "original-melemele", "original-akala",
        "original-ulaula", "original-poni">>, {"sun", "moon"}),
    VersionGroup("ultra-sun-ultra-moon", 7, <<
        "updated-alola", "updated-melemele", "updated-akala",
        "updated-ulaula", "updated-poni">>, {"ultra-sun", "ultra-moon"}),
    VersionGroup("lets-go-pikachu-lets-go-eevee", 7, <<"letsgo-kanto">>,
        {"lets-go-pikachu", "lets-go-eevee"}),
    VersionGroup("sword-shield", 8, <<"galar", "isle-of-armor", "crown-tundra">>,
        {"sword", "shield"}),
    VersionGroup("brilliant-diamond-and-shining-pearl", 8, <<"original-sinnoh">>,
        {"brilliant-diamond", "shining-pearl"}),
    VersionGroup("legends-arceus", 8, <<"hisui">>, {"legends-arceus"}),
    VersionGroup("scarlet-violet", 9, <<"paldea", "kitakami", "blueberry">>,
        {"scarlet", "violet"}),
    VersionGroup("legends-za", 9, <<"lumiose", "hyperspace">>, {"legends-za"})}

versionGroups == [name \in {row.name : row \in versionGroupRows} |->
    CHOOSE row \in versionGroupRows : row.name = name]

VersionGroupOrder == <<
    "national", "red-blue", "yellow", "gold-silver", "crystal",
    "ruby-sapphire", "emerald", "firered-leafgreen", "diamond-pearl",
    "platinum", "heartgold-soulsilver", "black-white", "black-2-white-2",
    "x-y", "omega-ruby-alpha-sapphire", "sun-moon", "ultra-sun-ultra-moon",
    "lets-go-pikachu-lets-go-eevee", "sword-shield",
    "brilliant-diamond-and-shining-pearl", "legends-arceus",
    "scarlet-violet", "legends-za" >>

LearnMethodOrder == <<
    "level-up", "machine", "tutor", "egg", "light-ball-egg", "form-change",
    "zygarde-cube" >>

\* public.learnmethod: what ORDER BY method follows, which is another order.
MethodColumnOrder == <<
    "level-up", "egg", "tutor", "machine", "light-ball-egg", "form-change",
    "zygarde-cube" >>

\* public.game: declared in release order, which ORDER BY relies on.
GameOrder == <<
    "red", "blue", "yellow", "gold", "silver", "crystal", "ruby",
    "sapphire", "emerald", "firered", "leafgreen", "diamond", "pearl",
    "platinum", "heartgold", "soulsilver", "black", "white", "black-2",
    "white-2", "x", "y", "omega-ruby", "alpha-sapphire", "sun", "moon",
    "ultra-sun", "ultra-moon", "lets-go-pikachu", "lets-go-eevee", "sword",
    "shield", "brilliant-diamond", "shining-pearl", "legends-arceus",
    "scarlet", "violet", "legends-za" >>
=============================================================================
