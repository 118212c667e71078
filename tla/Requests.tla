------------------------------ MODULE Requests ------------------------------
(***************************************************************************)
(* One HTTP request at a time against the database, as the handlers and the *)
(* services of the API serve it: a request runs its queries one by one, no  *)
(* transaction around them, and answers once. Meanwhile a migration or a    *)
(* scrape may add rows. Requests share nothing but the tables, so one is    *)
(* enough.                                                                  *)
(***************************************************************************)
EXTENDS Store

CONSTANTS
    Scenarios,   \* [before, after, asks]: the tables, and what clients send
    IdSpan,      \* number of values of an int32, scaled down
    Idle,        \* no request is being served
    NoAnswer

Enumerates(enum, x) == \E i \in DOMAIN enum : enum[i] = x

\* The primary and foreign keys of the tables that the pages join, and the
\* columns that are enumerations.
Linked(d) ==
    /\ \A m, n \in d.move : m.id = n.id => m = n
    /\ \A r \in d.movedetails :
        /\ r.level \in Nat /\ r.move \in Nat
        /\ Enumerates(VersionGroupOrder, r.version)
        /\ Enumerates(MethodColumnOrder, r.method)
        /\ \E m \in d.move : m.id = r.move
        /\ \E p \in d.pokemon : p.id = r.pokemon
    /\ \A u, v \in d.legendsmovevalues :
        u.pokemon = v.pokemon /\ u.move = v.move /\ u.version = v.version => u = v
    /\ \A w \in d.movedescriptions : Enumerates(GameOrder, w.version)
    /\ \A v, w \in d.movedescriptions : v.of = w.of /\ v.version = w.version => v = w
    /\ \A a, b \in d.ability : a.id = b.id => a = b
    /\ \A a \in d.abilitydetails :
        /\ a.pokemon \in Nat /\ a.ability \in Nat /\ a.hidden \in BOOLEAN
        /\ \E b \in d.ability : b.id = a.ability
    /\ \A a, b \in d.abilitydetails :
        a.pokemon = b.pokemon /\ a.ability = b.ability /\ a.hidden = b.hidden => a = b

\* What no constraint says of those tables, but the shipped data do: a move has
\* one past value a game, and of a Pokemon at most one ability was removed, a
\* hidden one or one of the two buildCandidateDetail names, from a Pokemon that
\* lists no ability twice.
Shipped(d) ==
    /\ \A u, v \in d.pastmovevalues :
        u.move = v.move /\ u.versions \cap v.versions # {} => u = v
    /\ \A a \in {r \in d.abilitydetails : r.gen # Null} :
        /\ \/ a.hidden /\ a.ability # 48
           \/ ~a.hidden /\ <<a.pokemon, a.ability>> \in {<<94, 26>>, <<275, 48>>}
        /\ \A b \in d.abilitydetails : b.pokemon = a.pokemon /\ b # a =>
            /\ b.gen = Null
            /\ \A c \in d.abilitydetails :
                c.pokemon = a.pokemon /\ c.ability = b.ability => c = b

\* Rows are only added. Ids are primary keys (000020_keys_and_constraints); no
\* constraint says the rest, but the shipped data do: species are numbered from
\* 1, a Pokemon has one past typing, a number of a Pokedex is given once, and no
\* wording is empty.
ASSUME ScenariosAssumption == \A s \in Scenarios :
    /\ \A t \in DOMAIN Tables : /\ s.before[t] \subseteq s.after[t]
                               /\ IsFiniteSet(s.after[t])
    /\ \A p \in s.after.pokemon : p.id \in Nat /\ p.species \in Nat \ {0}
    /\ \A p, q \in s.after.pokemon : p.id = q.id => p = q
    /\ \A t \in s.after.pasttypes : t.gen \in Nat
    /\ \A t, u \in s.after.pasttypes : t.pokemon = u.pokemon => t = u
    /\ \A d \in s.after.dexnumber : d.num \in Nat
    /\ \A d, e \in s.after.dexnumber : d.dex = e.dex /\ d.num = e.num => d = e
    /\ \A w \in s.after.movedescriptions : w.text # ""
    /\ \A d \in {s.before, s.after} : Linked(d) /\ Shipped(d)

VARIABLES
    scenario,    \* the member of Scenarios this database is
    stage,       \* "before" or "after" the rows were added
    req,         \* the request being served: its queries' results are `got`
    answer,      \* the last answer
    earlier      \* an answer of which the client follows up an entry

vars == <<scenario, stage, req, answer, earlier>>

db == scenario[stage]

Init ==
    /\ scenario \in Scenarios
    /\ stage = "before"
    /\ req = Idle
    /\ answer = NoAnswer
    /\ earlier = NoAnswer

\* golang-migrate or a scraper pass: its rows become visible at once.
Migrate ==
    /\ stage = "before"
    /\ stage' = "after"
    /\ UNCHANGED <<scenario, req, answer, earlier>>

\* int32(id), id being the number in the path
Int32(id) ==
    LET low == id % IdSpan IN IF low < IdSpan \div 2 THEN low ELSE low - IdSpan

\* A client looks an entry of a list up, and a candidate's page.
FollowsUp(a, q) ==
    /\ a # NoAnswer
    /\ a.status = 200
    /\ \/ a.ep = "team" /\ q.ep = "candidate" /\ q.name = a.name
       \/ /\ a.ep = "candidate" /\ q.ep = "pokemon"
          /\ q.name = "" /\ Int32(q.id) = a.id

Ask(ep) ==
    /\ req = Idle
    /\ \E q \in scenario.asks :
        /\ q.ep = ep
        /\ req' = [ep |-> ep, name |-> q.name, id |-> Int32(q.id),
                   began |-> stage, got |-> <<>>]
        /\ earlier' = IF FollowsUp(answer, q) THEN answer ELSE NoAnswer
    /\ answer' = NoAnswer
    /\ UNCHANGED <<scenario, stage>>

\* Request ep is being served and k of its queries are done.
Serving(ep, k) == req # Idle /\ req.ep = ep /\ Len(req.got) = k

Read(rows) ==
    /\ req' = [req EXCEPT !.got = Append(@, rows)]
    /\ UNCHANGED <<scenario, stage, answer, earlier>>

Reply(status, body) ==
    /\ answer' = [status |-> status, body |-> body, ep |-> req.ep,
                  name |-> req.name, id |-> req.id,
                  began |-> req.began, ended |-> stage]
    /\ req' = Idle
    /\ UNCHANGED <<scenario, stage, earlier>>

\* A query of a request that answers `failed` when the database does not.
Query(rows, failed) ==
    \/ Read(rows)
    \/ Reply(failed, Null)

\* A :one query: no row is pgx.ErrNoRows, which the handlers answer with 404.
QueryOne(rows) ==
    \/ rows # {} /\ Read(rows)
    \/ rows = {} /\ Reply(404, Null)
    \/ Reply(500, Null)

Got(k) == req.got[k]
=============================================================================
