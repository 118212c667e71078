-------------------------- MODULE SpeciesPageProofs --------------------------
(***************************************************************************)
(* Every entry of every page belongs to whom and to the games the page      *)
(* names. There are two parts to it. A label means what the scan over the   *)
(* forms of a species finds: after i forms best is one that none met is     *)
(* better than, second one that none but best is better than, so a tie for  *)
(* best shows in second. And a walk that only knows what it has passed      *)
(* reads the section as one that sees all of it does: currentIDs is the     *)
(* owner of the next position, headingsSinceMarker tells none, one and more *)
(* than one heading of the open block apart, and the other walks hold the   *)
(* last heading's Pokemon and the last marker's games.                      *)
(***************************************************************************)
EXTENDS SpeciesPage, FiniteSetTheorems, SequenceTheorems, FunctionTheorems,
        WellFoundedInduction, TLAPS

-----------------------------------------------------------------------------
(* What a label means: the scan over the forms finds it                      *)

\* The Pokemon of a species, told apart by their ids.
IsSpecies(species) ==
    /\ species.forms \in Seq([id : Nat, name : Seq(STRING)])
    /\ \A i, j \in DOMAIN species.forms :
           species.forms[i].id = species.forms[j].id => i = j

\* A set of naturals has a least element, which is all the induction needed.
LEMMA Smallest ==
    ASSUME NEW S \in SUBSET Nat, S # {}
    PROVE  \E m \in S : \A n \in S : m <= n
<1>1. PICK m \in S : \A n \in S : <<n, m>> \notin OpToRel(<, Nat)
  BY NatLessThanWellFounded, WFMin, Zenon
<1>2. \A n \in S : ~(n < m)
  BY <1>1 DEF OpToRel
<1>3. QED
  BY <1>2

\* A name, a section and the forms of a species hold finitely many words,
\* occurrences and Pokemon.
LEMMA WordsFinite ==
    ASSUME NEW T, NEW s \in Seq(T)
    PROVE  IsFiniteSet(Words(s)) /\ Words(s) = {s[i] : i \in 1 .. Len(s)}
<1>1. Len(s) \in Nat /\ DOMAIN s = 1 .. Len(s) /\ s \in [1 .. Len(s) -> T]
  BY LenProperties
<1>2. Words(s) = {s[i] : i \in 1 .. Len(s)}
  BY <1>1 DEF Words
<1>3. s \in Surjection(1 .. Len(s), Words(s))
  BY <1>1, <1>2 DEF Surjection
<1>4. IsFiniteSet(1 .. Len(s))
  BY <1>1, FS_Interval
<1>5. QED
  BY <1>2, <1>3, <1>4, FS_Surjection

\* How much of a label a form accounts for and how much of it the label leaves.
Said(species, says, form) == Cardinality(Own(species, form) \cap says)
Unsaid(species, says, form) == Cardinality(Own(species, form) \ says)

LEMMA ScoredIs ==
    ASSUME NEW species, NEW says, NEW form \in [id : Nat, name : Seq(STRING)]
    PROVE  /\ Scored(form, species.root, says) =
                [id |-> form.id, matched |-> Said(species, says, form),
                 extra |-> Unsaid(species, says, form)]
           /\ Said(species, says, form) \in Nat
           /\ Unsaid(species, says, form) \in Nat
           /\ Said(species, says, form) = 0 <=> Own(species, form) \cap says = {}
           /\ Unsaid(species, says, form) = 0 <=> Own(species, form) \subseteq says
<1> DEFINE own == Own(species, form)
<1>1. IsFiniteSet(own)
  <2>1. IsFiniteSet(Words(form.name))
    BY WordsFinite
  <2>2. own \in SUBSET Words(form.name)
    BY DEF Own
  <2>3. QED
    BY <2>1, <2>2, FS_Subset
<1>2. /\ Scored(form, species.root, says).id = form.id
      /\ Scored(form, species.root, says) =
           [id |-> form.id, matched |-> Cardinality(says \cap own),
            extra |-> Cardinality(own \ says)]
  BY DEF Scored, Own
<1>3. says \cap own = own \cap says
  OBVIOUS
<1>4. own \cap says \in SUBSET own /\ own \ says \in SUBSET own
  OBVIOUS
<1> HIDE DEF own
<1>5. IsFiniteSet(own \cap says) /\ IsFiniteSet(own \ says)
  BY <1>1, <1>4, FS_Subset
<1>6. /\ Cardinality(own \cap says) \in Nat
      /\ Cardinality(own \ says) \in Nat
  BY <1>5, FS_CardinalityType
<1>7. /\ Cardinality(own \cap says) = 0 <=> own \cap says = {}
      /\ Cardinality(own \ says) = 0 <=> own \ says = {}
  BY <1>5, FS_EmptySet
<1>8. QED
  BY <1>2, <1>3, <1>6, <1>7 DEF own, Said, Unsaid

-----------------------------------------------------------------------------
Candidate == [id : Nat, matched : Nat, extra : Nat]

\* Where the scan stands after i forms: the best candidate met, and a second
\* that none but the best is better than.
Ranked(c, i, top) ==
    LET met == {j \in 1 .. i : c[j].matched > 0}
    IN \/ met = {} /\ top.best = Nobody /\ top.second = Nobody
       \/ \E b \in met :
            /\ top.best = c[b]
            /\ \A j \in met : ~ Better(c[j], c[b])
            /\ \/ met = {b} /\ top.second = Nobody
               \/ \E s \in met \ {b} :
                    /\ top.second = c[s]
                    /\ \A j \in met \ {b} : ~ Better(c[j], c[s])

\* A candidate better than another is better than all the other is no worse than.
LEMMA BetterOrder ==
    ASSUME NEW x \in Candidate, NEW y \in Candidate, NEW z \in Candidate
    PROVE  /\ ~ Better(x, x)
           /\ ~ (Better(x, y) /\ Better(y, x))
           /\ ~ Better(x, y) /\ Better(z, y) => ~ Better(x, z)
           /\ x.matched > 0 => Better(x, Nobody)
  BY DEF Candidate, Better, Nobody

\* Placing a candidate keeps the two in their ranks.
LEMMA PlacedRanked ==
    ASSUME NEW N \in Nat, NEW c \in [1 .. N -> Candidate], NEW i \in 1 .. N,
           c[i].matched > 0,
           NEW top \in [best : Candidate, second : Candidate], Ranked(c, i - 1, top)
    PROVE  /\ Placed(top, c[i]) \in [best : Candidate, second : Candidate]
           /\ Ranked(c, i, Placed(top, c[i]))
<1> DEFINE met == {j \in 1 .. i - 1 : c[j].matched > 0}
           next == Placed(top, c[i])
<1>1. {j \in 1 .. i : c[j].matched > 0} = met \cup {i} /\ i \notin met
  OBVIOUS
<1>2. \A j \in met \cup {i} : c[j] \in Candidate /\ j \in 1 .. N
  OBVIOUS
<1>3. /\ next.best = IF Better(c[i], top.best) THEN c[i] ELSE top.best
      /\ next.second = IF Better(c[i], top.best) THEN top.best
                       ELSE IF Better(c[i], top.second) THEN c[i] ELSE top.second
      /\ next \in [best : Candidate, second : Candidate]
  BY <1>2 DEF Placed
<1>4. \/ met = {} /\ top.best = Nobody /\ top.second = Nobody
      \/ \E b \in met :
            /\ top.best = c[b]
            /\ \A j \in met : ~ Better(c[j], c[b])
            /\ \/ met = {b} /\ top.second = Nobody
               \/ \E s \in met \ {b} :
                    /\ top.second = c[s]
                    /\ \A j \in met \ {b} : ~ Better(c[j], c[s])
  BY DEF Ranked
<1>5. SUFFICES \E b \in met \cup {i} :
            /\ next.best = c[b]
            /\ \A j \in met \cup {i} : ~ Better(c[j], c[b])
            /\ \/ met \cup {i} = {b} /\ next.second = Nobody
               \/ \E s \in (met \cup {i}) \ {b} :
                    /\ next.second = c[s]
                    /\ \A j \in (met \cup {i}) \ {b} : ~ Better(c[j], c[s])
  BY <1>1, <1>3 DEF Ranked
<1> HIDE DEF met, next
<1>6. ~ Better(c[i], c[i]) /\ Better(c[i], Nobody)
  BY BetterOrder, <1>2
<1>7. CASE met = {} /\ top.best = Nobody /\ top.second = Nobody
  <2>1. next.best = c[i] /\ next.second = Nobody /\ met \cup {i} = {i}
    BY <1>3, <1>6, <1>7
  <2>2. QED
    BY <1>6, <2>1
<1>8. ASSUME NEW b \in met, top.best = c[b], \A j \in met : ~ Better(c[j], c[b]),
             \/ met = {b} /\ top.second = Nobody
             \/ \E s \in met \ {b} :
                  /\ top.second = c[s]
                  /\ \A j \in met \ {b} : ~ Better(c[j], c[s])
      PROVE  \E d \in met \cup {i} :
            /\ next.best = c[d]
            /\ \A j \in met \cup {i} : ~ Better(c[j], c[d])
            /\ \/ met \cup {i} = {d} /\ next.second = Nobody
               \/ \E s \in (met \cup {i}) \ {d} :
                    /\ next.second = c[s]
                    /\ \A j \in (met \cup {i}) \ {d} : ~ Better(c[j], c[s])
  <2>1. CASE Better(c[i], c[b])
    <3>1. next.best = c[i] /\ next.second = c[b]
      BY <1>3, <1>8, <2>1
    <3>2. \A j \in met : ~ Better(c[j], c[i])
      BY <1>2, <1>8, <2>1, BetterOrder
    <3>3. (met \cup {i}) \ {i} = met
      BY <1>1
    <3>4. QED
      BY <1>6, <1>8, <3>1, <3>2, <3>3
  <2>2. CASE ~ Better(c[i], c[b]) /\ Better(c[i], top.second)
    <3>1. next.best = c[b] /\ next.second = c[i]
      BY <1>3, <1>8, <2>2
    <3>2. \A j \in met \ {b} : ~ Better(c[j], c[i])
      <4>1. CASE met = {b}
        BY <4>1
      <4>2. ASSUME NEW s \in met \ {b}, top.second = c[s],
                   \A j \in met \ {b} : ~ Better(c[j], c[s])
            PROVE  \A j \in met \ {b} : ~ Better(c[j], c[i])
        BY <1>2, <2>2, <4>2, BetterOrder
      <4>3. QED
        BY <1>8, <4>1, <4>2
    <3>3. i \in (met \cup {i}) \ {b}
      BY <1>1
    <3>4. \A j \in (met \cup {i}) \ {b} : ~ Better(c[j], c[i])
      BY <1>6, <3>2
    <3>5. \A j \in met \cup {i} : ~ Better(c[j], c[b])
      BY <1>8, <2>2
    <3>6. QED
      BY <3>1, <3>3, <3>4, <3>5
  <2>3. CASE ~ Better(c[i], c[b]) /\ ~ Better(c[i], top.second)
    <3>1. next.best = c[b] /\ next.second = top.second
      BY <1>3, <1>8, <2>3
    <3>2. PICK s \in met \ {b} : /\ top.second = c[s]
                                 /\ \A j \in met \ {b} : ~ Better(c[j], c[s])
      BY <1>6, <1>8, <2>3
    <3>3. s \in (met \cup {i}) \ {b}
      OBVIOUS
    <3>4. \A j \in (met \cup {i}) \ {b} : ~ Better(c[j], c[s])
      BY <2>3, <3>2
    <3>5. \A j \in met \cup {i} : ~ Better(c[j], c[b])
      BY <1>8, <2>3
    <3>6. QED
      BY <3>1, <3>2, <3>3, <3>4, <3>5
  <2>4. QED
    BY <2>1, <2>2, <2>3
<1>9. QED
  BY <1>4, <1>5, <1>7, <1>8

-----------------------------------------------------------------------------
\* The scan of the first m forms.
Scans(top, m, species, says) ==
    top = [i \in 0 .. m |->
             IF i = 0 THEN [best |-> Nobody, second |-> Nobody]
             ELSE IF Scored(species.forms[i], species.root, says).matched = 0 THEN top[i - 1]
             ELSE Placed(top[i - 1], Scored(species.forms[i], species.root, says))]

LEMMA ScansAt ==
    ASSUME NEW top, NEW m \in Nat, NEW species, NEW says, Scans(top, m, species, says),
           NEW i \in 0 .. m
    PROVE  top[i] =
             IF i = 0 THEN [best |-> Nobody, second |-> Nobody]
             ELSE IF Scored(species.forms[i], species.root, says).matched = 0 THEN top[i - 1]
             ELSE Placed(top[i - 1], Scored(species.forms[i], species.root, says))
<1> DEFINE At(k) ==
             IF k = 0 THEN [best |-> Nobody, second |-> Nobody]
             ELSE IF Scored(species.forms[k], species.root, says).matched = 0 THEN top[k - 1]
             ELSE Placed(top[k - 1], Scored(species.forms[k], species.root, says))
<1>1. top = [k \in 0 .. m |-> At(k)]
  BY DEF Scans
<1> HIDE DEF At
<1>2. top[i] = At(i)
  BY <1>1, Zenon
<1>3. QED
  BY <1>2 DEF At

\* The scan is defined for any number of forms, so BestTwo is its last value.
LEMMA ScansExists ==
    ASSUME NEW species, NEW says, NEW N \in Nat
    PROVE  \E top : Scans(top, N, species, says)
<1> DEFINE S == {m \in Nat : ~ \E top : Scans(top, m, species, says)}
<1> SUFFICES ASSUME S # {} PROVE FALSE
  OBVIOUS
<1> HIDE DEF S
<1>1. S \in SUBSET Nat
  BY DEF S
<1>2. PICK m \in S : \A n \in S : m <= n
  BY <1>1, Smallest
<1>3. CASE m = 0
  <2> DEFINE top == [i \in 0 .. 0 |-> [best |-> Nobody, second |-> Nobody]]
  <2>1. Scans(top, 0, species, says)
    BY DEF Scans
  <2>2. QED
    BY <2>1, <1>3, <1>2 DEF S
<1>4. CASE m # 0
  <2>1. m \in Nat /\ m - 1 \in Nat /\ m - 1 \notin S
    BY <1>1, <1>2, <1>4
  <2>2. PICK g : Scans(g, m - 1, species, says)
    BY <2>1 DEF S
  <2> DEFINE top == [i \in 0 .. m |->
             IF i = 0 THEN [best |-> Nobody, second |-> Nobody]
             ELSE IF Scored(species.forms[i], species.root, says).matched = 0 THEN g[i - 1]
             ELSE Placed(g[i - 1], Scored(species.forms[i], species.root, says))]
  <2>3. ASSUME NEW i \in 0 .. m - 1
        PROVE  top[i] = g[i]
    <3>1. i \in 0 .. m
      BY <2>1
    <3>2. g[i] = IF i = 0 THEN [best |-> Nobody, second |-> Nobody]
                 ELSE IF Scored(species.forms[i], species.root, says).matched = 0 THEN g[i - 1]
                 ELSE Placed(g[i - 1], Scored(species.forms[i], species.root, says))
      BY <2>1, <2>2, ScansAt
    <3>3. QED
      BY <3>1, <3>2
  <2>4. Scans(top, m, species, says)
    <3>1. \A i \in 0 .. m : i # 0 => i - 1 \in 0 .. m - 1
      BY <2>1
    <3>2. \A i \in 0 .. m : i # 0 => top[i - 1] = g[i - 1]
      <4> HIDE DEF top
      <4>1. QED
        BY <2>3, <3>1
    <3>3. QED
      BY <3>2 DEF Scans
  <2>5. QED
    BY <2>4, <1>2 DEF S
<1>5. QED
  BY <1>3, <1>4

LEMMA BestTwoScans ==
    ASSUME NEW species, NEW says, Len(species.forms) \in Nat
    PROVE  \E top : /\ Scans(top, Len(species.forms), species, says)
                    /\ BestTwo(species, says) = top[Len(species.forms)]
<1> DEFINE top == CHOOSE top : Scans(top, Len(species.forms), species, says)
<1>1. Scans(top, Len(species.forms), species, says)
  BY ScansExists, Zenon
<1>2. BestTwo(species, says) = top[Len(species.forms)]
  BY DEF BestTwo, Scans
<1>3. QED
  BY <1>1, <1>2

Scores(species, says) ==
    [i \in 1 .. Len(species.forms) |-> Scored(species.forms[i], species.root, says)]

LEMMA ScoresIs ==
    ASSUME NEW species, IsSpecies(species), NEW says
    PROVE  /\ Len(species.forms) \in Nat /\ DOMAIN species.forms = 1 .. Len(species.forms)
           /\ Words(species.forms) = {species.forms[i] : i \in 1 .. Len(species.forms)}
           /\ Scores(species, says) \in [1 .. Len(species.forms) -> Candidate]
           /\ \A i \in 1 .. Len(species.forms) :
                /\ species.forms[i] \in [id : Nat, name : Seq(STRING)]
                /\ Scores(species, says)[i] = Scored(species.forms[i], species.root, says)
                /\ Scores(species, says)[i] =
                     [id |-> species.forms[i].id,
                      matched |-> Said(species, says, species.forms[i]),
                      extra |-> Unsaid(species, says, species.forms[i])]
<1>1. /\ Len(species.forms) \in Nat /\ DOMAIN species.forms = 1 .. Len(species.forms)
      /\ \A i \in 1 .. Len(species.forms) :
           species.forms[i] \in [id : Nat, name : Seq(STRING)]
      /\ Words(species.forms) = {species.forms[i] : i \in 1 .. Len(species.forms)}
  <2> DEFINE T == [id : Nat, name : Seq(STRING)]
  <2>1. species.forms \in Seq(T)
    BY DEF IsSpecies
  <2> HIDE DEF T
  <2>2. /\ Len(species.forms) \in Nat /\ DOMAIN species.forms = 1 .. Len(species.forms)
        /\ species.forms \in [1 .. Len(species.forms) -> T]
    BY <2>1, LenProperties
  <2>3. Words(species.forms) = {species.forms[i] : i \in 1 .. Len(species.forms)}
    BY <2>1, WordsFinite
  <2>4. \A i \in 1 .. Len(species.forms) : species.forms[i] \in T
    BY <2>2
  <2>5. QED
    BY <2>2, <2>3, <2>4 DEF T
<1>2. ASSUME NEW i \in 1 .. Len(species.forms)
      PROVE  /\ Scores(species, says)[i] = Scored(species.forms[i], species.root, says)
             /\ Scores(species, says)[i] =
                     [id |-> species.forms[i].id,
                      matched |-> Said(species, says, species.forms[i]),
                      extra |-> Unsaid(species, says, species.forms[i])]
             /\ Scores(species, says)[i] \in Candidate
  <2>1. Scores(species, says)[i] = Scored(species.forms[i], species.root, says)
    BY DEF Scores
  <2> DEFINE f == species.forms[i]
  <2>2. f \in [id : Nat, name : Seq(STRING)] /\ f.id \in Nat
    BY <1>1
  <2> HIDE DEF f
  <2>3. /\ Scored(f, species.root, says) =
             [id |-> f.id, matched |-> Said(species, says, f), extra |-> Unsaid(species, says, f)]
        /\ Said(species, says, f) \in Nat
        /\ Unsaid(species, says, f) \in Nat
    BY <2>2, ScoredIs
  <2>4. Scored(f, species.root, says) \in Candidate
    BY <2>2, <2>3 DEF Candidate
  <2>5. QED
    BY <2>1, <2>3, <2>4 DEF f
<1>3. Scores(species, says) \in [1 .. Len(species.forms) -> Candidate]
  <2>1. \A i \in 1 .. Len(species.forms) : Scores(species, says)[i] \in Candidate
    BY <1>2
  <2>2. QED
    BY <2>1 DEF Scores
<1>4. QED
  BY <1>1, <1>2, <1>3

\* The scan ranks all the forms.
LEMMA BestTwoRanked ==
    ASSUME NEW species, IsSpecies(species), NEW says
    PROVE  Ranked(Scores(species, says), Len(species.forms), BestTwo(species, says))
<1> DEFINE N == Len(species.forms)
           c == Scores(species, says)
<1>1. /\ N \in Nat /\ c \in [1 .. N -> Candidate]
      /\ \A i \in 1 .. N : c[i] = Scored(species.forms[i], species.root, says)
  BY ScoresIs
<1>2. PICK top : Scans(top, N, species, says) /\ BestTwo(species, says) = top[N]
  BY <1>1, BestTwoScans
<1> HIDE DEF N, c
<1>3. top[0] = [best |-> Nobody, second |-> Nobody]
  <2>1. 0 \in 0 .. N
    BY <1>1
  <2>2. QED
    BY <1>1, <1>2, <2>1, ScansAt, Zenon
<1>4. ASSUME NEW i \in 1 .. N
      PROVE  top[i] = IF c[i].matched = 0 THEN top[i - 1] ELSE Placed(top[i - 1], c[i])
  <2>1. i \in 0 .. N /\ i # 0
    BY <1>1
  <2>2. top[i] = IF i = 0 THEN [best |-> Nobody, second |-> Nobody]
                 ELSE IF Scored(species.forms[i], species.root, says).matched = 0 THEN top[i - 1]
                 ELSE Placed(top[i - 1], Scored(species.forms[i], species.root, says))
    BY <1>1, <1>2, <2>1, ScansAt
  <2>3. QED
    BY <1>1, <2>1, <2>2
<1> DEFINE Good(m) == /\ top[m] \in [best : Candidate, second : Candidate]
                      /\ Ranked(c, m, top[m])
<1>5. Good(0)
  BY <1>3 DEF Ranked, Nobody, Candidate
<1>6. ASSUME NEW i \in 1 .. N, Good(i - 1)
      PROVE  Good(i)
  <2>1. c[i] \in Candidate
    BY <1>1
  <2>2. CASE c[i].matched = 0
    <3>1. top[i] = top[i - 1]
      BY <1>4, <2>2
    <3>2. {j \in 1 .. i : c[j].matched > 0} = {j \in 1 .. i - 1 : c[j].matched > 0}
      <4>1. \A j \in 1 .. i : c[j].matched > 0 => j \in 1 .. i - 1
        BY <1>1, <2>2
      <4>2. QED
        BY <4>1
    <3>3. Ranked(c, i - 1, top[i - 1]) <=> Ranked(c, i, top[i - 1])
      BY <3>2 DEF Ranked
    <3>4. QED
      BY <1>6, <3>1, <3>3
  <2>3. CASE c[i].matched # 0
    <3>1. top[i] = Placed(top[i - 1], c[i]) /\ c[i].matched > 0
      BY <1>4, <2>1, <2>3 DEF Candidate
    <3>2. QED
      BY <1>1, <1>6, <3>1, PlacedRanked
  <2>4. QED
    BY <2>2, <2>3
<1>7. Good(N)
  <2> DEFINE S == {m \in Nat : m <= N /\ ~ Good(m)}
  <2> HIDE DEF Good
  <2> SUFFICES ASSUME S # {} PROVE FALSE
    BY <1>1
  <2>1. PICK m \in S : \A n \in S : m <= n
    BY Smallest
  <2>2. m # 0
    BY <1>5, <2>1
  <2>3. m - 1 \in Nat /\ m - 1 \notin S /\ m \in 1 .. N
    BY <2>1, <2>2, <1>1
  <2>4. QED
    BY <1>6, <2>1, <2>3, <1>1
<1>8. QED
  BY <1>2, <1>7 DEF N, c

\* What a label means that is no override and says something of its own.
Nearest(species, says) ==
    LET near == {f \in Words(species.forms) : Own(species, f) \cap says # {}}
    IN {f \in near : \A g \in near : ~ Fits(species, says, g, f)}

MeantOf(species, says) ==
    IF Len(species.forms) = 1 THEN {species.forms[1].id}
    ELSE IF \/ Cardinality(Nearest(species, says)) = 1
            \/ \A f \in Nearest(species, says) : Own(species, f) \subseteq says
    THEN {f.id : f \in Nearest(species, says)}
    ELSE {}

\* One best form, a tie of forms that are said in full, and neither: what the
\* two scanned first say about the tie is what all the forms say.
LEMMA BestMeans ==
    ASSUME NEW species, IsSpecies(species), NEW says
    PROVE  BestOf(species, says) = MeantOf(species, says)
<1> DEFINE N == Len(species.forms)
           F(j) == species.forms[j]
           c == Scores(species, says)
           top == BestTwo(species, says)
           met == {j \in 1 .. N : c[j].matched > 0}
           First == {j \in met : \A k \in met : ~ Better(c[k], c[j])}
           tied == {d \in {c[j] : j \in 1 .. N} : d.matched = top.best.matched /\ d.extra = 0}
           best == IF top.best.matched > 0 /\ Better(top.best, top.second) THEN {top.best.id}
                   ELSE IF top.best.matched > 0 /\ top.best.extra = 0 /\ Cardinality(tied) >= 2
                   THEN {d.id : d \in tied}
                   ELSE IF N = 1 THEN {F(1).id} ELSE {}
<1>1. /\ N \in Nat
      /\ Words(species.forms) = {F(j) : j \in 1 .. N}
      /\ c \in [1 .. N -> Candidate]
      /\ \A j \in 1 .. N :
           /\ F(j) \in [id : Nat, name : Seq(STRING)]
           /\ c[j] = Scored(F(j), species.root, says)
           /\ c[j] = [id |-> F(j).id, matched |-> Said(species, says, F(j)),
                      extra |-> Unsaid(species, says, F(j))]
  BY ScoresIs
<1>2. \A i, j \in 1 .. N : F(i).id = F(j).id => i = j
  <2>1. DOMAIN species.forms = 1 .. N
    BY ScoresIs
  <2>2. QED
    BY <2>1 DEF IsSpecies
<1>3. \A j \in 1 .. N :
        /\ c[j] \in Candidate
        /\ c[j].id = F(j).id
        /\ c[j].matched = Said(species, says, F(j))
        /\ c[j].extra = Unsaid(species, says, F(j))
        /\ c[j].matched > 0 <=> Own(species, F(j)) \cap says # {}
        /\ c[j].extra = 0 <=> Own(species, F(j)) \subseteq says
  <2> SUFFICES ASSUME NEW j \in 1 .. N
               PROVE  /\ c[j] \in Candidate
                      /\ c[j].id = F(j).id
                      /\ c[j].matched = Said(species, says, F(j))
                      /\ c[j].extra = Unsaid(species, says, F(j))
                      /\ c[j].matched > 0 <=> Own(species, F(j)) \cap says # {}
                      /\ c[j].extra = 0 <=> Own(species, F(j)) \subseteq says
    OBVIOUS
  <2> HIDE DEF N, F, c
  <2>1. /\ c[j] \in Candidate
        /\ c[j].id = F(j).id
        /\ c[j].matched = Said(species, says, F(j))
        /\ c[j].extra = Unsaid(species, says, F(j))
    BY <1>1
  <2>2. /\ Said(species, says, F(j)) = 0 <=> Own(species, F(j)) \cap says = {}
        /\ Unsaid(species, says, F(j)) = 0 <=> Own(species, F(j)) \subseteq says
    BY <1>1, ScoredIs
  <2>3. c[j].matched > 0 <=> c[j].matched # 0
    BY <2>1 DEF Candidate
  <2>4. QED
    BY <2>1, <2>2, <2>3
<1>4. BestOf(species, says) = best
  <2>1. {Scored(f, species.root, says) : f \in Words(species.forms)} = {c[j] : j \in 1 .. N}
    <3> HIDE DEF N, F, c
    <3>1. QED
      BY <1>1
  <2>2. QED
    BY <2>1 DEF BestOf
<1>5. Ranked(c, N, top)
  BY BestTwoRanked
<1>6. Nearest(species, says) = {F(j) : j \in First}
  <2> HIDE DEF N, F, c, top
  <2>1. {f \in Words(species.forms) : Own(species, f) \cap says # {}} = {F(j) : j \in met}
    BY <1>1, <1>3
  <2>2. ASSUME NEW i \in 1 .. N, NEW j \in 1 .. N
        PROVE  Fits(species, says, F(i), F(j)) <=> Better(c[i], c[j])
    <3>1. Fits(species, says, F(i), F(j)) <=>
            \/ Said(species, says, F(i)) > Said(species, says, F(j))
            \/ /\ Said(species, says, F(i)) = Said(species, says, F(j))
               /\ Unsaid(species, says, F(i)) < Unsaid(species, says, F(j))
      BY DEF Fits, Said, Unsaid
    <3>2. QED
      BY <1>3, <3>1 DEF Better
  <2>3. Nearest(species, says) =
          {f \in {F(j) : j \in met} : \A g \in {F(j) : j \in met} : ~ Fits(species, says, g, f)}
    BY <2>1 DEF Nearest
  <2>4. met \subseteq 1 .. N
    OBVIOUS
  <2> HIDE DEF met
  <2>5. QED
    BY <2>2, <2>3, <2>4
<1>7. First \subseteq met /\ met \subseteq 1 .. N
  OBVIOUS
<1>8. \A j \in met : c[j] \in Candidate /\ c[j].matched > 0 /\ Better(c[j], Nobody)
  <2> SUFFICES ASSUME NEW j \in met
               PROVE  c[j] \in Candidate /\ c[j].matched > 0 /\ Better(c[j], Nobody)
    OBVIOUS
  <2>1. c[j] \in Candidate /\ c[j].matched > 0
    BY <1>3
  <2>2. QED
    BY <2>1, BetterOrder
<1>9. IsFiniteSet(Words(species.forms))
  BY WordsFinite DEF IsSpecies
<1> HIDE DEF N, F, c, top
<1>10. CASE met = {} /\ top.best = Nobody
  <2>1. Nearest(species, says) = {}
    BY <1>6, <1>7, <1>10
  <2>2. MeantOf(species, says) = IF N = 1 THEN {F(1).id} ELSE {}
    BY <2>1 DEF MeantOf, N, F
  <2>3. best = IF N = 1 THEN {F(1).id} ELSE {}
    BY <1>10 DEF Nobody
  <2>4. QED
    BY <1>4, <2>2, <2>3
<1>11. ASSUME NEW b \in met, top.best = c[b], \A j \in met : ~ Better(c[j], c[b]),
              \/ met = {b} /\ top.second = Nobody
              \/ \E s \in met \ {b} :
                   /\ top.second = c[s]
                   /\ \A j \in met \ {b} : ~ Better(c[j], c[s])
       PROVE  BestOf(species, says) = MeantOf(species, says)
  <2>1. b \in 1 .. N /\ b \in First /\ top.best.matched > 0
    BY <1>7, <1>8, <1>11
  <2>2. CASE Better(top.best, top.second)
    <3>1. First = {b}
      <4>1. ASSUME NEW j \in First, j # b
            PROVE  FALSE
        <5>1. PICK s \in met \ {b} : /\ top.second = c[s]
                                     /\ \A k \in met \ {b} : ~ Better(c[k], c[s])
          BY <1>7, <1>11, <4>1
        <5>2. Better(c[b], c[s]) /\ ~ Better(c[j], c[s]) /\ ~ Better(c[b], c[j])
          BY <1>7, <1>11, <2>2, <4>1, <5>1
        <5>3. c[b] \in Candidate /\ c[s] \in Candidate /\ c[j] \in Candidate
          BY <1>7, <1>8
        <5>4. QED
          BY <5>2, <5>3 DEF Better, Candidate
      <4>2. QED
        BY <2>1, <4>1
    <3>2. Nearest(species, says) = {F(b)}
      BY <1>6, <3>1
    <3>3. {f.id : f \in Nearest(species, says)} = {F(b).id}
      BY <3>2
    <3>4. Cardinality(Nearest(species, says)) = 1
      BY <3>2, FS_Singleton
    <3>5. MeantOf(species, says) = IF N = 1 THEN {F(1).id} ELSE {F(b).id}
      BY <3>3, <3>4 DEF MeantOf, N, F
    <3>6. N = 1 => b = 1
      BY <2>1
    <3>7. best = {F(b).id}
      BY <1>3, <1>11, <2>1, <2>2
    <3>8. QED
      BY <1>4, <3>5, <3>6, <3>7
  <2>3. CASE ~ Better(top.best, top.second)
    <3>1. PICK s \in met \ {b} : /\ top.second = c[s]
                                 /\ \A k \in met \ {b} : ~ Better(c[k], c[s])
      BY <1>8, <1>11, <2>3
    <3>2. s \in 1 .. N /\ s # b /\ N # 1
      BY <1>7, <2>1, <3>1
    <3>3. \A j \in met : (j \in First <=> c[j].matched = c[b].matched /\ c[j].extra = c[b].extra)
      <4>1. \A i \in met : ~ Better(c[i], c[b])
        BY <1>11
      <4>2. \A i \in met : c[i] \in Candidate
        BY <1>8
      <4>3. ASSUME NEW j \in met
            PROVE  ~ Better(c[b], c[j]) <=> c[j].matched = c[b].matched /\ c[j].extra = c[b].extra
        BY <4>1, <4>2 DEF Better, Candidate
      <4>4. ASSUME NEW j \in met, ~ Better(c[b], c[j])
            PROVE  \A i \in met : ~ Better(c[i], c[j])
        <5>1. c[j].matched = c[b].matched /\ c[j].extra = c[b].extra
          BY <4>3, <4>4
        <5>2. QED
          BY <4>1, <5>1 DEF Better
      <4>5. QED
        BY <4>3, <4>4
    <3>4. s \in First
      <4>1. ~ Better(c[b], c[s]) /\ ~ Better(c[s], c[b])
        BY <1>11, <2>3, <3>1
      <4>2. c[s] \in Candidate /\ c[b] \in Candidate
        BY <1>8
      <4>3. c[s].matched = c[b].matched /\ c[s].extra = c[b].extra
        BY <4>1, <4>2 DEF Better, Candidate
      <4>4. QED
        BY <3>3, <4>3
    <3>5. Cardinality(Nearest(species, says)) # 1
      <4>1. F(b) \in Nearest(species, says) /\ F(s) \in Nearest(species, says) /\ F(b) # F(s)
        BY <1>2, <1>6, <2>1, <3>2, <3>4
      <4>2. IsFiniteSet(Nearest(species, says))
        <5>1. Nearest(species, says) \in SUBSET Words(species.forms)
          BY DEF Nearest
        <5>2. QED
          BY <1>9, <5>1, FS_Subset
      <4>3. QED
        BY <4>1, <4>2, FS_Singleton
    <3>6. MeantOf(species, says) =
            IF \A f \in Nearest(species, says) : Own(species, f) \subseteq says
            THEN {f.id : f \in Nearest(species, says)} ELSE {}
      BY <3>2, <3>5 DEF MeantOf, N
    <3>7. CASE c[b].extra = 0
      <4>1. tied = {c[j] : j \in First}
        <5>1. ASSUME NEW j \in 1 .. N, c[j].matched = c[b].matched, c[j].extra = 0
              PROVE  j \in First
          <6>1. j \in met
            BY <2>1, <1>11, <5>1
          <6>2. QED
            BY <3>3, <3>7, <5>1, <6>1
        <5>2. \A j \in First : j \in 1 .. N /\ c[j].matched = c[b].matched /\ c[j].extra = 0
          BY <1>7, <3>3, <3>7
        <5> HIDE DEF First
        <5>3. QED
          BY <1>11, <5>1, <5>2
      <4>2. {d.id : d \in tied} = {f.id : f \in Nearest(species, says)}
        <5>1. \A j \in First : c[j].id = F(j).id
          BY <1>3, <1>7
        <5> HIDE DEF First, tied
        <5>2. QED
          BY <1>6, <4>1, <5>1
      <4>3. \A f \in Nearest(species, says) : Own(species, f) \subseteq says
        BY <1>3, <1>6, <1>7, <3>3, <3>7
      <4>4. Cardinality(tied) >= 2
        <5>1. c[b] \in tied /\ c[s] \in tied
          BY <2>1, <3>4, <4>1
        <5>2. c[b] # c[s]
          BY <1>2, <1>3, <2>1, <3>2
        <5>3. IsFiniteSet(tied)
          <6>1. c \in Surjection(1 .. N, {c[j] : j \in 1 .. N})
            BY <1>1 DEF Surjection
          <6>2. IsFiniteSet({c[j] : j \in 1 .. N})
            BY <1>1, <6>1, FS_Interval, FS_Surjection
          <6>3. tied \in SUBSET {c[j] : j \in 1 .. N}
            OBVIOUS
          <6>4. QED
            BY <6>2, <6>3, FS_Subset
        <5> HIDE DEF tied
        <5>4. Cardinality(tied) \in Nat
          BY <5>3, FS_CardinalityType
        <5>5. Cardinality(tied) # 0
          BY <5>1, <5>3, FS_EmptySet
        <5>6. Cardinality(tied) # 1
          BY <5>1, <5>2, <5>3, FS_Singleton
        <5>7. QED
          BY <5>4, <5>5, <5>6
      <4>5. best = {d.id : d \in tied}
        <5> HIDE DEF tied
        <5>1. QED
          BY <1>11, <2>1, <2>3, <3>7, <4>4
      <4>6. QED
        BY <1>4, <3>6, <4>2, <4>3, <4>5
    <3>8. CASE c[b].extra # 0
      <4>1. F(b) \in Nearest(species, says) /\ ~ (Own(species, F(b)) \subseteq says)
        BY <1>3, <1>6, <2>1, <3>8
      <4>2. MeantOf(species, says) = {}
        BY <3>6, <4>1
      <4>3. best = {}
        <5> HIDE DEF tied
        <5>1. QED
          BY <1>11, <2>3, <3>2, <3>8
      <4>4. QED
        BY <1>4, <4>2, <4>3
    <3>9. QED
      BY <3>7, <3>8
  <2>4. QED
    BY <2>2, <2>3
<1>12. QED
  <2>1. \/ met = {} /\ top.best = Nobody /\ top.second = Nobody
        \/ \E b \in met :
            /\ top.best = c[b]
            /\ \A j \in met : ~ Better(c[j], c[b])
            /\ \/ met = {b} /\ top.second = Nobody
               \/ \E s \in met \ {b} :
                    /\ top.second = c[s]
                    /\ \A j \in met \ {b} : ~ Better(c[j], c[s])
    BY <1>5 DEF Ranked
  <2>2. QED
    BY <1>10, <1>11, <2>1

\* The scan of resolveFormMarker finds what a label means.
LEMMA MarkerMeans ==
    ASSUME NEW species, IsSpecies(species), NEW label
    PROVE  resolveFormMarker(species, label) = Meant(species, label)
<1> DEFINE says == tokenize(label) \ species.root
<1>1. BestOf(species, says) = MeantOf(species, says)
  BY BestMeans
<1>2. QED
  BY <1>1 DEF resolveFormMarker, Meant, MeantOf, Nearest

-----------------------------------------------------------------------------
(* The walk over a learnset section, whatever the answers to its labels      *)

\* The open block has a heading; it has two.
OneOpen(s, n) == \E i \in 1 .. n : IsForm(s, i) /\ SameBlock(s, i, n)
TwoOpen(s, n) == \E i \in 1 .. n : \E j \in i + 1 .. n : IsForm(s, i) /\ IsForm(s, j) /\ SameBlock(s, i, n)

\* How the reference reading moves on over one occurrence.
LEMMA HeadingStep ==
    ASSUME NEW s, NEW k \in Nat \ {0}
    PROVE  /\ IsForm(s, k) => Heading(s, k + 1) = {k}
           /\ ~ IsForm(s, k) /\ ~ ClosesSplitBlock(s, k) => Heading(s, k + 1) = Heading(s, k)
           /\ ClosesSplitBlock(s, k) => Heading(s, k + 1) = {}
<1>1. ASSUME IsForm(s, k) PROVE Heading(s, k + 1) = {k}
  <2>1. \A f \in Heading(s, k + 1) : f = k
    BY <1>1 DEF Heading
  <2>2. k \in Heading(s, k + 1)
    BY <1>1 DEF Heading
  <2>3. QED
    BY <2>1, <2>2
<1>2. ASSUME ~ IsForm(s, k), ~ ClosesSplitBlock(s, k)
      PROVE  Heading(s, k + 1) = Heading(s, k)
  <2>1. ASSUME NEW f \in Heading(s, k + 1) PROVE f \in Heading(s, k)
    BY <1>2, <2>1 DEF Heading
  <2>2. ASSUME NEW f \in Heading(s, k) PROVE f \in Heading(s, k + 1)
    <3>1. f \in 1 .. k /\ IsForm(s, f)
      BY <2>2 DEF Heading
    <3>2. ASSUME NEW j \in f + 1 .. k
          PROVE  ~ IsForm(s, j) /\ ~ ClosesSplitBlock(s, j)
      BY <1>2, <2>2, <3>2 DEF Heading
    <3>3. QED
      BY <3>1, <3>2 DEF Heading
  <2>3. QED
    BY <2>1, <2>2
<1>3. ASSUME ClosesSplitBlock(s, k) PROVE Heading(s, k + 1) = {}
  <2>1. ~ IsForm(s, k)
    BY <1>3 DEF ClosesSplitBlock, IsForm, IsMarker
  <2>2. QED
    BY <1>3, <2>1 DEF Heading
<1>4. QED
  BY <1>1, <1>2, <1>3

\* How the open block moves on over one occurrence.
LEMMA BlockStep ==
    ASSUME NEW s, NEW k \in Nat \ {0}
    PROVE  /\ IsMarker(s, k) => ~ OneOpen(s, k) /\ ~ TwoOpen(s, k)
           /\ IsForm(s, k) => OneOpen(s, k) /\ (TwoOpen(s, k) <=> OneOpen(s, k - 1))
           /\ ~ IsMarker(s, k) /\ ~ IsForm(s, k) =>
                /\ OneOpen(s, k) <=> OneOpen(s, k - 1)
                /\ TwoOpen(s, k) <=> TwoOpen(s, k - 1)
           /\ IsMarker(s, k) => (ClosesSplitBlock(s, k) <=> TwoOpen(s, k - 1))
<1>1. ASSUME IsMarker(s, k) PROVE ~ OneOpen(s, k) /\ ~ TwoOpen(s, k)
  BY <1>1 DEF OneOpen, TwoOpen, SameBlock
<1>2. ASSUME ~ IsMarker(s, k), NEW i \in 1 .. k - 1
      PROVE  SameBlock(s, i, k) <=> SameBlock(s, i, k - 1)
  BY <1>2 DEF SameBlock
<1>3. ASSUME IsForm(s, k) PROVE OneOpen(s, k) /\ (TwoOpen(s, k) <=> OneOpen(s, k - 1))
  <2>1. ~ IsMarker(s, k)
    BY <1>3 DEF IsForm, IsMarker
  <2>2. OneOpen(s, k)
    BY <1>3, <2>1 DEF OneOpen, SameBlock
  <2>3. ASSUME TwoOpen(s, k) PROVE OneOpen(s, k - 1)
    <3>1. PICK i \in 1 .. k : /\ \E j \in i + 1 .. k : IsForm(s, j)
                                /\ IsForm(s, i) /\ SameBlock(s, i, k)
      BY <2>3 DEF TwoOpen
    <3>2. i \in 1 .. k - 1
      BY <3>1
    <3>3. QED
      BY <1>2, <2>1, <3>1, <3>2 DEF OneOpen
  <2>4. ASSUME OneOpen(s, k - 1) PROVE TwoOpen(s, k)
    <3>1. PICK i \in 1 .. k - 1 : IsForm(s, i) /\ SameBlock(s, i, k - 1)
      BY <2>4 DEF OneOpen
    <3>2. SameBlock(s, i, k)
      BY <1>2, <2>1, <3>1
    <3>3. i \in 1 .. k /\ k \in i + 1 .. k
      OBVIOUS
    <3>4. QED
      BY <1>3, <3>1, <3>2, <3>3 DEF TwoOpen
  <2>5. QED
    BY <2>2, <2>3, <2>4
<1>4. ASSUME ~ IsMarker(s, k), ~ IsForm(s, k)
      PROVE  /\ OneOpen(s, k) <=> OneOpen(s, k - 1)
             /\ TwoOpen(s, k) <=> TwoOpen(s, k - 1)
  <2>1. \A i \in 1 .. k : IsForm(s, i) => i \in 1 .. k - 1
    BY <1>4
  <2>2. \A i \in 1 .. k - 1 : SameBlock(s, i, k) <=> SameBlock(s, i, k - 1)
    BY <1>2, <1>4
  <2>3. OneOpen(s, k) <=> OneOpen(s, k - 1)
    BY <2>1, <2>2 DEF OneOpen
  <2>4. ASSUME TwoOpen(s, k) PROVE TwoOpen(s, k - 1)
    <3>1. PICK i \in 1 .. k :
              \E j \in i + 1 .. k : IsForm(s, i) /\ IsForm(s, j) /\ SameBlock(s, i, k)
      BY <2>4 DEF TwoOpen
    <3>2. i \in 1 .. k - 1 /\ \E j \in i + 1 .. k - 1 : IsForm(s, j)
      BY <1>4, <3>1
    <3>3. QED
      BY <2>2, <3>1, <3>2 DEF TwoOpen
  <2>5. ASSUME TwoOpen(s, k - 1) PROVE TwoOpen(s, k)
    <3>1. PICK i \in 1 .. k - 1 :
              \E j \in i + 1 .. k - 1 : IsForm(s, i) /\ IsForm(s, j) /\ SameBlock(s, i, k - 1)
      BY <2>5 DEF TwoOpen
    <3>2. i \in 1 .. k /\ \E j \in i + 1 .. k : IsForm(s, j)
      BY <3>1
    <3>3. QED
      BY <2>2, <3>1, <3>2 DEF TwoOpen
  <2>6. QED
    BY <2>3, <2>4, <2>5
<1>5. ASSUME IsMarker(s, k) PROVE ClosesSplitBlock(s, k) <=> TwoOpen(s, k - 1)
  BY <1>5 DEF ClosesSplitBlock, TwoOpen
<1>6. QED
  BY <1>1, <1>3, <1>4, <1>5

-----------------------------------------------------------------------------
\* What the state of the walk means after every occurrence.
WalkTypes ==
    /\ section \in Seq(Occurrence)
    /\ default \in SUBSET Mons
    /\ pos \in 0 .. Len(section)
    /\ currentIDs \in SUBSET Mons
    /\ headingsSinceMarker \in 0 .. pos
    /\ rows \in SUBSET (Mons \X (1 .. pos))
    /\ unresolved \in SUBSET (0 .. pos)
    /\ sawEmptySkip \in BOOLEAN
    /\ done \in BOOLEAN

Meaning ==
    /\ currentIDs = Owner(section, default, pos + 1)
    /\ headingsSinceMarker >= 1 <=> OneOpen(section, pos)
    /\ headingsSinceMarker >= 2 <=> TwoOpen(section, pos)

\* Whether entry i lost its rows without a report.
Accounted ==
    /\ \A i \in 1 .. pos :
         section[i].kind = "entry" /\ Learners(i) = {} => i \in unresolved \/ sawEmptySkip
    /\ done => pos = Len(section) /\ (sawEmptySkip => 0 \in unresolved)

LEMMA MegasType ==
    ASSUME NEW ids \in SUBSET Mons
    PROVE  WithMegas(ids) \in SUBSET Mons /\ ids \subseteq WithMegas(ids)
  BY MegasAssumption DEF WithMegas

\* The occurrence a step passes, and what it may be.
LEMMA Passed ==
    ASSUME WalkTypes, NEW kind, Passes(kind)
    PROVE  /\ pos + 1 \in 1 .. Len(section) /\ pos' = pos + 1
           /\ section' = section /\ default' = default /\ done' = done
           /\ section[pos + 1] \in Occurrence /\ section[pos + 1].kind = kind
           /\ kind = "form" => section[pos + 1].ids \in SUBSET Mons
           /\ kind = "entry" =>
                section[pos + 1].tag \in Labels \cup {Untagged, Malformed}
<1>1. /\ pos + 1 \in 1 .. Len(section) /\ pos' = pos + 1
      /\ section' = section /\ default' = default /\ done' = done /\ section[pos + 1].kind = kind
  BY DEF WalkTypes, Passes
<1>2. section[pos + 1] \in Occurrence
  BY <1>1 DEF WalkTypes
<1>3. QED
  BY <1>1, <1>2, LabelsAssumption DEF Occurrence, Form, Marker, LearnEntry

LEMMA TypesStart ==
    ASSUME section \in Seq(Occurrence), default \in SUBSET Mons, AtStart
    PROVE  WalkTypes
<1>1. Len(section) \in Nat
  OBVIOUS
<1>2. pos \in 0 .. Len(section) /\ headingsSinceMarker \in 0 .. pos
  BY <1>1 DEF AtStart
<1>3. QED
  BY <1>2, Zenon DEF AtStart, WalkTypes

LEMMA TypesInit == Init => WalkTypes
<1>1. \A n \in Nat : \A f \in [1 .. n -> Occurrence] : f \in Seq(Occurrence)
  OBVIOUS
<1>2. Init => section \in Seq(Occurrence)
  BY <1>1, MaxLenAssumption DEF Init, Sections
<1>3. QED
  BY <1>2, TypesStart DEF Init

LEMMA TypesStep == WalkTypes /\ [Next]_vars => WalkTypes'
<1> SUFFICES ASSUME WalkTypes, [Next]_vars
             PROVE  WalkTypes'
  OBVIOUS
<1>1. CASE PassMarker
  <2>1. pos' = pos + 1 /\ pos + 1 \in 1 .. Len(section) /\ section' = section /\ default' = default /\ done' = done
    BY <1>1, Passed DEF PassMarker
  <2>2. QED
    BY <1>1, <2>1 DEF WalkTypes, PassMarker
<1>2. CASE PassForm
  <2>1. /\ pos' = pos + 1 /\ pos + 1 \in 1 .. Len(section) /\ section' = section /\ default' = default /\ done' = done
        /\ section[pos + 1].ids \in SUBSET Mons
    BY <1>2, Passed DEF PassForm
  <2>2. QED
    BY <1>2, <2>1 DEF WalkTypes, PassForm
<1>3. CASE ReportEntry
  <2>1. pos' = pos + 1 /\ pos + 1 \in 1 .. Len(section) /\ section' = section /\ default' = default /\ done' = done
    BY <1>3, Passed DEF ReportEntry
  <2>2. unresolved' \in SUBSET (0 .. pos + 1)
    <3>1. unresolved' = unresolved \cup {pos + 1} /\ unresolved \in SUBSET (0 .. pos)
      BY <1>3 DEF ReportEntry, WalkTypes
    <3>2. QED
      BY <3>1 DEF WalkTypes
  <2>3. /\ currentIDs' = currentIDs /\ headingsSinceMarker' = headingsSinceMarker
        /\ rows' = rows /\ sawEmptySkip' = sawEmptySkip
    BY <1>3 DEF ReportEntry
  <2>4. QED
    BY <2>1, <2>2, <2>3 DEF WalkTypes
<1>4. CASE SkipEntry
  <2>1. pos' = pos + 1 /\ pos + 1 \in 1 .. Len(section) /\ section' = section /\ default' = default /\ done' = done
    BY <1>4, Passed DEF SkipEntry
  <2>2. QED
    BY <1>4, <2>1 DEF WalkTypes, SkipEntry
<1>5. CASE TakeEntry
  <2> DEFINE tag == section[pos + 1].tag
             targetIDs == IF tag = Untagged THEN currentIDs ELSE tag
  <2>1. /\ pos' = pos + 1 /\ pos + 1 \in 1 .. Len(section) /\ section' = section /\ default' = default /\ done' = done
        /\ tag \in Labels \cup {Untagged, Malformed}
    BY <1>5, Passed DEF TakeEntry
  <2>2. targetIDs \in SUBSET Mons
    BY <1>5, <2>1, LabelsAssumption DEF TakeEntry, WalkTypes
  <2>3. rows' = rows \cup (WithMegas(targetIDs) \X {pos + 1})
    BY <1>5 DEF TakeEntry
  <2>4. rows' \in SUBSET (Mons \X (1 .. pos + 1))
    <3>1. WithMegas(targetIDs) \in SUBSET Mons
      BY <2>2, MegasType
    <3>2. QED
      BY <2>3, <3>1 DEF WalkTypes
  <2>5. /\ currentIDs' = currentIDs /\ headingsSinceMarker' = headingsSinceMarker
        /\ unresolved' = unresolved /\ sawEmptySkip' = sawEmptySkip
    BY <1>5 DEF TakeEntry
  <2>6. QED
    BY <2>1, <2>4, <2>5 DEF WalkTypes
<1>6. CASE Finish
  BY <1>6 DEF WalkTypes, Finish
<1>7. CASE UNCHANGED vars
  BY <1>7 DEF WalkTypes, vars
<1>8. QED
  BY <1>1, <1>2, <1>3, <1>4, <1>5, <1>6, <1>7 DEF Next

(* Types, and a heading counter that never runs ahead of the position.      *)
THEOREM TypeCorrect == Spec => []TypeOK
<1>1. WalkTypes => TypeOK
  BY DEF WalkTypes, TypeOK
<1>2. QED
  BY <1>1, TypesInit, TypesStep, PTL DEF Spec

-----------------------------------------------------------------------------
LEMMA MeaningStart == AtStart => Meaning
<1> SUFFICES ASSUME AtStart PROVE Meaning
  OBVIOUS
<1>1. Heading(section, 1) = {} /\ ~ OneOpen(section, 0) /\ ~ TwoOpen(section, 0)
  BY DEF Heading, OneOpen, TwoOpen
<1>2. QED
  BY <1>1 DEF AtStart, Meaning, Owner

LEMMA MeaningStep == WalkTypes /\ Meaning /\ [Next]_vars => Meaning'
<1> SUFFICES ASSUME WalkTypes, Meaning, [Next]_vars
             PROVE  Meaning'
  OBVIOUS
<1> DEFINE k == pos + 1
<1>0. k \in Nat \ {0} /\ k - 1 = pos /\ headingsSinceMarker \in Nat
  BY DEF WalkTypes
<1>1. CASE PassMarker
  <2>1. pos' = k /\ section' = section /\ default' = default /\ IsMarker(section, k) /\ ~ IsForm(section, k)
    BY <1>1, Passed DEF PassMarker, IsMarker, IsForm
  <2>2. /\ headingsSinceMarker' = 0
        /\ currentIDs' = IF headingsSinceMarker >= 2 THEN default ELSE currentIDs
    BY <1>1 DEF PassMarker
  <2>3. /\ ~ OneOpen(section, k) /\ ~ TwoOpen(section, k)
        /\ ClosesSplitBlock(section, k) <=> headingsSinceMarker >= 2
    BY <1>0, <2>1, BlockStep DEF Meaning
  <2>4. CASE headingsSinceMarker >= 2
    <3>1. Heading(section, k + 1) = {}
      BY <1>0, <2>3, <2>4, HeadingStep
    <3>2. QED
      BY <2>1, <2>2, <2>3, <2>4, <3>1 DEF Meaning, Owner
  <2>5. CASE ~ (headingsSinceMarker >= 2)
    <3>1. Heading(section, k + 1) = Heading(section, k)
      BY <1>0, <2>1, <2>3, <2>5, HeadingStep
    <3>2. Owner(section, default, k + 1) = Owner(section, default, k)
      BY <3>1 DEF Owner
    <3>3. currentIDs' = Owner(section, default, k + 1)
      BY <2>2, <2>5, <3>2 DEF Meaning
    <3>4. QED
      BY <2>1, <2>2, <2>3, <3>3 DEF Meaning
  <2>6. QED
    BY <2>4, <2>5
<1>2. CASE PassForm
  <2>1. pos' = k /\ section' = section /\ default' = default /\ IsForm(section, k)
    BY <1>2, Passed DEF PassForm, IsForm
  <2>2. headingsSinceMarker' = headingsSinceMarker + 1 /\ currentIDs' = section[k].ids
    BY <1>2 DEF PassForm
  <2>3. Heading(section, k + 1) = {k}
    BY <1>0, <2>1, HeadingStep
  <2>4. OneOpen(section, k) /\ (TwoOpen(section, k) <=> OneOpen(section, pos))
    BY <1>0, <2>1, BlockStep
  <2>5. Owner(section, default, k + 1) = section[k].ids
    BY <2>3 DEF Owner
  <2>6. QED
    BY <1>0, <2>1, <2>2, <2>4, <2>5 DEF Meaning
<1>3. ASSUME Passes("entry"), UNCHANGED <<currentIDs, headingsSinceMarker>>
      PROVE  Meaning'
  <2>1. /\ pos' = k /\ section' = section /\ default' = default
        /\ ~ IsForm(section, k) /\ ~ IsMarker(section, k)
    BY <1>3, Passed DEF IsForm, IsMarker
  <2>2. Heading(section, k + 1) = Heading(section, k)
    BY <1>0, <2>1, HeadingStep DEF ClosesSplitBlock
  <2>3. /\ OneOpen(section, k) <=> OneOpen(section, pos)
        /\ TwoOpen(section, k) <=> TwoOpen(section, pos)
    BY <1>0, <2>1, BlockStep
  <2>4. Owner(section, default, k + 1) = Owner(section, default, k)
    BY <2>2 DEF Owner
  <2>5. QED
    BY <1>3, <2>1, <2>3, <2>4 DEF Meaning
<1>4. CASE ReportEntry
  BY <1>3, <1>4 DEF ReportEntry
<1>5. CASE SkipEntry
  BY <1>3, <1>5 DEF SkipEntry
<1>6. CASE TakeEntry
  BY <1>3, <1>6 DEF TakeEntry
<1>7. CASE Finish
  BY <1>7 DEF Finish, Meaning
<1>8. CASE UNCHANGED vars
  BY <1>8 DEF vars, Meaning
<1>9. QED
  BY <1>1, <1>2, <1>4, <1>5, <1>6, <1>7, <1>8 DEF Next

-----------------------------------------------------------------------------
\* A step leaves the rows of the entries passed alone.
LEMMA RowsKept ==
    ASSUME WalkTypes, [Next]_vars, NEW i \in 1 .. pos
    PROVE  Learners(i)' = Learners(i) /\ section' = section /\ default' = default
<1>1. CASE TakeEntry
  <2>1. PICK ids : rows' = rows \cup (WithMegas(ids) \X {pos + 1})
    BY <1>1 DEF TakeEntry
  <2>2. \A m : <<m, i>> \in rows' <=> <<m, i>> \in rows
    BY <2>1 DEF WalkTypes
  <2>3. section' = section /\ default' = default
    BY <1>1 DEF TakeEntry, Passes
  <2>4. QED
    BY <2>2, <2>3 DEF Learners
<1>2. CASE ~ TakeEntry
  <2>1. rows' = rows /\ section' = section /\ default' = default
    BY <1>2 DEF Next, PassMarker, PassForm, ReportEntry, SkipEntry, Finish, Passes, vars
  <2>2. QED
    BY <2>1 DEF Learners
<1>3. QED
  BY <1>1, <1>2

\* No row is there yet for the entry a step is about to pass; then its rows
\* are the ones taken for it.
LEMMA RowsOfNext ==
    ASSUME WalkTypes, NEW ids \in SUBSET Mons
    PROVE  /\ Learners(pos + 1) = {}
           /\ rows' = rows \cup (WithMegas(ids) \X {pos + 1}) =>
                {m \in Mons : <<m, pos + 1>> \in rows'} = WithMegas(ids)
<1>1. \A m : <<m, pos + 1>> \notin rows
  BY DEF WalkTypes
<1>2. WithMegas(ids) \in SUBSET Mons
  BY MegasType
<1>3. QED
  BY <1>1, <1>2 DEF Learners

\* Whom the entry at the next position belongs to, and what a step makes of it.
LEMMA NextEntry ==
    ASSUME WalkTypes, Passes("entry"), ReportEntry \/ SkipEntry \/ TakeEntry,
           NEW ids, ids = IF section[pos + 1].tag = Untagged
                          THEN currentIDs ELSE section[pos + 1].tag
    PROVE  /\ section[pos + 1].tag # Malformed =>
                 {m \in Mons : <<m, pos + 1>> \in rows'} = WithMegas(ids)
           /\ {m \in Mons : <<m, pos + 1>> \in rows'} = {} =>
                 pos + 1 \in unresolved' \/ sawEmptySkip'
<1> DEFINE tag == section[pos + 1].tag
           learners == {m \in Mons : <<m, pos + 1>> \in rows'}
<1>1. tag \in Labels \cup {Untagged, Malformed}
  BY Passed
<1>2. WithMegas({}) = {}
  BY DEF WithMegas
<1>3. CASE ReportEntry
  <2>1. tag \in {Malformed, {}} /\ rows' = rows /\ unresolved' = unresolved \cup {pos + 1}
    BY <1>3 DEF ReportEntry
  <2>2. learners = {}
    BY <2>1, RowsOfNext DEF Learners
  <2>3. tag # Malformed => ids = {}
    BY <2>1, UntaggedAssumption
  <2>4. QED
    BY <1>2, <2>1, <2>2, <2>3
<1>4. CASE SkipEntry
  <2>1. tag = Untagged /\ currentIDs = {} /\ rows' = rows /\ sawEmptySkip'
    BY <1>4 DEF SkipEntry
  <2>2. learners = {}
    BY <2>1, RowsOfNext DEF Learners
  <2>3. QED
    BY <1>2, <2>1, <2>2
<1>5. CASE TakeEntry
  <2>1. /\ tag # Malformed /\ ids # {}
        /\ rows' = rows \cup (WithMegas(ids) \X {pos + 1})
    BY <1>5 DEF TakeEntry
  <2>2. ids \in SUBSET Mons
    BY <1>1, <2>1, LabelsAssumption DEF WalkTypes
  <2>3. learners = WithMegas(ids) /\ ids \subseteq WithMegas(ids)
    BY <2>1, <2>2, RowsOfNext, MegasType
  <2>4. QED
    BY <2>1, <2>3
<1>6. QED
  BY <1>3, <1>4, <1>5

\* The kinds of steps: past a heading or marker, past an entry, or in place.
LEMMA StepKinds ==
    ASSUME WalkTypes, [Next]_vars
    PROVE  \/ Passes("marker") \/ Passes("form")
           \/ Passes("entry") /\ (ReportEntry \/ SkipEntry \/ TakeEntry)
           \/ pos' = pos
  BY DEF Next, PassMarker, PassForm, ReportEntry, SkipEntry, TakeEntry, Finish, vars

LEMMA AttributionStep ==
    ASSUME WalkTypes, Meaning, Attribution, [Next]_vars
    PROVE  Attribution'
<1> DEFINE Named(i) == IF section[i].tag = Untagged
                       THEN Owner(section, default, i) ELSE section[i].tag
<1>1. section' = section /\ default' = default
  BY DEF Next, PassMarker, PassForm, ReportEntry, SkipEntry, TakeEntry, Finish, Passes, vars
<1>2. ASSUME NEW i \in 1 .. pos, section[i].kind = "entry", section[i].tag # Malformed
      PROVE  Learners(i)' = WithMegas(Named(i))
  BY <1>2, RowsKept DEF Attribution
<1>3. ASSUME NEW k, k = pos + 1, pos' = k, section[k].kind = "entry", section[k].tag # Malformed
      PROVE  Learners(k)' = WithMegas(Named(k))
  <2>1. Passes("entry") /\ (ReportEntry \/ SkipEntry \/ TakeEntry)
    BY <1>3, StepKinds DEF Passes, WalkTypes
  <2>2. Named(k) = IF section[k].tag = Untagged THEN currentIDs ELSE section[k].tag
    BY <1>3 DEF Meaning
  <2>3. {m \in Mons : <<m, k>> \in rows'} = WithMegas(Named(k))
    BY <1>3, <2>1, <2>2, NextEntry
  <2>4. QED
    BY <2>3 DEF Learners
<1>4. pos' = pos \/ pos' = pos + 1
  BY StepKinds DEF Passes
<1>5. \A i \in 1 .. pos' : i \in 1 .. pos \/ (i = pos + 1 /\ pos' = i)
  <2>1. pos \in Nat
    BY DEF WalkTypes
  <2>2. QED
    BY <1>4, <2>1
<1>6. \A i \in 1 .. pos' : section[i].kind = "entry" /\ section[i].tag # Malformed =>
        Learners(i)' = WithMegas(Named(i))
  <2> TAKE i \in 1 .. pos'
  <2>1. CASE i \in 1 .. pos
    BY <1>2, <2>1
  <2>2. CASE i = pos + 1 /\ pos' = i
    BY <1>3, <2>2
  <2>3. QED
    BY <1>5, <2>1, <2>2
<1>7. QED
  BY <1>1, <1>6 DEF Attribution

LEMMA AccountedStep ==
    ASSUME WalkTypes, Accounted, [Next]_vars
    PROVE  Accounted'
<1>1. section' = section /\ default' = default
  BY DEF Next, PassMarker, PassForm, ReportEntry, SkipEntry, TakeEntry, Finish, Passes, vars
<1>2. unresolved \subseteq unresolved' /\ (sawEmptySkip => sawEmptySkip')
  BY DEF Next, PassMarker, PassForm, ReportEntry, SkipEntry, TakeEntry, Finish, vars
<1>3. ASSUME NEW i \in 1 .. pos, section[i].kind = "entry", Learners(i)' = {}
      PROVE  i \in unresolved' \/ sawEmptySkip'
  <2>1. Learners(i) = {}
    BY <1>3, RowsKept
  <2>2. QED
    BY <1>2, <1>3, <2>1 DEF Accounted
<1>4. ASSUME NEW k, k = pos + 1, pos' = k, section[k].kind = "entry", Learners(k)' = {}
      PROVE  k \in unresolved' \/ sawEmptySkip'
  <2>1. Passes("entry") /\ (ReportEntry \/ SkipEntry \/ TakeEntry)
    BY <1>4, StepKinds DEF Passes, WalkTypes
  <2>2. {m \in Mons : <<m, k>> \in rows'} = {}
    BY <1>4 DEF Learners
  <2>3. QED
    BY <1>4, <2>1, <2>2, NextEntry
<1>5. pos' = pos \/ pos' = pos + 1
  BY StepKinds DEF Passes
<1>6. \A i \in 1 .. pos' : i \in 1 .. pos \/ (i = pos + 1 /\ pos' = i)
  <2>1. pos \in Nat
    BY DEF WalkTypes
  <2>2. QED
    BY <1>5, <2>1
<1>7. \A i \in 1 .. pos' : section[i].kind = "entry" /\ Learners(i)' = {} =>
        i \in unresolved' \/ sawEmptySkip'
  <2> TAKE i \in 1 .. pos'
  <2>1. CASE i \in 1 .. pos
    BY <1>3, <2>1
  <2>2. CASE i = pos + 1 /\ pos' = i
    BY <1>4, <2>2
  <2>3. QED
    BY <1>6, <2>1, <2>2
<1>8. done' => pos' = Len(section) /\ (sawEmptySkip' => 0 \in unresolved')
  <2>1. CASE Finish
    BY <2>1 DEF Finish
  <2>2. CASE UNCHANGED vars
    BY <2>2 DEF vars, Accounted
  <2>3. ASSUME NEW kind, Passes(kind) PROVE ~ done'
    BY <2>3, Passed DEF Accounted, WalkTypes
  <2>4. QED
    BY <2>1, <2>2, <2>3 DEF Next, PassMarker, PassForm, ReportEntry, SkipEntry, TakeEntry
<1>9. QED
  BY <1>1, <1>7, <1>8 DEF Accounted

WalkInv == WalkTypes /\ Meaning /\ Attribution /\ Accounted

LEMMA WalkStarts == WalkTypes /\ AtStart => WalkInv
<1>1. AtStart => Attribution /\ Accounted
  BY DEF AtStart, Attribution, Accounted
<1>2. QED
  BY <1>1, MeaningStart DEF WalkInv

LEMMA WalkSteps == WalkInv /\ [Next]_vars => WalkInv'
  BY TypesStep, MeaningStep, AttributionStep, AccountedStep DEF WalkInv

LEMMA WalkDropsNothing == WalkInv => NothingDropped
<1> SUFFICES ASSUME WalkInv, done, NEW i \in 1 .. Len(section),
                    section[i].kind = "entry", Learners(i) = {}
             PROVE  unresolved \cap {0, i} # {}
  BY DEF NothingDropped
<1>1. i \in unresolved \/ 0 \in unresolved
  BY DEF WalkInv, Accounted
<1>2. QED
  BY <1>1

LEMMA WalkInvariant == Spec => []WalkInv
<1>1. Init => WalkInv
  BY TypesInit, WalkStarts DEF Init
<1>2. QED
  BY <1>1, WalkSteps, PTL DEF Spec

(* Every entry passed belongs to whom the whole section says, in every      *)
(* section of every species.                                                *)
THEOREM AttributedAsRead == Spec => []Attribution
<1>1. WalkInv => Attribution
  BY DEF WalkInv
<1>2. QED
  BY <1>1, WalkInvariant, PTL

(* When the walk is over no entry without a row is missing from the report. *)
THEOREM NothingLost == Spec => []NothingDropped
  BY WalkInvariant, WalkDropsNothing, PTL

-----------------------------------------------------------------------------
(* The pages                                                                 *)

\* The section walked is one of a page.
OfPage ==
    \E p \in Pages : \E items \in p.sections :
        page = [species |-> p.species, pass |-> p.pass, groups |-> p.groups,
                items |-> items]

LEMMA PageFacts ==
    ASSUME OfPage
    PROVE  /\ IsSpecies(page.species)
           /\ Len(page.items) \in Nat /\ DOMAIN page.items = 1 .. Len(page.items)
           /\ \A i \in 1 .. Len(page.items) : page.items[i].kind \in {"form", "marker", "entry"}
           /\ Legends =>
                /\ defaultIDs(page.species) \in SUBSET Mons
                /\ \A i \in 1 .. Len(page.items) :
                     /\ page.items[i].kind = "form" =>
                          resolveFormMarker(page.species, page.items[i].label) \in Labels
                     /\ page.items[i].kind = "entry"
                        /\ page.items[i].tag \notin {Untagged, Malformed} =>
                          resolveFormMarker(page.species, page.items[i].tag) \in Labels
<1>0. PICK p \in Pages : \E items \in p.sections :
          page = [species |-> p.species, pass |-> p.pass, groups |-> p.groups,
                  items |-> items]
  BY DEF OfPage
<1>1. PICK items \in p.sections :
          page = [species |-> p.species, pass |-> p.pass, groups |-> p.groups,
                  items |-> items]
  BY <1>0
<1>2. page.species = p.species /\ page.pass = p.pass /\ page.items = items
  BY <1>1
<1>3. IsSpecies(p.species)
  BY PagesAssumption DEF IsSpecies
<1>4. /\ Len(items) \in Nat /\ DOMAIN items = 1 .. Len(items)
      /\ \A o \in Words(items) : o.kind \in {"form", "marker", "entry"}
  BY PagesAssumption
<1>5. \A i \in 1 .. Len(items) : items[i] \in Words(items)
  BY <1>4 DEF Words
<1>6. p.pass = "legends" =>
             /\ defaultIDs(p.species) \in SUBSET Mons
             /\ \A o \in Words(items) :
                  /\ o.kind = "form" => resolveFormMarker(p.species, o.label) \in Labels
                  /\ o.kind = "entry" /\ o.tag \notin {Untagged, Malformed} =>
                         resolveFormMarker(p.species, o.tag) \in Labels
  BY PagesAssumption
<1>7. Legends <=> p.pass = "legends"
  BY <1>2 DEF Legends
<1>8. QED
  BY <1>2, <1>3, <1>4, <1>5, <1>6, <1>7

\* The Legends walk sees a section of occurrences, and reads its labels as meant.
LEMMA ReadIs ==
    ASSUME OfPage, Legends
    PROVE  /\ Read(page, resolveFormMarker) \in Seq(Occurrence)
           /\ Read(page, resolveFormMarker) = Read(page, Meant)
<1> DEFINE N == Len(page.items)
           Seen(o) ==
             CASE o.kind = "form" ->
                    [kind |-> "form", ids |-> resolveFormMarker(page.species, o.label)]
               [] o.kind = "marker" -> [kind |-> "marker"]
               [] o.kind = "entry" ->
                    [kind |-> "entry", tag |-> IF o.tag \in {Untagged, Malformed} THEN o.tag
                                               ELSE resolveFormMarker(page.species, o.tag)]
           Named(o) ==
             CASE o.kind = "form" -> [kind |-> "form", ids |-> Meant(page.species, o.label)]
               [] o.kind = "marker" -> [kind |-> "marker"]
               [] o.kind = "entry" ->
                    [kind |-> "entry", tag |-> IF o.tag \in {Untagged, Malformed} THEN o.tag
                                               ELSE Meant(page.species, o.tag)]
<1>1. /\ N \in Nat /\ DOMAIN page.items = 1 .. N /\ IsSpecies(page.species)
      /\ \A i \in 1 .. N : page.items[i].kind \in {"form", "marker", "entry"}
  BY PageFacts
<1>2. /\ Read(page, resolveFormMarker) = [i \in 1 .. N |-> Seen(page.items[i])]
      /\ Read(page, Meant) = [i \in 1 .. N |-> Named(page.items[i])]
  BY <1>1 DEF Read
<1>3. ASSUME NEW i \in 1 .. N
      PROVE  Seen(page.items[i]) = Named(page.items[i])
  <2>1. /\ resolveFormMarker(page.species, page.items[i].label) =
             Meant(page.species, page.items[i].label)
        /\ resolveFormMarker(page.species, page.items[i].tag) =
             Meant(page.species, page.items[i].tag)
    BY <1>1, MarkerMeans
  <2>2. QED
    BY <2>1, Zenon
<1>4. ASSUME NEW i \in 1 .. N
      PROVE  Seen(page.items[i]) \in Occurrence
  <2>1. page.items[i].kind \in {"form", "marker", "entry"}
    BY <1>1
  <2>2. CASE page.items[i].kind = "form"
    <3>1. resolveFormMarker(page.species, page.items[i].label) \in Labels
      BY <2>2, PageFacts
    <3>2. Seen(page.items[i]) =
            [kind |-> "form", ids |-> resolveFormMarker(page.species, page.items[i].label)]
      BY <2>2
    <3> HIDE DEF Seen
    <3>3. QED
      BY <3>1, <3>2 DEF Occurrence, Form
  <2>3. CASE page.items[i].kind = "marker"
    BY <2>3 DEF Occurrence, Marker
  <2>4. CASE page.items[i].kind = "entry"
    <3> DEFINE tag == IF page.items[i].tag \in {Untagged, Malformed} THEN page.items[i].tag
                      ELSE resolveFormMarker(page.species, page.items[i].tag)
    <3>1. tag \in Labels \cup {Untagged, Malformed}
      BY <2>4, PageFacts
    <3>2. Seen(page.items[i]) = [kind |-> "entry", tag |-> tag]
      BY <2>4
    <3> HIDE DEF tag, Seen
    <3>3. QED
      BY <3>1, <3>2 DEF Occurrence, LearnEntry
  <2>5. QED
    BY <2>1, <2>2, <2>3, <2>4
<1> HIDE DEF Seen, Named
<1>5. Read(page, resolveFormMarker) \in [1 .. N -> Occurrence]
  BY <1>2, <1>4
<1>6. Read(page, resolveFormMarker) \in Seq(Occurrence)
  BY <1>1, <1>5
<1>7. QED
  BY <1>2, <1>3, <1>6

\* What the Legends walk works on: a section read, or none.
Reads == section = IF Legends THEN Read(page, resolveFormMarker) ELSE <<>>

\* The Legends walk starts and goes on as the walk over any section does.
LEMMA PageWalkStarts == PageInit => OfPage /\ Reads /\ WalkInv
<1> SUFFICES ASSUME PageInit PROVE OfPage /\ Reads /\ WalkInv
  OBVIOUS
<1>1. OfPage /\ Reads /\ AtStart /\ default = IF Legends THEN defaultIDs(page.species) ELSE {}
  BY DEF PageInit, OfPage, Reads
<1>2. section \in Seq(Occurrence) /\ default \in SUBSET Mons
  <2>1. CASE Legends
    BY <1>1, <2>1, ReadIs, PageFacts DEF Reads
  <2>2. CASE ~ Legends
    BY <1>1, <2>2 DEF Reads
  <2>3. QED
    BY <2>1, <2>2
<1>3. QED
  BY <1>1, <1>2, TypesStart, WalkStarts

LEMMA PageWalkSteps ==
    OfPage /\ Reads /\ WalkInv /\ [PageNext]_<<vars, pageVars>> => (OfPage /\ Reads /\ WalkInv)'
<1> SUFFICES ASSUME OfPage, Reads, WalkInv, [PageNext]_<<vars, pageVars>>
             PROVE  (OfPage /\ Reads /\ WalkInv)'
  OBVIOUS
<1>1. [Next]_vars /\ page' = page
  BY DEF PageNext, MeetForm, MeetMarker, PassOver, MeetMalformed, MeetEntry, Meets, pageVars
<1>2. section' = section
  BY <1>1 DEF Next, PassMarker, PassForm, ReportEntry, SkipEntry, TakeEntry, Finish, Passes, vars
<1>3. OfPage' /\ Reads'
  BY <1>1, <1>2 DEF OfPage, Reads, Legends
<1>4. QED
  BY <1>1, <1>3, WalkSteps

-----------------------------------------------------------------------------
(* The walks over Pokedex entries and egg moves                              *)

\* The games the last marker before position i names.
MarkedGroups(i) ==
    IF LastBefore(i, "marker") = {} THEN page.groups
    ELSE UNION {page.items[m].groups : m \in LastBefore(i, "marker")}

\* Every entry passed has the rows the page names for it.
RowsAsNamed ==
    \A i \in 1 .. walk.at :
        page.items[i].kind = "entry" /\ page.items[i].tag # Malformed =>
            {r \in walk.rows : r[3] = i} = NamedIds(i) \X NamedGroups(i) \X {i}

\* What the state of the walk means after every item.
EntryInv ==
    /\ walk = [at |-> walk.at, ids |-> walk.ids, groups |-> walk.groups,
               rows |-> walk.rows, reported |-> walk.reported]
    /\ walk.at \in 0 .. Len(page.items)
    /\ Legends => walk.at = 0
    /\ walk.ids = NamedIds(walk.at + 1)
    /\ walk.groups = MarkedGroups(walk.at + 1)
    /\ \A r \in walk.rows : r[3] \in 1 .. walk.at
    /\ RowsAsNamed

\* The last item of a kind moves on only over one of that kind.
LEMMA LastStep ==
    ASSUME NEW k \in Nat \ {0}, NEW kind
    PROVE  /\ page.items[k].kind = kind => LastBefore(k + 1, kind) = {k}
           /\ page.items[k].kind # kind => LastBefore(k + 1, kind) = LastBefore(k, kind)
<1>1. ASSUME page.items[k].kind = kind PROVE LastBefore(k + 1, kind) = {k}
  <2>1. \A f \in LastBefore(k + 1, kind) : f = k
    BY <1>1 DEF LastBefore
  <2>2. k \in LastBefore(k + 1, kind)
    BY <1>1 DEF LastBefore
  <2>3. QED
    BY <2>1, <2>2
<1>2. ASSUME page.items[k].kind # kind
      PROVE  LastBefore(k + 1, kind) = LastBefore(k, kind)
  <2>1. ASSUME NEW f \in LastBefore(k + 1, kind) PROVE f \in LastBefore(k, kind)
    <3>1. f \in 1 .. k /\ page.items[f].kind = kind
      BY <2>1 DEF LastBefore
    <3>2. f # k
      BY <1>2, <3>1
    <3>3. f \in 1 .. k - 1
      BY <3>1, <3>2
    <3>4. \A g \in f + 1 .. k - 1 : page.items[g].kind # kind
      BY <2>1 DEF LastBefore
    <3>5. QED
      BY <3>1, <3>3, <3>4 DEF LastBefore
  <2>2. ASSUME NEW f \in LastBefore(k, kind) PROVE f \in LastBefore(k + 1, kind)
    <3>1. f \in 1 .. k /\ page.items[f].kind = kind
      BY <2>2 DEF LastBefore
    <3>2. ASSUME NEW g \in f + 1 .. k PROVE page.items[g].kind # kind
      BY <1>2, <2>2, <3>2 DEF LastBefore
    <3>3. QED
      BY <3>1, <3>2 DEF LastBefore
  <2>3. QED
    BY <2>1, <2>2
<1>3. QED
  BY <1>1, <1>2

\* How what the page names moves on over one item.
LEMMA NamedStep ==
    ASSUME NEW k \in Nat \ {0}
    PROVE  /\ NamedIds(k + 1) = IF page.items[k].kind = "form"
                                THEN Meant(page.species, page.items[k].label) ELSE NamedIds(k)
           /\ MarkedGroups(k + 1) = IF page.items[k].kind = "marker"
                                    THEN page.items[k].groups ELSE MarkedGroups(k)
<1>1. NamedIds(k + 1) = IF page.items[k].kind = "form"
                        THEN Meant(page.species, page.items[k].label) ELSE NamedIds(k)
  <2>1. CASE page.items[k].kind = "form"
    <3>1. LastBefore(k + 1, "form") = {k}
      BY <2>1, LastStep
    <3>2. QED
      BY <2>1, <3>1 DEF NamedIds
  <2>2. CASE page.items[k].kind # "form"
    <3>1. LastBefore(k + 1, "form") = LastBefore(k, "form")
      BY <2>2, LastStep
    <3>2. QED
      BY <2>2, <3>1 DEF NamedIds
  <2>3. QED
    BY <2>1, <2>2
<1>2. MarkedGroups(k + 1) = IF page.items[k].kind = "marker"
                            THEN page.items[k].groups ELSE MarkedGroups(k)
  <2>1. CASE page.items[k].kind = "marker"
    <3>1. LastBefore(k + 1, "marker") = {k}
      BY <2>1, LastStep
    <3>2. QED
      BY <2>1, <3>1 DEF MarkedGroups
  <2>2. CASE page.items[k].kind # "marker"
    <3>1. LastBefore(k + 1, "marker") = LastBefore(k, "marker")
      BY <2>2, LastStep
    <3>2. QED
      BY <2>2, <3>1 DEF MarkedGroups
  <2>3. QED
    BY <2>1, <2>2
<1>3. QED
  BY <1>1, <1>2

LEMMA EntryStarts == OfPage /\ PageInit => EntryInv
<1> SUFFICES ASSUME OfPage, PageInit PROVE EntryInv
  OBVIOUS
<1>1. walk = [at |-> 0, ids |-> page.species.literalBase, groups |-> page.groups,
              rows |-> {}, reported |-> {}]
  BY DEF PageInit
<1>2. LastBefore(1, "form") = {} /\ LastBefore(1, "marker") = {}
  BY DEF LastBefore
<1>3. NamedIds(1) = page.species.literalBase /\ MarkedGroups(1) = page.groups
  BY <1>2 DEF NamedIds, MarkedGroups
<1>4. Len(page.items) \in Nat
  BY PageFacts
<1>5. QED
  BY <1>1, <1>3, <1>4 DEF EntryInv, RowsAsNamed

\* Past an item that leaves the rows as they are, if it is no entry to have rows.
LEMMA EntryPassed ==
    ASSUME OfPage, EntryInv, page' = page, NEW k, k = walk.at + 1, k \in 1 .. Len(page.items),
           NEW ids, NEW groups, NEW taken, NEW reported,
           walk' = [at |-> k, ids |-> ids, groups |-> groups, rows |-> taken,
                    reported |-> reported],
           ~ Legends,
           ids = NamedIds(k + 1), groups = MarkedGroups(k + 1),
           \/ taken = walk.rows /\ (page.items[k].kind = "entry" /\ page.items[k].tag # Malformed
                                     => NamedIds(k) = {})
           \/ taken = walk.rows \cup (NamedIds(k) \X NamedGroups(k) \X {k})
    PROVE  EntryInv'
<1>1. /\ walk'.at = k /\ walk'.ids = ids /\ walk'.groups = groups
      /\ walk'.rows = taken /\ walk'.reported = reported
  OBVIOUS
<1>2. k \in Nat \ {0} /\ walk.at = k - 1 /\ walk.at \in Nat
  BY PageFacts DEF EntryInv
<1>3. \A i \in Nat : /\ NamedIds(i)' = NamedIds(i) /\ MarkedGroups(i)' = MarkedGroups(i)
                     /\ NamedGroups(i)' = NamedGroups(i)
  <2>1. \A i \in Nat : NamedIds(i)' = NamedIds(i)
    BY DEF NamedIds, LastBefore
  <2>2. \A i \in Nat : MarkedGroups(i)' = MarkedGroups(i)
    BY DEF MarkedGroups, LastBefore
  <2>3. \A i \in Nat : NamedGroups(i)' = NamedGroups(i)
    BY DEF NamedGroups, LastBefore
  <2>4. QED
    BY <2>1, <2>2, <2>3
<1>4. \A r \in taken : r \in walk.rows \/ r[3] = k
  OBVIOUS
<1>5. \A r \in walk.rows : r[3] \in 1 .. k - 1
  BY <1>2 DEF EntryInv
<1>6. \A r \in taken : r[3] \in 1 .. k
  BY <1>2, <1>4, <1>5
<1>7. ASSUME NEW i \in 1 .. k - 1
      PROVE  {r \in taken : r[3] = i} = {r \in walk.rows : r[3] = i}
  <2>1. i # k
    BY <1>2
  <2>2. walk.rows \subseteq taken
    OBVIOUS
  <2>3. QED
    BY <1>4, <2>1, <2>2
<1>8. ASSUME page.items[k].kind = "entry", page.items[k].tag # Malformed
      PROVE  {r \in taken : r[3] = k} = NamedIds(k) \X NamedGroups(k) \X {k}
  <2>1. \A r \in walk.rows : r[3] # k
    BY <1>2, <1>5
  <2>2. \A r \in NamedIds(k) \X NamedGroups(k) \X {k} : r[3] = k
    OBVIOUS
  <2>3. CASE taken = walk.rows
    <3>1. NamedIds(k) \X NamedGroups(k) \X {k} \subseteq taken
      BY <1>8
    <3>2. QED
      BY <2>1, <2>2, <2>3, <3>1
  <2>4. CASE taken = walk.rows \cup (NamedIds(k) \X NamedGroups(k) \X {k})
    BY <2>1, <2>2, <2>4
  <2>5. QED
    BY <2>3, <2>4
<1>9. RowsAsNamed'
  <2>1. ASSUME NEW i \in 1 .. k, page.items[i].kind = "entry", page.items[i].tag # Malformed
        PROVE  {r \in taken : r[3] = i} = NamedIds(i) \X NamedGroups(i) \X {i}
    <3>1. CASE i = k
      BY <1>8, <2>1, <3>1
    <3>2. CASE i # k
      <4>1. i \in 1 .. k - 1 /\ i \in 1 .. walk.at
        BY <1>2, <3>2
      <4>2. {r \in walk.rows : r[3] = i} = NamedIds(i) \X NamedGroups(i) \X {i}
        BY <2>1, <4>1 DEF EntryInv, RowsAsNamed
      <4>3. QED
        BY <1>7, <4>1, <4>2
    <3>3. QED
      BY <3>1, <3>2
  <2>2. \A i \in 1 .. k : i \in Nat
    OBVIOUS
  <2>3. QED
    BY <1>1, <1>3, <2>1, <2>2 DEF RowsAsNamed
<1>10. QED
  <2>1. walk' = [at |-> walk'.at, ids |-> walk'.ids, groups |-> walk'.groups,
                 rows |-> walk'.rows, reported |-> walk'.reported]
    BY <1>1
  <2>2. k + 1 \in Nat
    BY <1>2
  <2>3. (walk.ids = NamedIds(walk.at + 1))'
    BY <1>1 DEF NamedIds, LastBefore
  <2>6. (walk.groups = MarkedGroups(walk.at + 1))'
    BY <1>1 DEF MarkedGroups, LastBefore
  <2>4. walk'.at \in 0 .. Len(page'.items) /\ ~ Legends'
    BY <1>1, <1>2 DEF Legends
  <2>5. QED
    BY <1>1, <1>6, <1>9, <2>1, <2>3, <2>4, <2>6 DEF EntryInv

\* Each of the five actions passes one item and leaves EntryInv.
LEMMA EntrySteps ==
    OfPage /\ EntryInv /\ [PageNext]_<<vars, pageVars>> => EntryInv'
<1> SUFFICES ASSUME OfPage, EntryInv, [PageNext]_<<vars, pageVars>>
             PROVE  EntryInv'
  OBVIOUS
<1> DEFINE k == walk.at + 1
           Stays(ids, groups, taken, reported) ==
             walk' = [at |-> k, ids |-> ids, groups |-> groups, rows |-> taken,
                      reported |-> reported]
<1>1. \A kind : Meets(kind) =>
        /\ ~ Legends /\ page' = page /\ k \in 1 .. Len(page.items)
        /\ k \in Nat \ {0} /\ Here = page.items[k] /\ Here.kind = kind
  BY PageFacts DEF Meets, Here, EntryInv
<1>2. walk = [at |-> walk.at, ids |-> walk.ids, groups |-> walk.groups,
              rows |-> walk.rows, reported |-> walk.reported]
  BY DEF EntryInv
<1>3. walk.ids = NamedIds(k) /\ walk.groups = MarkedGroups(k)
  BY DEF EntryInv
<1>4. CASE MeetForm
  <2> DEFINE ids == resolveFormMarker(page.species, Here.label)
             reported == Reporting(ids = {})
  <2>1. Meets("form") /\ walk' = [walk EXCEPT !.at = @ + 1, !.ids = ids, !.reported = reported]
    BY <1>4 DEF MeetForm
  <2>2. /\ ~ Legends /\ page' = page /\ k \in 1 .. Len(page.items)
        /\ k \in Nat \ {0} /\ Here = page.items[k] /\ Here.kind = "form"
    BY <1>1, <2>1
  <2>3. ids = Meant(page.species, page.items[k].label)
    BY <2>2, MarkerMeans, PageFacts
  <2>4. ids = NamedIds(k + 1) /\ walk.groups = MarkedGroups(k + 1)
    BY <1>3, <2>2, <2>3, NamedStep
  <2> HIDE DEF ids, reported
  <2>5. Stays(ids, walk.groups, walk.rows, reported)
    BY <1>2, <2>1
  <2>6. page.items[k].kind # "entry"
    BY <2>2
  <2>7. QED
    BY <2>2, <2>4, <2>5, <2>6, EntryPassed
<1>5. CASE MeetMarker
  <2> DEFINE groups == Here.groups
             reported == Reporting(Here.groups = {})
  <2>1. /\ Meets("marker")
        /\ walk' = [walk EXCEPT !.at = @ + 1, !.groups = groups, !.reported = reported]
    BY <1>5 DEF MeetMarker
  <2>2. /\ ~ Legends /\ page' = page /\ k \in 1 .. Len(page.items)
        /\ k \in Nat \ {0} /\ Here = page.items[k] /\ Here.kind = "marker"
    BY <1>1, <2>1
  <2>3. groups = MarkedGroups(k + 1) /\ walk.ids = NamedIds(k + 1)
    BY <1>3, <2>2, NamedStep
  <2> HIDE DEF groups, reported
  <2>4. Stays(walk.ids, groups, walk.rows, reported)
    BY <1>2, <2>1
  <2>5. page.items[k].kind # "entry"
    BY <2>2
  <2>6. QED
    BY <2>2, <2>3, <2>4, <2>5, EntryPassed
<1>6. ASSUME Meets("entry")
      PROVE  /\ ~ Legends /\ page' = page /\ k \in 1 .. Len(page.items)
             /\ k \in Nat \ {0} /\ Here = page.items[k] /\ Here.kind = "entry"
             /\ walk.ids = NamedIds(k + 1) /\ walk.groups = MarkedGroups(k + 1)
  <2>1. /\ ~ Legends /\ page' = page /\ k \in 1 .. Len(page.items)
        /\ k \in Nat \ {0} /\ Here = page.items[k] /\ Here.kind = "entry"
    BY <1>1, <1>6
  <2>2. QED
    BY <1>3, <2>1, NamedStep
<1>7. CASE PassOver
  <2>1. Meets("entry") /\ walk.ids = {} /\ walk' = [walk EXCEPT !.at = @ + 1]
    BY <1>7 DEF PassOver
  <2>2. Stays(walk.ids, walk.groups, walk.rows, walk.reported)
    BY <1>2, <2>1
  <2>3. NamedIds(k) = {}
    BY <1>3, <2>1
  <2>4. QED
    BY <1>6, <2>1, <2>2, <2>3, EntryPassed
<1>8. CASE MeetMalformed
  <2>1. PICK unknownMove \in BOOLEAN :
          walk' = [walk EXCEPT !.at = @ + 1, !.reported = Reporting(unknownMove)]
    BY <1>8 DEF MeetMalformed
  <2> DEFINE reported == Reporting(unknownMove)
  <2> HIDE DEF reported
  <2>2. walk' = [walk EXCEPT !.at = @ + 1, !.reported = reported]
    BY <2>1 DEF reported
  <2>3. Meets("entry") /\ Here.tag = Malformed
    BY <1>8 DEF MeetMalformed
  <2>4. Stays(walk.ids, walk.groups, walk.rows, reported)
    BY <1>2, <2>2
  <2>5. page.items[k].tag = Malformed
    BY <1>6, <2>3
  <2>6. QED
    BY <1>6, <2>3, <2>4, <2>5, EntryPassed
<1>9. CASE MeetEntry
  <2> DEFINE groups == IF page.pass = "dex" \/ Here.groups # {} THEN Here.groups
                       ELSE walk.groups
             taken == walk.rows \cup (walk.ids \X groups \X {walk.at + 1})
  <2>1. Meets("entry") /\ walk' = [walk EXCEPT !.at = @ + 1, !.rows = taken]
    BY <1>9 DEF MeetEntry
  <2>2. groups = NamedGroups(k)
    <3>1. Here = page.items[k] /\ walk.groups = MarkedGroups(k)
      BY <1>3, <1>6, <2>1
    <3>2. QED
      BY <3>1 DEF NamedGroups, MarkedGroups
  <2>3. taken = walk.rows \cup (NamedIds(k) \X NamedGroups(k) \X {k})
    BY <1>3, <2>2
  <2> HIDE DEF groups, taken
  <2>4. Stays(walk.ids, walk.groups, taken, walk.reported)
    BY <1>2, <2>1
  <2>5. QED
    BY <1>6, <2>1, <2>3, <2>4, EntryPassed
<1>10. CASE page' = page /\ walk' = walk
  <2>1. (walk.ids = NamedIds(walk.at + 1))'
    <3>1. walk.ids = NamedIds(k)
      BY <1>3
    <3>2. walk'.ids = walk.ids /\ walk'.at = walk.at
      BY <1>10
    <3>3. NamedIds(k)' = NamedIds(k)
      BY <1>10 DEF NamedIds, LastBefore
    <3>4. QED
      BY <3>1, <3>2, <3>3
  <2>2. (walk.groups = MarkedGroups(walk.at + 1))'
    BY <1>3, <1>10 DEF MarkedGroups, LastBefore
  <2>3. RowsAsNamed'
    <3>1. \A i \in Nat : NamedIds(i)' = NamedIds(i) /\ NamedGroups(i)' = NamedGroups(i)
      BY <1>10 DEF NamedIds, NamedGroups, LastBefore
    <3>2. \A i \in 1 .. walk.at : i \in Nat
      OBVIOUS
    <3>3. RowsAsNamed
      BY DEF EntryInv
    <3>4. QED
      BY <1>10, <3>1, <3>2, <3>3 DEF RowsAsNamed
  <2>4. /\ walk' = [at |-> walk'.at, ids |-> walk'.ids, groups |-> walk'.groups,
                   rows |-> walk'.rows, reported |-> walk'.reported]
        /\ walk'.at \in 0 .. Len(page'.items)
        /\ Legends' => walk'.at = 0
        /\ \A r \in walk'.rows : r[3] \in 1 .. walk'.at
    BY <1>10 DEF EntryInv, Legends
  <2>5. QED
    BY <2>1, <2>2, <2>3, <2>4 DEF EntryInv
<1>11. QED
  BY <1>4, <1>5, <1>7, <1>8, <1>9, <1>10 DEF PageNext, pageVars

PageInv == OfPage /\ Reads /\ WalkInv /\ EntryInv

LEMMA PageInvariant == PageSpec => []PageInv
<1>1. PageInit => PageInv
  BY PageWalkStarts, EntryStarts DEF PageInv
<1>2. PageInv /\ [PageNext]_<<vars, pageVars>> => PageInv'
  BY PageWalkSteps, EntrySteps DEF PageInv
<1>3. QED
  BY <1>1, <1>2, PTL DEF PageSpec

(* On every page of the Legends pass each entry has the Pokemon the whole   *)
(* section says, and no entry without a row is missing from the report.     *)
THEOREM PagesAttributed == PageSpec => []Attribution /\ []NothingDropped
<1>1. PageInv => Attribution /\ NothingDropped
  BY WalkDropsNothing DEF PageInv, WalkInv
<1>2. QED
  BY <1>1, PageInvariant, PTL

(* Every entry of every page belongs to the Pokemon and the games the page  *)
(* names, whatever the order of a species' forms: the scan of               *)
(* resolveFormMarker finds what a label means, and no walk lets a heading   *)
(* or a game reach further than it should.                                  *)
THEOREM PagesReadAsNamed == PageSpec => []ReadAsNamed
<1>1. PageInv => ReadAsNamed
  <2> SUFFICES ASSUME PageInv PROVE ReadAsNamed
    OBVIOUS
  <2>1. ASSUME Legends, NEW i \in 1 .. pos,
               Read(page, Meant)[i].kind = "entry", Read(page, Meant)[i].tag # Malformed
        PROVE  Learners(i) = WithMegas(IF Read(page, Meant)[i].tag = Untagged
                                       THEN Owner(Read(page, Meant), default, i)
                                       ELSE Read(page, Meant)[i].tag)
    <3>1. section = Read(page, Meant)
      BY <2>1, ReadIs DEF PageInv, Reads
    <3>2. QED
      BY <2>1, <3>1 DEF PageInv, WalkInv, Attribution
  <2>2. ~ Legends => 1 .. pos = {}
    BY DEF PageInv, Reads, WalkInv, WalkTypes
  <2>3. RowsAsNamed
    BY DEF PageInv, EntryInv
  <2>4. QED
    BY <2>1, <2>2, <2>3 DEF ReadAsNamed, RowsAsNamed
<1>2. QED
  BY <1>1, PageInvariant, PTL
=============================================================================
