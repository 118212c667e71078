----------------------------- MODULE LegendsWalk -----------------------------
(***************************************************************************)
(* parseLegendsSection of cmd/scrape: the walk over one method section of a *)
(* species' page that decides which Pokemon a learnset entry belongs to.    *)
(* Nothing inside an entry says so: it belongs to the form heading it comes *)
(* after, unless a game marker in between closed a block that was itself    *)
(* split by form, or a tag on the entry names its Pokemon.                  *)
(*                                                                          *)
(* The section is a sequence of occurrences in document order. What         *)
(* resolveFormMarker answers for a heading or a tag is part of the          *)
(* occurrence: a set of Pokemon, empty when the label is not resolved.      *)
(***************************************************************************)
EXTENDS Naturals, Sequences

CONSTANTS
    Mons,        \* the Pokemon rows of the species
    Megas,       \* zaMegaByBase; all empty in the Arceus sections
    Labels,      \* what resolveFormMarker may answer, {} when it does not know
    Untagged,    \* the tag of an entry without one
    Malformed,   \* stands for the tag of an entry no row can be built from
    MaxLen       \* bound on the occurrences of a section

ASSUME MegasAssumption == Megas \in [Mons -> SUBSET Mons]
ASSUME LabelsAssumption == Labels \subseteq SUBSET Mons
ASSUME UntaggedAssumption ==
    /\ Untagged # Malformed
    /\ Untagged \notin Labels \cup {{}}
    /\ Malformed \notin Labels \cup {{}}
ASSUME MaxLenAssumption == MaxLen \in Nat

\* An entry is malformed if its fields do not parse or name no known move.
Form == [kind : {"form"}, ids : Labels]
Marker == [kind : {"marker"}]
LearnEntry == [kind : {"entry"}, tag : Labels \cup {Untagged, Malformed}]
Occurrence == Form \cup Marker \cup LearnEntry

VARIABLES
    section,     \* the occurrences, in document order
    default,     \* defaultIDs: the species' Pokemon, {} if it has no default
    pos,         \* how many of them the walk has passed
    currentIDs,  \* whom an untagged entry belongs to now
    headingsSinceMarker,
    rows,        \* <<Pokemon, position of the entry>> pairs built so far
    unresolved,  \* positions of the occurrences reported; 0 is the section
    sawEmptySkip,\* some untagged entry had nobody to belong to
    done

vars == <<section, default, pos, currentIDs, headingsSinceMarker, rows,
          unresolved, sawEmptySkip, done>>

TypeOK ==
    /\ section \in Seq(Occurrence)
    /\ default \in SUBSET Mons
    /\ pos \in 0 .. Len(section)
    /\ currentIDs \in SUBSET Mons
    /\ headingsSinceMarker \in 0 .. Len(section)
    /\ rows \in SUBSET (Mons \X (1 .. Len(section)))
    /\ unresolved \in SUBSET (0 .. Len(section))
    /\ sawEmptySkip \in BOOLEAN
    /\ done \in BOOLEAN

Sections == UNION {[1 .. n -> Occurrence] : n \in 0 .. MaxLen}

AtStart ==
    /\ pos = 0
    /\ currentIDs = default
    /\ headingsSinceMarker = 0
    /\ rows = {} /\ unresolved = {} /\ sawEmptySkip = FALSE /\ done = FALSE

Init == section \in Sections /\ default \in SUBSET Mons /\ AtStart

\* expandWithZAMegas: a Mega learns what the form it comes from learns.
WithMegas(ids) == ids \cup UNION {Megas[i] : i \in ids}

Passes(kind) ==
    /\ pos < Len(section)
    /\ section[pos + 1].kind = kind
    /\ pos' = pos + 1
    /\ UNCHANGED <<section, default, done>>

\* Mutant of PassMarker: a single heading does not reach over a marker.
PassMarkerResets ==
    /\ Passes("marker")
    /\ currentIDs' = IF headingsSinceMarker >= 1 THEN default ELSE currentIDs
    /\ headingsSinceMarker' = 0
    /\ UNCHANGED <<rows, unresolved, sawEmptySkip>>

\* A marker ends a block. If two or more headings split that block none of
\* them is about the next one.
PassMarker ==
    /\ Passes("marker")
    /\ currentIDs' = IF headingsSinceMarker >= 2 THEN default ELSE currentIDs
    /\ headingsSinceMarker' = 0
    /\ UNCHANGED <<rows, unresolved, sawEmptySkip>>

\* A heading that is not resolved leaves the entries after it to nobody.
PassForm ==
    /\ Passes("form")
    /\ LET ids == section[pos + 1].ids
       IN  /\ currentIDs' = ids
           /\ unresolved' = IF ids = {} THEN unresolved \cup {pos + 1} ELSE unresolved
    /\ headingsSinceMarker' = headingsSinceMarker + 1
    /\ UNCHANGED <<rows, sawEmptySkip>>

\* Malformed, of an unknown move, or tagged with a label nobody answers to.
ReportEntry ==
    /\ Passes("entry")
    /\ section[pos + 1].tag \in {Malformed, {}}
    /\ unresolved' = unresolved \cup {pos + 1}
    /\ UNCHANGED <<currentIDs, headingsSinceMarker, rows, sawEmptySkip>>

\* Mutant of SkipEntry: the skip is not remembered.
SkipEntrySilent ==
    /\ Passes("entry")
    /\ section[pos + 1].tag = Untagged
    /\ currentIDs = {}
    /\ UNCHANGED <<currentIDs, headingsSinceMarker, rows, unresolved, sawEmptySkip>>

SkipEntry ==
    /\ Passes("entry")
    /\ section[pos + 1].tag = Untagged
    /\ currentIDs = {}
    /\ sawEmptySkip' = TRUE
    /\ UNCHANGED <<currentIDs, headingsSinceMarker, rows, unresolved>>

\* The tag speaks for this entry alone and leaves currentIDs as it is.
TakeEntry ==
    /\ Passes("entry")
    /\ section[pos + 1].tag # Malformed
    /\ LET tag == section[pos + 1].tag
           targetIDs == IF tag = Untagged THEN currentIDs ELSE tag
       IN  /\ targetIDs # {}
           /\ rows' = rows \cup (WithMegas(targetIDs) \X {pos + 1})
    /\ UNCHANGED <<currentIDs, headingsSinceMarker, unresolved, sawEmptySkip>>

\* The skipped entries are reported once, for the section.
Finish ==
    /\ pos = Len(section) /\ ~ done
    /\ done' = TRUE
    /\ unresolved' = IF sawEmptySkip THEN unresolved \cup {0} ELSE unresolved
    /\ UNCHANGED <<section, default, pos, currentIDs, headingsSinceMarker, rows,
                   sawEmptySkip>>

Next == PassMarker \/ PassForm \/ ReportEntry \/ SkipEntry \/ TakeEntry \/ Finish

Spec == Init /\ [][Next]_vars

-----------------------------------------------------------------------------
(* The reference reading of a section s, which knows all of it and keeps no *)
(* state.                                                                   *)

IsForm(s, i) == s[i].kind = "form"
IsMarker(s, i) == s[i].kind = "marker"

\* No marker lies between positions i and j.
SameBlock(s, i, j) == \A k \in i .. j : ~ IsMarker(s, k)

\* The block the marker at position k closes is split by form.
ClosesSplitBlock(s, k) ==
    /\ IsMarker(s, k)
    /\ \E i \in 1 .. k - 1 : \E j \in i + 1 .. k - 1 :
         IsForm(s, i) /\ IsForm(s, j) /\ SameBlock(s, i, k - 1)

\* The headings that speak for what comes at position i: the last one before
\* it, unless a split block ended since.
Heading(s, i) ==
    {f \in 1 .. i - 1 :
        /\ IsForm(s, f)
        /\ \A j \in f + 1 .. i - 1 : ~ IsForm(s, j) /\ ~ ClosesSplitBlock(s, j)}

\* Without such a heading an entry is the default d's, if no heading
\* precedes it or a split block ended after the last one: the two cases
\* Heading leaves.
Owner(s, d, i) ==
    IF Heading(s, i) = {} THEN d ELSE UNION {s[f].ids : f \in Heading(s, i)}

Learners(i) == {m \in Mons : <<m, i>> \in rows}

(* Every entry passed is attributed to whom the whole page says: no heading *)
(* of a split block leaks past its end, a single heading reaches over the   *)
(* marker that follows it, no tag reaches the entry after it.               *)
Attribution ==
    \A i \in 1 .. pos :
        section[i].kind = "entry" /\ section[i].tag # Malformed =>
            Learners(i) = WithMegas(IF section[i].tag = Untagged
                                    THEN Owner(section, default, i) ELSE section[i].tag)

(* Nothing is dropped silently: when the walk is over an entry without a    *)
(* row has been reported, by itself or with the section's skipped entries.  *)
NothingDropped ==
    done => \A i \in 1 .. Len(section) :
        section[i].kind = "entry" /\ Learners(i) = {} => unresolved \cap {0, i} # {}
=============================================================================
