------------------------------ MODULE Versions ------------------------------
(* The index of an interview's versions, and how localStore.ts changes it:  *)
(* pure operators, which the handlers of ManuscriptStore put together.      *)
(*                                                                          *)
(* A group of versions (a "model") is one transcription or one import: an   *)
(* original file or none, and edits.  Plain containers only: those without  *)
(* tag storage.                                                             *)
EXTENDS Integers, Sequences, FiniteSets, FiniteSetsExt, Functions

CONSTANTS Texts,             \* the transcripts a file can hold
          Labels, Default,   \* names of edits; the one an edit gets unasked
          Null, Torn,        \* a missing file; one that cannot be read
          MaxModels, MaxEdits, MaxCalls   \* bounds of the exploration

ASSUME DataAssumption == /\ Null \notin Texts /\ Torn \notin Texts /\ Null # Torn
                         /\ Default \in Labels
ASSUME RoomAssumption == MaxModels \in Nat \ {0} /\ MaxEdits \in Nat \ {0, 1} /\ MaxCalls \in Nat

ModelIds == 1..MaxModels
EditIds == 1..MaxEdits

\* File names, by how they are made: from the group's number, from the edit's
\* label, or, for an original, plain the first time and dated afterwards.
Slot(i) == <<"slot", i>>
Labelled(l) == <<"label", l>>
OriginalAt(date) == <<"original", date>>
OldEdit == <<"v1", "edited">>
OldOriginal == <<"v1", "original">>
Names == {Slot(i) : i \in ModelIds} \cup {Labelled(l) : l \in Labels}
            \cup {OriginalAt(d) : d \in 0..MaxCalls} \cup {OldEdit, OldOriginal}

ASSUME NameAssumption == Null \notin Names

EditRec == [label : Labels, file : Names]
Models == [imported : BOOLEAN,               \* sourceKind
           original : Names \cup {Null},     \* the engine's output
           edits : UNION {[E -> EditRec] : E \in SUBSET EditIds},
           active : EditIds \cup {0},        \* activeEditId
           designated : BOOLEAN,             \* designatedOriginal: read-only
           fixed : EditIds \cup {0}]         \* designatedOriginalEditId
Index(D) == [models : [D -> Models], active : ModelIds \cup {0}]   \* activeModelId
IsIndex(ix) == \E D \in SUBSET ModelIds : ix \in Index(D)
ASSUME IndexAssumption == ~IsIndex(Null) /\ ~IsIndex(Torn)

NoModels == [models |-> <<>>, active |-> 0]

\* models[0] and edits[0]: both lists are kept in the order of their ids.
First(S) == IF S = {} THEN 0 ELSE Min(S)
Last(S) == IF S = {} THEN 0 ELSE Max(S)

EditFiles(m) == {m.edits[e].file : e \in DOMAIN m.edits}
ModelFiles(m) == EditFiles(m) \cup ({m.original} \ {Null})
VersionsOf(m) == DOMAIN m.edits \cup (IF m.original = Null THEN {} ELSE {0})
FileOf(m, e) == IF e = 0 THEN m.original ELSE m.edits[e].file
Files(ix) == UNION {ModelFiles(ix.models[i]) : i \in DOMAIN ix.models}
TakenLabels(ix) == UNION {LET m == ix.models[i] IN {m.edits[e].label : e \in DOMAIN m.edits} :
                             i \in DOMAIN ix.models}

\* manifestFiles accepts the index: what is active exists.
Sound(ix) == /\ ix \notin {Null, Torn}
             /\ \A i \in DOMAIN ix.models :
                   LET m == ix.models[i] IN m.active \in DOMAIN m.edits \cup {0}
             /\ DOMAIN ix.models # {} => ix.active \in DOMAIN ix.models

\* The read-only files: originals, and every edit of a designated group.
ReadOnly(ix) == UNION {LET m == ix.models[i]
                       IN ({m.original} \ {Null}) \cup IF m.designated THEN EditFiles(m) ELSE {} :
                          i \in DOMAIN ix.models}

-----------------------------------------------------------------------------
(* Changes to an index.                                                     *)

With(f, x, v) == [y \in DOMAIN f \cup {x} |-> IF y = x THEN v ELSE f[y]]
Put(ix, i, m) == [ix EXCEPT !.models[i] = m]
Focus(ix, i, focus) == IF focus THEN [ix EXCEPT !.active = i] ELSE ix

\* A new group comes into focus unless the caller declines.
NewModel(imported, original, edits, designated) ==
    [imported |-> imported, original |-> original, edits |-> edits,
     active |-> First(DOMAIN edits), designated |-> designated, fixed |-> 0]
Original(imported, n) == NewModel(imported, n, <<>>, TRUE)
OneEdit(imported, l, n) == NewModel(imported, Null, <<[label |-> l, file |-> n]>>, FALSE)
NextModel(ix) == Last(DOMAIN ix.models) + 1
AddModel(ix, m, focus) ==
    LET i == NextModel(ix)
    IN [models |-> With(ix.models, i, m),
        active |-> IF focus \/ ix.active = 0 THEN i ELSE ix.active]

NextEdit(m) == Last(DOMAIN m.edits) + 1
AddEdit(m, l, n, focus) ==
    LET e == NextEdit(m)
    IN [m EXCEPT !.edits = With(m.edits, e, [label |-> l, file |-> n]),
                 !.active = IF focus THEN e ELSE @]

\* The edit that stands for a designated group; readOriginal falls back to the
\* first one, and to the engine's output.
Pinned(m) == IF m.fixed # 0 THEN m.fixed ELSE m.active
OriginalFile(m) ==
    LET e == IF Pinned(m) \in DOMAIN m.edits THEN Pinned(m) ELSE First(DOMAIN m.edits)
    IN  IF m.designated /\ e # 0 THEN m.edits[e].file ELSE m.original

\* A copy of a read-only version is a group of its own.
ForksGroup(m) == m.designated \/ (~m.imported /\ m.original # Null /\ DOMAIN m.edits = {})

\* A group whose last file goes, goes too.
WithoutModel(ix, i) ==
    LET rest == Restrict(ix.models, DOMAIN ix.models \ {i})
    IN [models |-> rest, active |-> IF ix.active = i THEN First(DOMAIN rest) ELSE ix.active]
WithoutEdit(ix, i, e) ==
    LET m == ix.models[i]
        rest == Restrict(m.edits, DOMAIN m.edits \ {e})
        freed == m.designated /\ e = Pinned(m)
    IN IF DOMAIN rest # {}
       THEN Put(ix, i, [m EXCEPT !.edits = rest,
                                 !.active = IF @ = e THEN First(DOMAIN rest) ELSE @,
                                 !.designated = @ /\ ~freed,
                                 !.fixed = IF freed THEN 0 ELSE @])
       ELSE IF m.original # Null THEN Put(ix, i, [m EXCEPT !.edits = <<>>, !.active = 0])
       ELSE WithoutModel(ix, i)
WithoutOriginal(ix, i) ==
    IF DOMAIN ix.models[i].edits = {} THEN WithoutModel(ix, i)
    ELSE Put(ix, i, [ix.models[i] EXCEPT !.original = Null])

\* What a container migrated from the layout before groups holds.
Migrated == [models |-> <<NewModel(FALSE, OldOriginal, <<[label |-> Default, file |-> OldEdit]>>, FALSE)>>,
             active |-> 1]
=============================================================================
