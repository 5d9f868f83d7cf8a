--------------------------- MODULE DesktopProofs ---------------------------
(* Machine-checked facts about what the desktop program keeps: the texts of  *)
(* a recording in its folder (ManuscriptStore), for any texts, labels and    *)
(* number of calls, and the shell with the tunnel it owns (Desktop), for any *)
(* delays and any number of requests, outages and failures.                  *)
EXTENDS ManuscriptStore, NativeFiles, Desktop, WellFoundedInduction, SequenceTheorems, TLAPS

-----------------------------------------------------------------------------
(* Manuscript store: what is stored, and the inductive invariant.            *)

\* What is in the place of an index: nothing or half of one, or an index; what
\* is read as none.
Missing == {Null, Torn}
KnownOf(ix) == IF ix \in Missing THEN NoModels ELSE ix

\* A group has a version, one file for each, and an active edit that it has.
GoodModel(m) ==
  /\ m \in Models /\ m.active \in DOMAIN m.edits \cup {0} /\ VersionsOf(m) # {}
  /\ \A d, e \in VersionsOf(m) : FileOf(m, d) = FileOf(m, e) => d = e

\* So has an index; no file is of two groups, and a slot is of its own group.
GoodIndex(ix) ==
  /\ IsIndex(ix) /\ ix.active \in DOMAIN ix.models \cup {0} /\ (DOMAIN ix.models # {} => ix.active # 0)
  /\ \A i \in DOMAIN ix.models : GoodModel(ix.models[i])
  /\ \A i, j \in DOMAIN ix.models : \A n \in ModelFiles(ix.models[i]) \cap ModelFiles(ix.models[j]) : i = j
  /\ \A i \in DOMAIN ix.models, k \in ModelIds : Slot(k) \in ModelFiles(ix.models[i]) => k = i

\* All texts of an index can be read.
Whole(ix, f) == \A n \in Files(ix) : f[n] \in Texts

\* A plan fits the index ix that a call has read: one file more or one less, and
\* a file that ix has is written only with its own text or as a save does.
Fitting(p, ix, was) ==
  /\ IsPlan(p) /\ GoodIndex(p.index)
  /\ Files(p.index) = (Files(ix) \ {p.drop}) \cup ({p.write} \ {Null})
  /\ p.write # Null =>
       /\ p.drop = Null /\ p.text \in Texts
       /\ p.write \in Files(ix) => was \in Texts
            /\ (p.text = was \/ (p.index = ix /\ p.write \notin ReadOnly(ix)))
  /\ p.drop # Null => p.drop \in Files(ix)
  /\ p.tidy => p.write # Null /\ Files(ix) # {}

\* The index a call has read, and the files as they were.
Old == IF pc \in {"write", "keep"} THEN Recovered ELSE previous
Begun == pc \notin {"idle", "tidy"}
Before == IF plan.write = Null THEN file ELSE [file EXCEPT ![plan.write] = before]

\* What is stored is good, and who comes first finds all texts of his index.
IndexInv == \A ix \in {canonical, backup, swap, previous} : ix \in Missing \/ GoodIndex(ix)
Steady(f) == /\ canonical \notin Missing => Whole(canonical, f)
             /\ canonical \in Missing /\ backup \notin Missing => Whole(backup, f)
\* What holds of the plan under way: the index is good in all of its steps, and
\* until it is published what stands for the old one is at hand.
PlanInv ==
  /\ GoodIndex(plan.index)
  /\ pc \in {"idle", "write", "keep", "tidy"} => Steady(file)
  /\ pc = "tidy" => plan.write # Null /\ Steady(Before)
  /\ Begun => Fitting(plan, KnownOf(Old), before) /\ Old # Torn
  /\ pc = "write" => plan.write # Null /\ before = file[plan.write]
  /\ Begun /\ pc # "write" /\ plan.write # Null => file[plan.write] = plan.text
  /\ pc \in {"publish", "restore", "drop", "undrop"} =>
       /\ Whole(KnownOf(previous), file)
       /\ previous # Null => backup = previous
       /\ previous = Null => canonical = Null /\ backup = Null /\ swap = Null
  /\ pc = "publish" => canonical \in Missing \cup {previous}
  /\ pc = "restore" => previous # Null /\ canonical \in Missing \cup {previous, plan.index}
  /\ pc \in {"drop", "undrop"} => plan.drop # Null /\ canonical = plan.index
\* The inductive invariant.
IInv == TypeOK /\ IndexInv /\ PlanInv

-----------------------------------------------------------------------------
(* Ids                                                                       *)

LEMMA LeastId ==
    ASSUME NEW S \in SUBSET Nat, S # {}
    PROVE  Min(S) \in S /\ \A y \in S : Min(S) <= y
<1> DEFINE R == {p \in Nat \X Nat : p[1] < p[2]}
<1>1. IsWellFoundedOn(R, Nat)
  BY NatLessThanWellFounded DEF OpToRel
<1>2. \A x, y \in Nat : <<y, x>> \in R <=> y < x OBVIOUS
<1> HIDE DEF R
<1>3. \E x \in S : \A y \in S : ~ (<<y, x>> \in R)
  BY <1>1, WFMin
<1>4. PICK x \in S : \A y \in S : ~ (y < x)
  BY <1>2, <1>3
<1>5. \A y \in S : x <= y
  BY <1>4
<1> QED BY <1>5 DEF Min

LEMMA GreatestId ==
    ASSUME NEW n \in Nat, NEW S \in SUBSET (1..n), S # {}
    PROVE  Max(S) \in S /\ \A y \in S : y <= Max(S)
<1> DEFINE T == {m \in Nat : \E i \in S : m = n - i}
<1>1. T \in SUBSET Nat /\ T # {}
  <2>1. PICK i \in S : TRUE OBVIOUS
  <2>2. n - i \in T OBVIOUS
  <2> QED BY <2>2
<1>2. \A i \in S : n - i \in T OBVIOUS
<1>3. Min(T) \in T /\ \A y \in T : Min(T) <= y
  <2> HIDE DEF T
  <2> QED BY <1>1, LeastId
<1>4. PICK i \in S : Min(T) = n - i BY <1>3
<1>5. \A y \in S : y <= i
  <2> HIDE DEF T
  <2> QED BY <1>2, <1>3, <1>4
<1> QED BY <1>5 DEF Max

LEMMA FirstFacts ==
    ASSUME NEW S \in SUBSET Nat
    PROVE  First(S) \in S \cup {0} /\ (S # {} => First(S) \in S)
BY LeastId DEF First

LEMMA LastFacts ==
    ASSUME NEW n \in Nat, NEW S \in SUBSET (1..n)
    PROVE  Last(S) \in 0..n /\ Last(S) + 1 \notin S
<1>1. CASE S = {} BY <1>1 DEF Last
<1>2. CASE S # {}
  <2>1. Max(S) \in S /\ \A y \in S : y <= Max(S) BY <1>2, GreatestId
  <2>2. Last(S) = Max(S) BY <1>2 DEF Last
  <2>3. Max(S) \in 1..n BY <2>1
  <2>4. Max(S) + 1 \notin S BY <2>1, <2>3
  <2> QED BY <2>2, <2>3, <2>4
<1> QED BY <1>1, <1>2

-----------------------------------------------------------------------------
(* Groups of versions                                                        *)

LEMMA ModelFacts ==
    ASSUME NEW m \in Models
    PROVE  /\ DOMAIN m.edits \subseteq EditIds
           /\ m.edits \in [DOMAIN m.edits -> EditRec]
           /\ m.original \in Names \cup {Null} /\ m.active \in EditIds \cup {0}
           /\ \A e \in DOMAIN m.edits : m.edits[e] \in EditRec /\ e \in Nat \ {0}
           /\ m.designated \in BOOLEAN /\ m.imported \in BOOLEAN
<1>1. m.edits \in UNION {[E -> EditRec] : E \in SUBSET EditIds}
  BY DEF Models
<1>2. PICK E \in SUBSET EditIds : m.edits \in [E -> EditRec]
  BY <1>1
<1>3. EditIds \subseteq Nat \ {0} BY RoomAssumption DEF EditIds
<1> QED BY <1>2, <1>3 DEF Models

LEMMA ModelMade ==
    ASSUME NEW im \in BOOLEAN, NEW or \in Names \cup {Null}, NEW E \in SUBSET EditIds,
           NEW ed \in [E -> EditRec],
           NEW ac \in EditIds \cup {0}, NEW de \in BOOLEAN, NEW fi \in EditIds \cup {0}
    PROVE  [imported |-> im, original |-> or, edits |-> ed, active |-> ac, designated |-> de, fixed |-> fi] \in Models
<1>1. ed \in UNION {[F -> EditRec] : F \in SUBSET EditIds} OBVIOUS
<1> QED BY <1>1 DEF Models

Fields == {"imported", "original", "edits", "active", "designated", "fixed"}
LEMMA ModelFields ==
    ASSUME NEW m \in Models
    PROVE  /\ DOMAIN m = Fields /\ m = [f \in Fields |-> m[f]]
           /\ m.imported \in BOOLEAN /\ m.original \in Names \cup {Null}
           /\ m.active \in EditIds \cup {0}
           /\ m.designated \in BOOLEAN /\ m.fixed \in EditIds \cup {0}
BY DEF Models, Fields

LEMMA ModelByFields ==
    ASSUME NEW m, m = [f \in Fields |-> m[f]], m.imported \in BOOLEAN, m.original \in Names \cup {Null},
           NEW E \in SUBSET EditIds, m.edits \in [E -> EditRec], m.active \in EditIds \cup {0},
           m.designated \in BOOLEAN, m.fixed \in EditIds \cup {0}
    PROVE  m \in Models
<1> DEFINE y == [imported |-> m.imported, original |-> m.original, edits |-> m.edits, active |-> m.active,
                 designated |-> m.designated, fixed |-> m.fixed]
<1>1. y \in Models
  <2>1. m.edits \in UNION {[F -> EditRec] : F \in SUBSET EditIds} OBVIOUS
  <2> QED BY <2>1 DEF Models
<1>2. DOMAIN y = Fields /\ DOMAIN m = Fields BY DEF Fields
<1>3. \A f \in Fields : m[f] = y[f]
  <2>1. /\ y.imported = m.imported /\ y.original = m.original /\ y.edits = m.edits
        /\ y.active = m.active
        /\ y.designated = m.designated /\ y.fixed = m.fixed
    OBVIOUS
  <2> HIDE DEF y
  <2> QED BY <2>1 DEF Fields
<1>4. y = [f \in Fields |-> y[f]] BY DEF Fields
<1> HIDE DEF y
<1>5. m = y BY <1>2, <1>3, <1>4
<1> QED BY <1>1, <1>5

LEMMA FilesOfModel ==
    ASSUME NEW m \in Models
    PROVE  /\ ModelFiles(m) = {FileOf(m, e) : e \in VersionsOf(m)}
           /\ ModelFiles(m) \subseteq Names
           /\ VersionsOf(m) \subseteq EditIds \cup {0}
<1>1. \A e \in DOMAIN m.edits : e # 0 /\ e \in EditIds /\ m.edits[e].file \in Names
  BY ModelFacts DEF EditRec
<1>2. EditFiles(m) = {FileOf(m, e) : e \in DOMAIN m.edits}
  BY <1>1 DEF EditFiles, FileOf
<1>3. CASE m.original = Null
  <2>1. ModelFiles(m) = EditFiles(m) /\ VersionsOf(m) = DOMAIN m.edits
    BY <1>3 DEF ModelFiles, VersionsOf
  <2> QED BY <1>1, <1>2, <2>1 DEF EditFiles
<1>4. CASE m.original # Null
  <2>1. ModelFiles(m) = EditFiles(m) \cup {m.original} /\ VersionsOf(m) = DOMAIN m.edits \cup {0}
    BY <1>4 DEF ModelFiles, VersionsOf
  <2>2. FileOf(m, 0) = m.original BY DEF FileOf
  <2>3. m.original \in Names BY <1>4, ModelFacts
  <2> QED BY <1>1, <1>2, <2>1, <2>2, <2>3 DEF EditFiles
<1> QED BY <1>3, <1>4

MadeOf(m, or, E, ed) ==
  /\ m \in Models /\ m.active \in E \cup {0} /\ m.original = or /\ m.edits = ed
  /\ VersionsOf(m) = E \cup (IF or = Null THEN {} ELSE {0})

LEMMA NewModelFacts ==
    ASSUME NEW im \in BOOLEAN, NEW or \in Names \cup {Null}, NEW E \in SUBSET EditIds,
           NEW ed \in [E -> EditRec],
           NEW de \in BOOLEAN
    PROVE  MadeOf(NewModel(im, or, ed, de), or, E, ed)
<1> DEFINE ac == First(DOMAIN ed)
           m == NewModel(im, or, ed, de)
<1>1. ac \in E \cup {0}
  <2>1. DOMAIN ed = E /\ E \in SUBSET Nat BY RoomAssumption DEF EditIds
  <2> QED BY <2>1, FirstFacts
<1>2. m = [imported |-> im, original |-> or, edits |-> ed, active |-> ac, designated |-> de, fixed |-> 0]
  BY DEF NewModel
<1> HIDE DEF ac
<1>3. [imported |-> im, original |-> or, edits |-> ed, active |-> ac, designated |-> de, fixed |-> 0] \in Models
  <2>1. ac \in EditIds \cup {0} /\ 0 \in EditIds \cup {0} BY <1>1
  <2> QED BY <2>1, ModelMade, Zenon
<1>4. m \in Models /\ m.original = or /\ m.edits = ed /\ m.active = ac BY <1>2, <1>3
<1> HIDE DEF m
<1>5. VersionsOf(m) = E \cup (IF or = Null THEN {} ELSE {0}) BY <1>4 DEF VersionsOf
<1> QED BY <1>1, <1>4, <1>5 DEF m, MadeOf

LEMMA OneEditFacts ==
    ASSUME NEW im \in BOOLEAN, NEW l \in Labels, NEW n \in Names
    PROVE  GoodModel(OneEdit(im, l, n)) /\ ModelFiles(OneEdit(im, l, n)) = {n}
<1> DEFINE m == OneEdit(im, l, n)
           ed == <<[label |-> l, file |-> n]>>
<1>1. ed \in [{1} -> EditRec] /\ DOMAIN ed = {1} /\ ed[1].file = n
  BY DEF EditRec
<1>2. {1} \in SUBSET EditIds BY RoomAssumption DEF EditIds
<1>3. m = NewModel(im, Null, ed, FALSE) BY DEF OneEdit
<1> HIDE DEF ed, m
<1>4. m \in Models /\ m.active \in {1} \cup {0} /\ m.original = Null /\ m.edits = ed
      /\ VersionsOf(m) = {1}
  <2>1. Null \in Names \cup {Null} /\ FALSE \in BOOLEAN OBVIOUS
  <2>2. MadeOf(NewModel(im, Null, ed, FALSE), Null, {1}, ed)
    BY <1>1, <1>2, <2>1, NewModelFacts, Zenon
  <2> QED BY <1>3, <2>2 DEF MadeOf
<1>5. FileOf(m, 1) = n BY <1>1, <1>4 DEF FileOf
<1>6. GoodModel(m) BY <1>1, <1>4 DEF GoodModel
<1>7. ModelFiles(m) = {n} BY <1>4, <1>5, FilesOfModel
<1> QED BY <1>6, <1>7 DEF m

LEMMA OriginalFacts ==
    ASSUME NEW im \in BOOLEAN, NEW n \in Names
    PROVE  GoodModel(Original(im, n)) /\ ModelFiles(Original(im, n)) = {n}
<1> DEFINE m == Original(im, n)
           ed == <<>>
<1>1. ed \in [{} -> EditRec] /\ DOMAIN ed = {} OBVIOUS
<1>2. {} \in SUBSET EditIds /\ TRUE \in BOOLEAN /\ n \in Names \cup {Null} /\ n # Null
  BY NameAssumption
<1>3. m = NewModel(im, n, ed, TRUE) BY DEF Original
<1> HIDE DEF ed, m
<1>4. m \in Models /\ m.active \in {} \cup {0} /\ m.original = n /\ m.edits = ed /\ VersionsOf(m) = {0}
  <2>1. MadeOf(NewModel(im, n, ed, TRUE), n, {}, ed) BY <1>1, <1>2, NewModelFacts, Zenon
  <2> QED BY <1>2, <1>3, <2>1 DEF MadeOf
<1>5. FileOf(m, 0) = n BY <1>4 DEF FileOf
<1>6. GoodModel(m) BY <1>1, <1>4 DEF GoodModel
<1>7. ModelFiles(m) = {n} BY <1>4, <1>5, FilesOfModel
<1> QED BY <1>6, <1>7 DEF m

LEMMA AddEditFacts ==
    ASSUME NEW m, GoodModel(m), NextEdit(m) \in EditIds, NEW l \in Labels,
           NEW n \in Names \ ModelFiles(m),
           NEW focus \in BOOLEAN
    PROVE  GoodModel(AddEdit(m, l, n, focus))
           /\ ModelFiles(AddEdit(m, l, n, focus)) = ModelFiles(m) \cup {n}
<1> DEFINE e == NextEdit(m)
           r == [label |-> l, file |-> n]
           ed == With(m.edits, e, r)
           ac == IF focus THEN e ELSE m.active
           m2 == AddEdit(m, l, n, focus)
           E == DOMAIN m.edits \cup {e}
<1>1. m \in Models /\ m.active \in DOMAIN m.edits \cup {0} BY DEF GoodModel
<1>2. e \notin DOMAIN m.edits /\ e # 0 /\ e \in EditIds
  <2>1. MaxEdits \in Nat /\ DOMAIN m.edits \in SUBSET (1..MaxEdits)
    BY <1>1, ModelFacts, RoomAssumption DEF EditIds
  <2>2. Last(DOMAIN m.edits) + 1 \notin DOMAIN m.edits BY <2>1, LastFacts
  <2>3. EditIds \subseteq Nat \ {0} BY RoomAssumption DEF EditIds
  <2> QED BY <2>2, <2>3 DEF NextEdit
<1>3. r \in EditRec /\ r.file = n BY DEF EditRec
<1>4. m.edits \in [DOMAIN m.edits -> EditRec] /\ DOMAIN m.edits \subseteq EditIds
  BY <1>1, ModelFacts
<1> HIDE DEF e, r
<1>5. /\ ed \in [E -> EditRec] /\ ed[e] = r
      /\ \A d \in DOMAIN m.edits : d # e => ed[d] = m.edits[d]
  <2>1. /\ With(m.edits, e, r) \in [DOMAIN m.edits \cup {e} -> EditRec] /\ With(m.edits, e, r)[e] = r
        /\ \A d \in DOMAIN m.edits : d # e => With(m.edits, e, r)[d] = m.edits[d]
    <3>1. m.edits \in [DOMAIN m.edits -> EditRec] /\ r \in EditRec BY <1>3, <1>4
    <3> QED BY <3>1 DEF With
  <2> QED BY <2>1
<1>6. m2 = [m EXCEPT !.edits = ed, !.active = ac] BY DEF AddEdit, e, r
<1> HIDE DEF ed, m2
<1>7. ac \in EditIds \cup {0} /\ ac \in E \cup {0} BY <1>1, <1>2, <1>4
<1> HIDE DEF ac
<1>8. /\ m2.original = m.original /\ m2.edits = ed /\ m2.active = ac
      /\ m2 = [imported |-> m.imported, original |-> m.original, edits |-> ed, active |-> ac,
               designated |-> m.designated, fixed |-> m.fixed]
  BY <1>1, <1>6 DEF Models
<1>9. m2 \in Models
  <2>1. E \in SUBSET EditIds BY <1>2, <1>4
  <2>2. m.imported \in BOOLEAN /\ m.original \in Names \cup {Null} /\ m.designated \in BOOLEAN
        /\ m.fixed \in EditIds \cup {0}
    BY <1>1 DEF Models
  <2> DEFINE made == [imported |-> m.imported, original |-> m.original, edits |-> ed, active |-> ac,
                      designated |-> m.designated, fixed |-> m.fixed]
  <2>3. ed \in [E -> EditRec] /\ ac \in EditIds \cup {0} BY <1>5, <1>7
  <2> HIDE DEF E
  <2>4. made \in Models BY <2>1, <2>2, <2>3, ModelMade, Zenon
  <2> QED BY <1>8, <2>4
<1>10. DOMAIN m2.edits = E BY <1>5, <1>8
<1>11. VersionsOf(m2) = VersionsOf(m) \cup {e} BY <1>8, <1>10 DEF VersionsOf
<1>12. FileOf(m2, e) = n /\ e \notin VersionsOf(m) BY <1>2, <1>3, <1>5, <1>8 DEF FileOf, VersionsOf
<1>13. \A d \in VersionsOf(m) : FileOf(m2, d) = FileOf(m, d)
  <2>1. \A d \in DOMAIN m.edits : d # 0 /\ d # e BY <1>1, <1>2, ModelFacts
  <2> QED BY <2>1, <1>5, <1>8 DEF FileOf, VersionsOf
<1>14. ModelFiles(m) = {FileOf(m, d) : d \in VersionsOf(m)}
       /\ ModelFiles(m2) = {FileOf(m2, d) : d \in VersionsOf(m2)}
  BY <1>1, <1>9, FilesOfModel
<1>15. ModelFiles(m2) = ModelFiles(m) \cup {n} BY <1>11, <1>12, <1>13, <1>14
<1>16. \A d \in VersionsOf(m) : FileOf(m, d) # n BY <1>14
<1>17. \A c, d \in VersionsOf(m2) : FileOf(m2, c) = FileOf(m2, d) => c = d
  BY <1>11, <1>12, <1>13, <1>16 DEF GoodModel
<1>18. GoodModel(m2) BY <1>7, <1>8, <1>9, <1>10, <1>11, <1>17 DEF GoodModel
<1> QED BY <1>15, <1>18 DEF m2

LEMMA SameFilesFacts ==
    ASSUME NEW m, GoodModel(m), NEW m2 \in Models, VersionsOf(m2) = VersionsOf(m),
           \A e \in VersionsOf(m) : FileOf(m2, e) = FileOf(m, e), m2.active \in DOMAIN m2.edits \cup {0}
    PROVE  GoodModel(m2) /\ ModelFiles(m2) = ModelFiles(m)
<1>1. m \in Models BY DEF GoodModel
<1>2. ModelFiles(m2) = ModelFiles(m) BY <1>1, FilesOfModel
<1> QED BY <1>2 DEF GoodModel

LEMMA FewerFacts ==
    ASSUME NEW m, GoodModel(m), NEW gone \in VersionsOf(m), NEW m2 \in Models,
           VersionsOf(m2) = VersionsOf(m) \ {gone},
           VersionsOf(m2) # {}, \A e \in VersionsOf(m2) : FileOf(m2, e) = FileOf(m, e),
           m2.active \in DOMAIN m2.edits \cup {0}
    PROVE  GoodModel(m2) /\ ModelFiles(m2) = ModelFiles(m) \ {FileOf(m, gone)}
<1>1. m \in Models BY DEF GoodModel
<1>2. /\ ModelFiles(m) = {FileOf(m, e) : e \in VersionsOf(m)}
      /\ ModelFiles(m2) = {FileOf(m2, e) : e \in VersionsOf(m2)}
  BY <1>1, FilesOfModel
<1>3. \A e \in VersionsOf(m) : FileOf(m, e) = FileOf(m, gone) => e = gone
  BY DEF GoodModel
<1>4. ModelFiles(m2) = ModelFiles(m) \ {FileOf(m, gone)} BY <1>2, <1>3
<1> QED BY <1>4 DEF GoodModel

-----------------------------------------------------------------------------
(* Indexes                                                                   *)

LEMMA IndexFacts ==
    ASSUME NEW ix, IsIndex(ix)
    PROVE  /\ DOMAIN ix.models \subseteq ModelIds /\ ModelIds \subseteq Nat \ {0}
           /\ ix.models \in [DOMAIN ix.models -> Models] /\ ix.active \in ModelIds \cup {0}
           /\ ix = [models |-> ix.models, active |-> ix.active]
           /\ ix \notin Missing
<1>1. PICK D \in SUBSET ModelIds : ix \in Index(D) BY DEF IsIndex
<1>2. ix.models \in [D -> Models] /\ ix.active \in ModelIds \cup {0}
      /\ ix = [models |-> ix.models, active |-> ix.active]
  BY <1>1 DEF Index
<1>3. ModelIds \subseteq Nat \ {0} BY RoomAssumption DEF ModelIds
<1> QED BY <1>2, <1>3, IndexAssumption DEF Missing

LEMMA IndexMade ==
    ASSUME NEW D \in SUBSET ModelIds, NEW f \in [D -> Models], NEW a \in ModelIds \cup {0}
    PROVE  IsIndex([models |-> f, active |-> a])
BY DEF IsIndex, Index

\* A group takes the place of another, or one more.
GroupFits(ix, i, m) ==
  /\ GoodModel(m)
  /\ \A j \in DOMAIN ix.models \ {i} : ModelFiles(ix.models[j]) \cap ModelFiles(m) = {}
  /\ \A k \in ModelIds : Slot(k) \in ModelFiles(m) => k = i

LEMMA GroupsFacts ==
    ASSUME NEW ix, GoodIndex(ix), NEW i \in ModelIds, NEW m, GroupFits(ix, i, m),
           NEW jx, jx = [models |-> jx.models, active |-> jx.active],
           jx.models \in [DOMAIN ix.models \cup {i} -> Models],
           jx.models[i] = m, \A j \in DOMAIN ix.models : j # i => jx.models[j] = ix.models[j],
           jx.active \in DOMAIN ix.models \cup {i}
    PROVE  GoodIndex(jx)
<1> DEFINE D == DOMAIN ix.models \cup {i}
<1>1. IsIndex(ix) BY DEF GoodIndex
<1>2. D \in SUBSET ModelIds /\ 0 \notin D BY <1>1, IndexFacts
<1>3. IsIndex(jx)
  <2>1. jx.models \in [D -> Models] /\ jx.active \in ModelIds \cup {0} BY <1>2
  <2>2. IsIndex([models |-> jx.models, active |-> jx.active]) BY <1>2, <2>1, IndexMade, Zenon
  <2> QED BY <2>2
<1>4. DOMAIN jx.models = D OBVIOUS
<1>5. \A j \in D : GoodModel(jx.models[j]) BY DEF GoodIndex, GroupFits
<1>6. \A j, k \in D : \A n \in ModelFiles(jx.models[j]) \cap ModelFiles(jx.models[k]) : j = k
  BY DEF GoodIndex, GroupFits
<1>7. \A j \in D, k \in ModelIds : Slot(k) \in ModelFiles(jx.models[j]) => k = j
  BY DEF GoodIndex, GroupFits
<1> QED BY <1>2, <1>3, <1>4, <1>5, <1>6, <1>7 DEF GoodIndex

LEMMA PutFacts ==
    ASSUME NEW ix, GoodIndex(ix), NEW i \in DOMAIN ix.models, NEW m, GroupFits(ix, i, m)
    PROVE  /\ GoodIndex(Put(ix, i, m))
           /\ Files(Put(ix, i, m)) = (Files(ix) \ ModelFiles(ix.models[i])) \cup ModelFiles(m)
           /\ DOMAIN Put(ix, i, m).models = DOMAIN ix.models
           /\ Put(ix, i, m).models[i] = m
           /\ Put(ix, i, m).active = ix.active
<1> DEFINE jx == Put(ix, i, m)
<1>1. IsIndex(ix) BY DEF GoodIndex
<1>2. /\ ix.models \in [DOMAIN ix.models -> Models] /\ ix = [models |-> ix.models, active |-> ix.active]
      /\ i \in ModelIds
  BY <1>1, IndexFacts
<1>3. m \in Models BY DEF GroupFits, GoodModel
<1>4. jx = [models |-> [ix.models EXCEPT ![i] = m], active |-> ix.active]
  BY <1>2 DEF Put
<1> HIDE DEF jx
<1>5. /\ jx.models = [ix.models EXCEPT ![i] = m] /\ jx.active = ix.active
      /\ jx = [models |-> jx.models, active |-> jx.active]
  BY <1>4
<1>6. /\ jx.models \in [DOMAIN ix.models -> Models] /\ jx.models[i] = m
      /\ \A j \in DOMAIN ix.models : j # i => jx.models[j] = ix.models[j]
  BY <1>2, <1>3, <1>5
<1>7. DOMAIN jx.models = DOMAIN ix.models BY <1>6
<1>8. DOMAIN ix.models \cup {i} = DOMAIN ix.models OBVIOUS
<1>9. jx.active \in DOMAIN ix.models BY <1>5 DEF GoodIndex
<1>10. GoodIndex(jx)
  BY <1>2, <1>5, <1>6, <1>8, <1>9, GroupsFacts
<1>11. Files(jx) = (Files(ix) \ ModelFiles(ix.models[i])) \cup ModelFiles(m)
  <2>1. \A j \in DOMAIN ix.models : \A n \in ModelFiles(ix.models[i]) : n \in ModelFiles(ix.models[j]) => i = j
    BY DEF GoodIndex
  <2> QED BY <1>6, <1>7, <2>1 DEF Files
<1> QED BY <1>5, <1>6, <1>7, <1>10, <1>11 DEF jx

LEMMA AddModelFacts ==
    ASSUME NEW ix, GoodIndex(ix), NEW m, NEW focus \in BOOLEAN, NextModel(ix) \in ModelIds,
           GroupFits(ix, NextModel(ix), m)
    PROVE  /\ GoodIndex(AddModel(ix, m, focus))
           /\ Files(AddModel(ix, m, focus)) = Files(ix) \cup ModelFiles(m)
           /\ NextModel(ix) \notin DOMAIN ix.models
<1> DEFINE i == NextModel(ix)
           jx == AddModel(ix, m, focus)
<1>1. IsIndex(ix) BY DEF GoodIndex
<1>2. ix.models \in [DOMAIN ix.models -> Models] /\ DOMAIN ix.models \in SUBSET ModelIds
  BY <1>1, IndexFacts
<1>3. m \in Models BY DEF GroupFits, GoodModel
<1>4. i \notin DOMAIN ix.models
  <2>1. MaxModels \in Nat /\ DOMAIN ix.models \in SUBSET (1..MaxModels)
    BY <1>2, RoomAssumption DEF ModelIds
  <2>2. Last(DOMAIN ix.models) + 1 \notin DOMAIN ix.models BY <2>1, LastFacts
  <2> QED BY <2>2 DEF NextModel
<1>5. jx = [models |-> With(ix.models, i, m), active |-> IF focus \/ ix.active = 0 THEN i ELSE ix.active]
  BY DEF AddModel
<1> HIDE DEF jx, i
<1>6. /\ jx.models = With(ix.models, i, m) /\ jx.active \in {i, ix.active}
      /\ (ix.active = 0 => jx.active = i)
      /\ jx = [models |-> jx.models, active |-> jx.active]
  BY <1>5
<1>7. /\ jx.models \in [DOMAIN ix.models \cup {i} -> Models] /\ jx.models[i] = m
      /\ \A j \in DOMAIN ix.models : j # i => jx.models[j] = ix.models[j]
  BY <1>2, <1>3, <1>6 DEF With
<1>8. jx.active \in DOMAIN ix.models \cup {i}
  <2>1. CASE ix.active = 0 BY <1>6, <2>1
  <2>2. CASE ix.active # 0 /\ DOMAIN ix.models # {} BY <1>6, <2>2 DEF GoodIndex
  <2>3. CASE ix.active # 0 /\ DOMAIN ix.models = {}
    BY <1>6, <2>3 DEF GoodIndex
  <2> QED BY <2>1, <2>2, <2>3
<1>9. i \in ModelIds /\ GroupFits(ix, i, m) BY DEF i
<1>10. GoodIndex(jx) BY <1>6, <1>7, <1>8, <1>9, GroupsFacts
<1>11. Files(jx) = Files(ix) \cup ModelFiles(m) BY <1>4, <1>7 DEF Files
<1> QED BY <1>4, <1>10, <1>11 DEF jx, i

LEMMA FocusFacts ==
    ASSUME NEW ix, GoodIndex(ix), NEW i \in DOMAIN ix.models, NEW focus \in BOOLEAN
    PROVE  GoodIndex(Focus(ix, i, focus)) /\ Files(Focus(ix, i, focus)) = Files(ix)
<1>1. IsIndex(ix) BY DEF GoodIndex
<1>2. /\ ix.models \in [DOMAIN ix.models -> Models] /\ DOMAIN ix.models \in SUBSET ModelIds
      /\ ix = [models |-> ix.models, active |-> ix.active]
  BY <1>1, IndexFacts
<1> DEFINE jx == [models |-> ix.models, active |-> i]
<1>3. IsIndex(jx)
  <2>1. i \in ModelIds \cup {0} BY <1>2
  <2> QED BY <1>2, <2>1, IndexMade
<1>4. GoodIndex(jx)
  <2>1. i # 0 BY <1>1, IndexFacts
  <2> QED BY <1>3, <2>1 DEF GoodIndex
<1>5. Files(jx) = Files(ix) BY DEF Files
<1>6. Focus(ix, i, focus) \in {ix, jx} BY <1>2 DEF Focus
<1> QED BY <1>4, <1>5, <1>6

LEMMA WithoutModelFacts ==
    ASSUME NEW ix, GoodIndex(ix), NEW i \in DOMAIN ix.models
    PROVE  GoodIndex(WithoutModel(ix, i))
           /\ Files(WithoutModel(ix, i)) = Files(ix) \ ModelFiles(ix.models[i])
<1> DEFINE D == DOMAIN ix.models \ {i}
           rest == Restrict(ix.models, D)
           jx == WithoutModel(ix, i)
           ac == IF ix.active = i THEN First(DOMAIN rest) ELSE ix.active
<1>1. IsIndex(ix) BY DEF GoodIndex
<1>2. ix.models \in [DOMAIN ix.models -> Models] /\ DOMAIN ix.models \in SUBSET ModelIds
      /\ ModelIds \subseteq Nat \ {0}
      /\ ix.active \in ModelIds \cup {0}
  BY <1>1, IndexFacts
<1>3. rest \in [D -> Models] /\ \A j \in D : rest[j] = ix.models[j]
  BY <1>2 DEF Restrict
<1>4. jx = [models |-> rest, active |-> ac] BY DEF WithoutModel
<1>5. ac \in D \cup {0} /\ (D # {} => ac # 0) /\ ac \in ModelIds \cup {0}
  <2>1. DOMAIN rest = D /\ D \in SUBSET Nat BY <1>2, <1>3
  <2>2. First(D) \in D \cup {0} /\ (D # {} => First(D) \in D) BY <2>1, FirstFacts
  <2>3. D # {} => DOMAIN ix.models # {} OBVIOUS
  <2> QED BY <1>2, <2>1, <2>2, <2>3 DEF GoodIndex
<1> HIDE DEF jx, rest, ac
<1>6. jx.models = rest /\ jx.active = ac BY <1>4
<1>7. IsIndex(jx)
  <2>1. D \in SUBSET ModelIds /\ ac \in ModelIds \cup {0} BY <1>2, <1>5
  <2> HIDE DEF D
  <2> QED BY <1>3, <1>4, <2>1, IndexMade, Zenon
<1>8. GoodIndex(jx) BY <1>3, <1>5, <1>6, <1>7 DEF GoodIndex
<1>9. Files(jx) = Files(ix) \ ModelFiles(ix.models[i])
  <2>1. \A j \in DOMAIN ix.models : \A n \in ModelFiles(ix.models[i]) : n \in ModelFiles(ix.models[j]) => i = j
    BY DEF GoodIndex
  <2> QED BY <1>3, <1>6, <2>1 DEF Files
<1> QED BY <1>8, <1>9 DEF jx

\* A group that loses a version fits where it was.
LEMMA FewerFits ==
    ASSUME NEW ix, GoodIndex(ix), NEW i \in DOMAIN ix.models, NEW m, GoodModel(m),
           ModelFiles(m) \subseteq ModelFiles(ix.models[i])
    PROVE  GroupFits(ix, i, m)
BY DEF GoodIndex, GroupFits

\* One version leaves an index.
Leaves(jx, ix, n) == GoodIndex(jx) /\ n \in Files(ix) /\ Files(jx) = Files(ix) \ {n}

LEMMA LastVersionLeaves ==
    ASSUME NEW ix, GoodIndex(ix), NEW i \in DOMAIN ix.models, NEW n, ModelFiles(ix.models[i]) = {n}
    PROVE  Leaves(WithoutModel(ix, i), ix, n)
<1>1. GoodIndex(WithoutModel(ix, i)) /\ Files(WithoutModel(ix, i)) = Files(ix) \ {n}
  BY WithoutModelFacts
<1>2. n \in Files(ix) BY DEF Files
<1> QED BY <1>1, <1>2 DEF Leaves

LEMMA VersionLeaves ==
    ASSUME NEW ix, GoodIndex(ix), NEW i \in DOMAIN ix.models, NEW m, GoodModel(m),
           NEW n \in ModelFiles(ix.models[i]), ModelFiles(m) = ModelFiles(ix.models[i]) \ {n}
    PROVE  Leaves(Put(ix, i, m), ix, n)
<1>1. GroupFits(ix, i, m) BY FewerFits
<1>2. GoodIndex(Put(ix, i, m)) /\ Files(Put(ix, i, m)) = (Files(ix) \ ModelFiles(ix.models[i])) \cup ModelFiles(m)
  BY <1>1, PutFacts
<1>3. ModelFiles(ix.models[i]) \subseteq Files(ix) BY DEF Files
<1> QED BY <1>2, <1>3 DEF Leaves

LEMMA WithoutOriginalFacts ==
    ASSUME NEW ix, GoodIndex(ix), NEW i \in DOMAIN ix.models, ix.models[i].original # Null
    PROVE  Leaves(WithoutOriginal(ix, i), ix, ix.models[i].original)
<1> DEFINE m == ix.models[i]
           n == m.original
           m2 == [m EXCEPT !.original = Null]
<1>1. GoodModel(m) /\ m \in Models BY DEF GoodIndex, GoodModel
<1>2. VersionsOf(m) = DOMAIN m.edits \cup {0} /\ FileOf(m, 0) = n BY DEF VersionsOf, FileOf
<1>3. \A e \in DOMAIN m.edits : e # 0 BY <1>1, ModelFacts
<1>4. ModelFiles(m) = {FileOf(m, e) : e \in VersionsOf(m)} BY <1>1, FilesOfModel
<1>5. CASE DOMAIN m.edits = {}
  <2>1. ModelFiles(m) = {n} BY <1>2, <1>4, <1>5
  <2> QED BY <1>5, <2>1, LastVersionLeaves DEF WithoutOriginal
<1>6. CASE DOMAIN m.edits # {}
  <2>1. m2 \in Models /\ m2.original = Null /\ m2.edits = m.edits /\ m2.active = m.active
    BY <1>1 DEF Models
  <2>2. WithoutOriginal(ix, i) = Put(ix, i, m2) BY <1>6 DEF WithoutOriginal
  <2> HIDE DEF m2
  <2>3. VersionsOf(m2) = DOMAIN m.edits /\ VersionsOf(m2) = VersionsOf(m) \ {0}
    BY <1>2, <1>3, <2>1 DEF VersionsOf
  <2>4. \A e \in VersionsOf(m2) : FileOf(m2, e) = FileOf(m, e) BY <1>3, <2>1, <2>3 DEF FileOf
  <2>5. 0 \in VersionsOf(m) /\ VersionsOf(m2) # {} /\ m2.active \in DOMAIN m2.edits \cup {0}
    BY <1>1, <1>2, <1>6, <2>1, <2>3 DEF GoodModel
  <2>6. GoodModel(m2) /\ ModelFiles(m2) = ModelFiles(m) \ {FileOf(m, 0)}
    BY <1>1, <2>1, <2>3, <2>4, <2>5, FewerFacts
  <2>7. n \in ModelFiles(m) BY <1>2, <1>4
  <2> HIDE DEF m, n
  <2> QED BY <1>2, <2>2, <2>6, <2>7, VersionLeaves DEF m, n
<1> QED BY <1>5, <1>6

LEMMA WithoutEditFacts ==
    ASSUME NEW ix, GoodIndex(ix), NEW i \in DOMAIN ix.models, NEW e \in DOMAIN ix.models[i].edits
    PROVE  Leaves(WithoutEdit(ix, i, e), ix, ix.models[i].edits[e].file)
<1> DEFINE m == ix.models[i]
           n == m.edits[e].file
           E == DOMAIN m.edits \ {e}
           rest == Restrict(m.edits, E)
           freed == m.designated /\ e = Pinned(m)
           ac == IF m.active = e THEN First(DOMAIN rest) ELSE m.active
           m2 == [m EXCEPT !.edits = rest, !.active = IF @ = e THEN First(DOMAIN rest) ELSE @,
                           !.designated = @ /\ ~freed, !.fixed = IF freed THEN 0 ELSE @]
           m3 == [m EXCEPT !.edits = <<>>, !.active = 0]
<1>1. GoodModel(m) /\ m \in Models BY DEF GoodIndex, GoodModel
<1>2. /\ m.edits \in [DOMAIN m.edits -> EditRec] /\ DOMAIN m.edits \subseteq EditIds
      /\ EditIds \subseteq Nat \ {0}
      /\ m.active \in DOMAIN m.edits \cup {0}
  BY <1>1, ModelFacts, RoomAssumption DEF GoodModel, EditIds
<1>3. e \in VersionsOf(m) /\ FileOf(m, e) = n BY <1>2 DEF VersionsOf, FileOf
<1>4. ModelFiles(m) = {FileOf(m, d) : d \in VersionsOf(m)} BY <1>1, FilesOfModel
<1>5. n \in ModelFiles(m) BY <1>3, <1>4
<1>6. rest \in [E -> EditRec] /\ DOMAIN rest = E /\ \A d \in E : rest[d] = m.edits[d]
  BY <1>2 DEF Restrict
<1>7. CASE E # {}
  <2>1. ac \in E \cup {0} /\ ac \in EditIds \cup {0}
    <3>1. E \in SUBSET Nat /\ E \subseteq EditIds BY <1>2
    <3>2. First(E) \in E \cup {0} BY <3>1, FirstFacts
    <3> QED BY <1>2, <1>6, <3>1, <3>2
  <2>2. m2 \in Models /\ m2.edits = rest /\ m2.original = m.original /\ m2.active = ac
    <3> DEFINE de == m.designated /\ ~freed
               fi == IF freed THEN 0 ELSE m.fixed
    <3>1. m2 = [m EXCEPT !.edits = rest, !.active = ac, !.designated = de, !.fixed = fi] OBVIOUS
    <3>2. /\ DOMAIN m = Fields /\ de \in BOOLEAN /\ fi \in EditIds \cup {0} /\ m.imported \in BOOLEAN
          /\ m.original \in Names \cup {Null}
      BY <1>1, ModelFields
    <3> HIDE DEF m, m2, rest, ac, de, fi
    <3>3. m2.imported = m.imported /\ m2.original = m.original BY <3>1, <3>2 DEF Fields
    <3>4. m2.edits = rest BY <3>1, <3>2 DEF Fields
    <3>5. m2.active = ac BY <3>1, <3>2 DEF Fields
    <3>6. m2.designated = de BY <3>1, <3>2 DEF Fields
    <3>7. m2.fixed = fi BY <3>1, <3>2 DEF Fields
    <3>8. m2 = [f \in Fields |-> m2[f]] BY <3>1, <3>2
    <3>9. E \in SUBSET EditIds BY <1>2 DEF m
    <3> HIDE DEF E
    <3>10. m2 \in Models
      BY <1>6, <2>1, <3>2, <3>3, <3>4, <3>5, <3>6, <3>7, <3>8, <3>9, ModelByFields
    <3> QED BY <3>3, <3>4, <3>5, <3>10
  <2>3. WithoutEdit(ix, i, e) = Put(ix, i, m2) BY <1>6, <1>7 DEF WithoutEdit
  <2> HIDE DEF m2, rest, ac
  <2>4. VersionsOf(m2) = VersionsOf(m) \ {e} /\ E \subseteq VersionsOf(m2)
    BY <1>2, <1>6, <2>2 DEF VersionsOf
  <2>5. \A d \in VersionsOf(m2) : FileOf(m2, d) = FileOf(m, d)
    BY <1>6, <2>2, <2>4 DEF FileOf, VersionsOf
  <2>6. m2.active \in DOMAIN m2.edits \cup {0} /\ VersionsOf(m2) # {}
    BY <1>6, <1>7, <2>1, <2>2, <2>4
  <2>7. GoodModel(m2) /\ ModelFiles(m2) = ModelFiles(m) \ {FileOf(m, e)}
    BY <1>1, <1>3, <2>2, <2>4, <2>5, <2>6, FewerFacts
  <2> HIDE DEF m, n
  <2> QED BY <1>3, <1>5, <2>3, <2>7, VersionLeaves DEF m, n
<1>8. CASE E = {} /\ m.original # Null
  <2>1. m3 \in Models /\ m3.edits = <<>> /\ m3.original = m.original /\ m3.active = 0
    <3> DEFINE ed == <<>>
    <3>1. m3 = [m EXCEPT !.edits = ed, !.active = 0] OBVIOUS
    <3>2. ed \in [{} -> EditRec] OBVIOUS
    <3> HIDE DEF m, m3, ed
    <3>3. DOMAIN m = Fields /\ {} \in SUBSET EditIds /\ 0 \in EditIds \cup {0} BY <1>1, ModelFields
    <3>4. /\ m3.imported = m.imported /\ m3.original = m.original /\ m3.designated = m.designated
          /\ m3.fixed = m.fixed
      BY <3>1, <3>3 DEF Fields
    <3>5. m3.edits = ed BY <3>1, <3>3 DEF Fields
    <3>6. m3.active = 0 BY <3>1, <3>3 DEF Fields
    <3>7. m3 = [f \in Fields |-> m3[f]] BY <3>1, <3>3
    <3>8. m3 \in Models BY <1>1, <3>2, <3>3, <3>4, <3>5, <3>6, <3>7, ModelFields, ModelByFields
    <3> QED BY <3>4, <3>5, <3>6, <3>8 DEF ed
  <2>2. WithoutEdit(ix, i, e) = Put(ix, i, m3) BY <1>6, <1>8 DEF WithoutEdit
  <2> HIDE DEF m3
  <2>3. VersionsOf(m3) = {0} /\ VersionsOf(m) = {e, 0} BY <1>2, <1>8, <2>1 DEF VersionsOf
  <2>4. VersionsOf(m3) = VersionsOf(m) \ {e} /\ VersionsOf(m3) # {} BY <1>2, <2>3
  <2>5. \A d \in VersionsOf(m3) : FileOf(m3, d) = FileOf(m, d)
    BY <2>1, <2>3 DEF FileOf
  <2>6. m3.active \in DOMAIN m3.edits \cup {0} BY <2>1
  <2>7. GoodModel(m3) /\ ModelFiles(m3) = ModelFiles(m) \ {FileOf(m, e)}
    BY <1>1, <1>3, <2>1, <2>4, <2>5, <2>6, FewerFacts
  <2> HIDE DEF m, n
  <2> QED BY <1>3, <1>5, <2>2, <2>7, VersionLeaves DEF m, n
<1>9. CASE E = {} /\ m.original = Null
  <2>1. VersionsOf(m) = {e} BY <1>9 DEF VersionsOf
  <2>2. ModelFiles(m) = {n} BY <1>3, <1>4, <2>1
  <2>3. WithoutEdit(ix, i, e) = WithoutModel(ix, i) BY <1>6, <1>9 DEF WithoutEdit
  <2> QED BY <2>2, <2>3, LastVersionLeaves
<1> QED BY <1>7, <1>8, <1>9

LEMMA NoModelsFacts == GoodIndex(NoModels) /\ Files(NoModels) = {} /\ ReadOnly(NoModels) = {}
    /\ DOMAIN NoModels.models = {}
<1> DEFINE none == <<>>
<1>1. none \in [{} -> Models] /\ DOMAIN none = {} OBVIOUS
<1>2. NoModels = [models |-> none, active |-> 0] BY DEF NoModels
<1> HIDE DEF none
<1>3. {} \in SUBSET ModelIds /\ 0 \in ModelIds \cup {0} OBVIOUS
<1>4. IsIndex([models |-> none, active |-> 0]) BY <1>1, <1>3, IndexMade, Zenon
<1>5. NoModels.models = none /\ NoModels.active = 0 BY <1>2
<1>6. GoodIndex(NoModels) BY <1>1, <1>2, <1>4, <1>5 DEF GoodIndex
<1>7. Files(NoModels) = {} BY <1>1, <1>5 DEF Files
<1>8. ReadOnly(NoModels) = {} BY <1>1, <1>5 DEF ReadOnly
<1> QED BY <1>1, <1>5, <1>6, <1>7, <1>8

LEMMA FilesFacts ==
    ASSUME NEW ix, GoodIndex(ix)
    PROVE  /\ Files(ix) \subseteq Names
           /\ \A i \in DOMAIN ix.models : /\ ModelFiles(ix.models[i]) \subseteq Files(ix)
                                          /\ GoodModel(ix.models[i]) /\ ix.models[i] \in Models
           /\ ReadOnly(ix) \subseteq Files(ix)
<1>1. \A i \in DOMAIN ix.models : /\ ModelFiles(ix.models[i]) \subseteq Files(ix)
                                  /\ GoodModel(ix.models[i]) /\ ix.models[i] \in Models
  BY DEF GoodIndex, GoodModel, Files
<1>2. Files(ix) \subseteq Names
  <2>1. \A i \in DOMAIN ix.models : ModelFiles(ix.models[i]) \subseteq Names BY <1>1, FilesOfModel
  <2> QED BY <2>1 DEF Files
<1>3. ReadOnly(ix) \subseteq Files(ix)
  <2>1. ASSUME NEW i \in DOMAIN ix.models
        PROVE  LET m == ix.models[i]
               IN (({m.original} \ {Null}) \cup IF m.designated THEN EditFiles(m) ELSE {}) \subseteq ModelFiles(m)
    BY DEF ModelFiles
  <2> QED BY <1>1, <2>1 DEF ReadOnly
<1> QED BY <1>1, <1>2, <1>3

-----------------------------------------------------------------------------
(* Plans                                                                     *)

LEMMA PlanMade ==
    ASSUME NEW n \in Names \cup {Null}, NEW t \in Texts \cup {Null}, NEW ix, IsIndex(ix),
           NEW d \in Names \cup {Null}, NEW b \in BOOLEAN
    PROVE  IsPlan([write |-> n, text |-> t, index |-> ix, drop |-> d, tidy |-> b])
<1>1. PICK D \in SUBSET ModelIds : ix \in Index(D) BY DEF IsIndex
<1> QED BY <1>1 DEF IsPlan

LEMMA PublishFits ==
    ASSUME NEW ix, NEW jx, GoodIndex(jx), Files(jx) = Files(ix), Null \notin Files(ix), NEW was
    PROVE  Fitting(Publish(jx), ix, was)
<1> DEFINE p == [write |-> Null, text |-> Null, index |-> jx, drop |-> Null, tidy |-> FALSE]
<1>1. Publish(jx) = p BY DEF Publish, Plan
<1>2. IsPlan(p)
  <2>1. Null \in Names \cup {Null} /\ Null \in Texts \cup {Null} /\ FALSE \in BOOLEAN /\ IsIndex(jx)
    BY DEF GoodIndex
  <2> QED BY <2>1, PlanMade, Zenon
<1>3. p.write = Null /\ p.index = jx /\ p.drop = Null /\ ~p.tidy OBVIOUS
<1> HIDE DEF p
<1> QED BY <1>1, <1>2, <1>3 DEF Fitting

LEMMA DropFits ==
    ASSUME NEW ix, NEW n \in Names, NEW jx, Leaves(jx, ix, n), NEW was
    PROVE  Fitting(Dropping(n, jx), ix, was)
<1> DEFINE p == [write |-> Null, text |-> Null, index |-> jx, drop |-> n, tidy |-> FALSE]
<1>1. Dropping(n, jx) = p BY DEF Dropping, Plan
<1>2. IsPlan(p)
  <2>1. /\ Null \in Names \cup {Null} /\ Null \in Texts \cup {Null} /\ n \in Names \cup {Null}
        /\ FALSE \in BOOLEAN
        /\ IsIndex(jx)
    BY DEF GoodIndex, Leaves
  <2> QED BY <2>1, PlanMade, Zenon
<1>3. p.write = Null /\ p.index = jx /\ p.drop = n /\ ~p.tidy OBVIOUS
<1> HIDE DEF p
<1> QED BY <1>1, <1>2, <1>3 DEF Fitting, Leaves

LEMMA WritingFields ==
    ASSUME NEW n \in Names, NEW t \in Texts, NEW jx, IsIndex(jx),
           NEW p \in {Writing(n, t, jx), Tidied(Writing(n, t, jx))}
    PROVE  IsPlan(p) /\ p.write = n /\ p.text = t /\ p.index = jx /\ p.drop = Null
<1> DEFINE q == [write |-> n, text |-> t, index |-> jx, drop |-> Null, tidy |-> FALSE]
           r == [write |-> n, text |-> t, index |-> jx, drop |-> Null, tidy |-> TRUE]
<1>1. p = q \/ p = r BY DEF Writing, Tidied, Plan
<1>2. IsPlan(q) /\ IsPlan(r)
  <2>1. n \in Names \cup {Null} /\ t \in Texts \cup {Null} /\ Null \in Names \cup {Null}
        /\ {FALSE, TRUE} \subseteq BOOLEAN
    OBVIOUS
  <2>2. IsPlan(q) BY <2>1, PlanMade
  <2>3. IsPlan(r) BY <2>1, PlanMade
  <2> QED BY <2>2, <2>3
<1>3. /\ q.write = n /\ q.text = t /\ q.index = jx /\ q.drop = Null
      /\ r.write = n /\ r.text = t /\ r.index = jx /\ r.drop = Null
  OBVIOUS
<1> HIDE DEF q, r
<1> QED BY <1>1, <1>2, <1>3

LEMMA WriteNewFits ==
    ASSUME NEW ix, NEW n \in Names \ Files(ix), NEW t \in Texts, NEW jx, GoodIndex(jx),
           Files(jx) = Files(ix) \cup {n},
           Null \notin Files(ix), NEW was,
           NEW p, p = Writing(n, t, jx) \/ (p = Tidied(Writing(n, t, jx)) /\ Files(ix) # {})
    PROVE  Fitting(p, ix, was)
<1>1. n # Null /\ n \in Names BY NameAssumption
<1>2. IsPlan(p) /\ p.write = n /\ p.text = t /\ p.index = jx /\ p.drop = Null
  BY <1>1, WritingFields DEF GoodIndex
<1>3. p.tidy => Files(ix) # {} BY DEF Writing, Plan
<1> QED BY <1>1, <1>2, <1>3 DEF Fitting

LEMMA WriteOldFits ==
    ASSUME NEW ix, NEW n \in Files(ix) \cap Names, NEW t \in Texts, NEW jx, GoodIndex(jx),
           Files(jx) = Files(ix),
           Null \notin Files(ix), NEW was \in Texts, t = was \/ (jx = ix /\ n \notin ReadOnly(ix)),
           NEW p \in {Writing(n, t, jx), Tidied(Writing(n, t, jx))}
    PROVE  Fitting(p, ix, was)
<1>1. n # Null /\ n \in Names BY NameAssumption
<1>2. IsPlan(p) /\ p.write = n /\ p.text = t /\ p.index = jx /\ p.drop = Null
  BY <1>1, WritingFields DEF GoodIndex
<1> QED BY <1>1, <1>2 DEF Fitting

-----------------------------------------------------------------------------
(* The handlers: what each plans fits the index it read.                     *)

\* A handler meets a container that can be read.
Settled == /\ file \in [Names -> Texts \cup Missing] /\ GoodIndex(Known) /\ Whole(Known, file)
           /\ calls \in Nat /\ calls < MaxCalls
Was(p) == IF p.write = Null THEN Null ELSE file[p.write]
BeginsWell == \E p : Begin(p) /\ Fitting(p, Known, Was(p))

LEMMA KnownFacts ==
    ASSUME Settled
    PROVE  /\ Null \notin Files(Known) /\ Files(Known) \subseteq Names
           /\ \A n \in Files(Known) : file[n] \in Texts /\ file[n] # Null
           /\ \A i \in Groups : /\ Group(i) \in Models /\ GoodModel(Group(i)) /\ i \in ModelIds
                                /\ ModelFiles(Group(i)) \subseteq Files(Known)
           /\ IsIndex(Known)
<1>1. Files(Known) \subseteq Names BY FilesFacts DEF Settled
<1>2. \A n \in Files(Known) : file[n] \in Texts /\ file[n] # Null
  BY DataAssumption DEF Settled, Whole
<1>3. IsIndex(Known) BY DEF Settled, GoodIndex
<1>4. \A i \in Groups : i \in ModelIds BY <1>3, IndexFacts DEF Groups
<1> QED BY <1>1, <1>2, <1>3, <1>4, FilesFacts, NameAssumption DEF Settled, Groups, Group

LEMMA PublishBegins ==
    ASSUME Settled, NEW jx, GoodIndex(jx), Files(jx) = Files(Known), Begin(Publish(jx))
    PROVE  BeginsWell
<1>1. Fitting(Publish(jx), Known, Was(Publish(jx))) BY KnownFacts, PublishFits
<1> QED BY <1>1 DEF BeginsWell

LEMMA WriteBegins ==
    ASSUME Settled, NEW n \in Names, NEW t \in Texts, NEW jx, GoodIndex(jx),
           Files(jx) = Files(Known) \cup {n},
           n \notin Files(Known) \/ t = file[n] \/ (jx = Known /\ n \notin ReadOnly(Known)),
           NEW p, Begin(p), p = Writing(n, t, jx) \/ (p = Tidied(Writing(n, t, jx)) /\ Files(Known) # {})
    PROVE  BeginsWell
<1>1. Null \notin Files(Known) /\ \A m \in Files(Known) : file[m] \in Texts BY KnownFacts
<1>2. p.write = n
  <2>1. IsIndex(jx) /\ p \in {Writing(n, t, jx), Tidied(Writing(n, t, jx))} BY DEF GoodIndex
  <2> QED BY <2>1, WritingFields
<1>3. Was(p) = file[n] BY <1>2, NameAssumption DEF Was
<1>4. CASE n \notin Files(Known)
  <2>1. Fitting(p, Known, Was(p)) BY <1>1, <1>4, WriteNewFits
  <2> QED BY <2>1 DEF BeginsWell
<1>5. CASE n \in Files(Known)
  <2>1. Files(jx) = Files(Known) /\ n \in Files(Known) \cap Names BY <1>5
  <2>2. file[n] \in Texts /\ p \in {Writing(n, t, jx), Tidied(Writing(n, t, jx))} BY <1>1, <1>5
  <2>3. t = file[n] \/ (jx = Known /\ n \notin ReadOnly(Known)) BY <1>5
  <2>4. Fitting(p, Known, file[n]) BY <1>1, <2>1, <2>2, <2>3, WriteOldFits
  <2> QED BY <1>3, <2>4 DEF BeginsWell
<1> QED BY <1>4, <1>5

LEMMA SlotsDiffer ==
    /\ \A i, j \in Nat : Slot(i) = Slot(j) => i = j
    /\ \A i \in Nat, l \in Labels : Slot(i) # Labelled(l)
    /\ \A i \in Nat, d \in Nat : Slot(i) # OriginalAt(d)
    /\ \A i \in Nat : Slot(i) # OldEdit /\ Slot(i) # OldOriginal
    /\ \A l \in Labels : Labelled(l) # OldEdit
BY DEF Slot, Labelled, OriginalAt, OldEdit, OldOriginal

\* A new group with one file that no version has.
LEMMA NewGroupBegins ==
    ASSUME Settled, Room, NEW n \in Names \ Files(Known), NEW m, GoodModel(m), ModelFiles(m) = {n},
           \A k \in ModelIds : n = Slot(k) => k = NextModel(Known),
           NEW focus \in BOOLEAN, NEW t \in Texts,
           Begin(Writing(n, t, AddModel(Known, m, focus)))
    PROVE  BeginsWell
<1> DEFINE jx == AddModel(Known, m, focus)
<1>1. GroupFits(Known, NextModel(Known), m)
  <2>1. \A j \in DOMAIN Known.models : n \notin ModelFiles(Known.models[j]) BY DEF Files
  <2> QED BY <2>1 DEF GroupFits
<1>2. NextModel(Known) \in ModelIds BY DEF Room
<1>3. GoodIndex(jx) /\ Files(jx) = Files(Known) \cup {n} BY <1>1, <1>2, AddModelFacts DEF Settled
<1> HIDE DEF jx
<1>4. Begin(Writing(n, t, jx)) BY DEF jx
<1> QED BY <1>3, <1>4, WriteBegins

LEMMA NumberedBegins ==
    ASSUME Settled, NEW im \in BOOLEAN, NEW l \in Labels, NEW t \in Texts, NEW focus \in BOOLEAN,
           Numbered(im, l, t, focus)
    PROVE  BeginsWell
<1> DEFINE k == NextModel(Known)
           n == Slot(k)
           m == OneEdit(im, l, n)
<1>1. Room /\ k \in ModelIds /\ Begin(Writing(n, t, AddModel(Known, m, focus)))
  BY DEF Numbered, Room
<1>2. ModelIds \subseteq Nat BY DEF ModelIds
<1>3. n \in Names BY <1>1 DEF Names
<1>4. n \notin Files(Known)
  <2>1. k \notin DOMAIN Known.models
    <3>1. IsIndex(Known) BY KnownFacts
    <3>2. MaxModels \in Nat /\ DOMAIN Known.models \in SUBSET (1..MaxModels)
      BY <3>1, IndexFacts, RoomAssumption DEF ModelIds
    <3> QED BY <3>2, LastFacts DEF NextModel
  <2>2. \A i \in DOMAIN Known.models : n \in ModelFiles(Known.models[i]) => k = i
    BY <1>1 DEF Settled, GoodIndex
  <2> QED BY <2>1, <2>2 DEF Files
<1>5. GoodModel(m) /\ ModelFiles(m) = {n} BY <1>3, OneEditFacts
<1>6. \A j \in ModelIds : n = Slot(j) => j = k BY <1>1, <1>2, SlotsDiffer
<1> HIDE DEF k, n, m
<1>7. \A j \in ModelIds : n = Slot(j) => j = NextModel(Known) BY <1>6 DEF k
<1> QED BY <1>1, <1>3, <1>4, <1>5, <1>7, NewGroupBegins

LEMMA CreateOriginalBegins ==
    ASSUME Settled, CreateOriginal
    PROVE  BeginsWell
<1>1. PICK im \in BOOLEAN, t \in Texts :
          LET n == OriginalAt(IF Groups = {} THEN 0 ELSE calls + 1)
          IN Room /\ file[n] = Null /\ Begin(Writing(n, t, AddModel(Known, Original(im, n), TRUE)))
  BY DEF CreateOriginal
<1> DEFINE d == IF Groups = {} THEN 0 ELSE calls + 1
           n == OriginalAt(d)
           m == Original(im, n)
<1>2. Room /\ file[n] = Null /\ Begin(Writing(n, t, AddModel(Known, m, TRUE))) BY <1>1
<1>3. d \in 0..MaxCalls BY RoomAssumption DEF Settled
<1> HIDE DEF d
<1>4. n \in Names /\ d \in Nat BY <1>3, RoomAssumption DEF Names
<1>5. n \notin Files(Known) BY <1>2, KnownFacts
<1>6. GoodModel(m) /\ ModelFiles(m) = {n} BY <1>4, OriginalFacts
<1>7. \A k \in ModelIds : n # Slot(k) BY <1>4, SlotsDiffer DEF ModelIds
<1> HIDE DEF n, m
<1> QED BY <1>2, <1>4, <1>5, <1>6, <1>7, NewGroupBegins

LEMMA CreateNumberedBegins ==
    ASSUME Settled, CreateNumbered
    PROVE  BeginsWell
<1>1. PICK im, focus \in BOOLEAN, l \in Labels, t \in Texts : Numbered(im, l, t, focus)
  BY DEF CreateNumbered
<1> QED BY <1>1, NumberedBegins

LEMMA FreeLabelFacts ==
    ASSUME Settled, NEW l \in Labels, FreeLabel(l)
    PROVE  Labelled(l) \in Names \ Files(Known)
<1>1. Labelled(l) \in Names BY DEF Names
<1>2. file[Labelled(l)] = Null BY DEF FreeLabel
<1> QED BY <1>1, <1>2, KnownFacts

\* An edit joins its group, in a file named after its label.
LEMMA AddEditBegins ==
    ASSUME Settled, NEW i \in Groups, NEW l \in Labels, FreeLabel(l), NEW focus \in BOOLEAN,
           NEW t \in Texts,
           NextEdit(Group(i)) \in EditIds,
           Begin(Tidied(Writing(Labelled(l), t,
               Focus(Put(Known, i, AddEdit(Group(i), l, Labelled(l), focus)), i, focus))))
    PROVE  BeginsWell
<1> DEFINE n == Labelled(l)
           m == AddEdit(Group(i), l, n, focus)
           ix == Put(Known, i, m)
           jx == Focus(ix, i, focus)
<1>1. n \in Names \ Files(Known) BY FreeLabelFacts
<1>2. GoodModel(Group(i)) /\ ModelFiles(Group(i)) \subseteq Files(Known) /\ i \in ModelIds
      /\ GoodIndex(Known) /\ Group(i) \in Models
  BY KnownFacts DEF Settled
<1>3. i \in DOMAIN Known.models /\ Group(i) = Known.models[i] BY DEF Groups, Group
<1>4. n \in Names \ ModelFiles(Group(i)) BY <1>1, <1>2
<1>5. \A k \in ModelIds : n # Slot(k) BY SlotsDiffer DEF ModelIds
<1>6. Begin(Tidied(Writing(n, t, jx))) OBVIOUS
<1> HIDE DEF n
<1>7. GoodModel(m) /\ ModelFiles(m) = ModelFiles(Group(i)) \cup {n}
  BY <1>2, <1>4, AddEditFacts
<1> HIDE DEF m
<1>8. GroupFits(Known, i, m)
  <2>1. \A j \in DOMAIN Known.models \ {i} : ModelFiles(Known.models[j]) \cap ModelFiles(Group(i)) = {}
    BY <1>2, <1>3 DEF GoodIndex
  <2>2. \A j \in DOMAIN Known.models : n \notin ModelFiles(Known.models[j]) BY <1>1 DEF Files
  <2>3. \A k \in ModelIds : Slot(k) \in ModelFiles(Group(i)) => k = i BY <1>2, <1>3 DEF GoodIndex
  <2> QED BY <1>5, <1>7, <2>1, <2>2, <2>3 DEF GroupFits
<1>9. GoodIndex(ix) /\ Files(ix) = (Files(Known) \ ModelFiles(Group(i))) \cup ModelFiles(m)
      /\ DOMAIN ix.models = DOMAIN Known.models
  BY <1>2, <1>3, <1>8, PutFacts
<1>10. Files(ix) = Files(Known) \cup {n} BY <1>2, <1>7, <1>9
<1> HIDE DEF ix
<1>11. i \in DOMAIN ix.models BY <1>3, <1>9
<1>12. GoodIndex(jx) /\ Files(jx) = Files(Known) \cup {n}
  <2>1. GoodIndex(Focus(ix, i, focus)) /\ Files(Focus(ix, i, focus)) = Files(ix)
    BY <1>9, <1>11, FocusFacts
  <2> QED BY <1>10, <2>1
<1> HIDE DEF jx
<1>13. Files(Known) # {}
  <2>1. VersionsOf(Group(i)) # {} BY <1>2 DEF GoodModel
  <2>2. ModelFiles(Group(i)) # {} BY <1>2, <2>1, FilesOfModel
  <2> QED BY <1>2, <2>2
<1>14. n \in Names /\ n \notin Files(Known) BY <1>1
<1> QED BY <1>6, <1>12, <1>13, <1>14, WriteBegins

LEMMA CreateEditBegins ==
    ASSUME Settled, CreateEdit
    PROVE  BeginsWell
<1>1. PICK i \in Groups, focus \in BOOLEAN, t \in Texts :
        \E n \in {OriginalFile(Group(i))} \cup EditFiles(Group(i)) :
            \/ ForksGroup(Group(i)) /\ t = file[n]
                    /\ \E l \in Labels : Numbered(Group(i).imported, l, t, focus)
            \/ \E l \in Labels :
                 /\ FreeLabel(l)
                 /\ IF ForksGroup(Group(i))
                    THEN Room /\ Begin(Writing(Labelled(l), t, AddModel(Known, OneEdit(Group(i).imported, l, Labelled(l)), focus)))
                    ELSE /\ NextEdit(Group(i)) \in EditIds
                         /\ Begin(Tidied(Writing(Labelled(l), t,
                               Focus(Put(Known, i, AddEdit(Group(i), l, Labelled(l), focus)), i, focus))))
  BY DEF CreateEdit
<1>2. Group(i).imported \in BOOLEAN
  <2>1. Group(i) \in Models BY KnownFacts
  <2> QED BY <2>1, ModelFacts
<1>3. CASE \E l \in Labels : Numbered(Group(i).imported, l, t, focus)
  BY <1>2, <1>3, NumberedBegins
<1>4. ASSUME NEW l \in Labels, FreeLabel(l), Room,
             Begin(Writing(Labelled(l), t, AddModel(Known, OneEdit(Group(i).imported, l, Labelled(l)), focus)))
      PROVE  BeginsWell
  <2> DEFINE f == Labelled(l)
             m == OneEdit(Group(i).imported, l, f)
  <2>1. f \in Names \ Files(Known) BY <1>4, FreeLabelFacts
  <2>2. GoodModel(m) /\ ModelFiles(m) = {f} BY <1>2, <2>1, OneEditFacts
  <2>3. \A k \in ModelIds : f # Slot(k) BY SlotsDiffer DEF ModelIds
  <2>4. Begin(Writing(f, t, AddModel(Known, m, focus))) BY <1>4
  <2> HIDE DEF f, m
  <2> QED BY <1>4, <2>1, <2>2, <2>3, <2>4, NewGroupBegins
<1> QED BY <1>1, <1>3, <1>4, AddEditBegins

LEMMA SaveEditBegins ==
    ASSUME Settled, SaveEdit
    PROVE  BeginsWell
<1>1. PICK i \in Groups, t \in Texts :
        \E n \in EditFiles(Group(i)) :
            /\ ~Group(i).designated
            /\ \/ Begin(Writing(n, t, Known))
               \/ Readable(n) /\ Begin(Tidied(Writing(n, t, Known)))
  BY DEF SaveEdit
<1>2. PICK n \in EditFiles(Group(i)) :
        ~Group(i).designated /\ (Begin(Writing(n, t, Known)) \/ Begin(Tidied(Writing(n, t, Known))))
  BY <1>1
<1> DEFINE m == Group(i)
<1>3. m \in Models /\ GoodModel(m) /\ ModelFiles(m) \subseteq Files(Known)
      /\ Files(Known) \subseteq Names
  BY KnownFacts
<1>4. PICK e \in DOMAIN m.edits : n = m.edits[e].file BY DEF EditFiles
<1>5. e # 0 /\ e \in VersionsOf(m) /\ FileOf(m, e) = n
  BY <1>3, <1>4, ModelFacts DEF VersionsOf, FileOf
<1>6. n \in ModelFiles(m) BY DEF ModelFiles
<1>7. n \in Names /\ n \in Files(Known) BY <1>3, <1>6
<1>8. m.original # n \/ n = Null
  <2>1. m.original = n /\ n # Null => 0 \in VersionsOf(m) /\ FileOf(m, 0) = n
    BY DEF VersionsOf, FileOf
  <2> QED BY <1>3, <1>5, <2>1 DEF GoodModel
<1>9. i \in DOMAIN Known.models /\ m = Known.models[i] /\ ~m.designated BY <1>2 DEF Groups, Group
<1> HIDE DEF m
<1>10. n \notin ReadOnly(Known)
  <2>1. SUFFICES ASSUME NEW j \in DOMAIN Known.models,
                        LET k == Known.models[j]
                        IN n \in ({k.original} \ {Null}) \cup IF k.designated THEN EditFiles(k) ELSE {}
                 PROVE FALSE
    BY DEF ReadOnly
  <2>2. n \in ModelFiles(Known.models[j]) BY <2>1 DEF ModelFiles
  <2>3. i = j BY <1>6, <1>9, <2>2 DEF Settled, GoodIndex
  <2> QED BY <1>8, <1>9, <2>1, <2>3
<1>11. Files(Known) = Files(Known) \cup {n} BY <1>7
<1>12. GoodIndex(Known) /\ Files(Known) # {} BY <1>7 DEF Settled
<1> QED BY <1>2, <1>7, <1>10, <1>11, <1>12, WriteBegins

LEMMA SaveDetailsBegins ==
    ASSUME Settled, SaveDetails
    PROVE  BeginsWell
<1>1. GoodIndex(Known) /\ Begin(Publish(Known)) BY DEF SaveDetails, Settled
<1> QED BY <1>1, PublishBegins

\* A group that keeps its files.
LEMMA SameFilesFit ==
    ASSUME Settled, NEW i \in Groups, NEW m, GoodModel(m), ModelFiles(m) = ModelFiles(Group(i))
    PROVE  /\ GoodIndex(Put(Known, i, m)) /\ Files(Put(Known, i, m)) = Files(Known)
           /\ i \in DOMAIN Put(Known, i, m).models
<1>1. i \in DOMAIN Known.models /\ Group(i) = Known.models[i] /\ GoodIndex(Known)
  BY DEF Groups, Group, Settled
<1>2. GroupFits(Known, i, m) BY <1>1, FewerFits
<1>3. /\ GoodIndex(Put(Known, i, m))
      /\ Files(Put(Known, i, m)) = (Files(Known) \ ModelFiles(Known.models[i])) \cup ModelFiles(m)
      /\ DOMAIN Put(Known, i, m).models = DOMAIN Known.models
  BY <1>1, <1>2, PutFacts
<1>4. ModelFiles(Known.models[i]) \subseteq Files(Known) BY <1>1, FilesFacts
<1> QED BY <1>1, <1>3, <1>4

LEMMA SwapBegins ==
    ASSUME Settled, NEW i \in Groups, NEW m \in Models, VersionsOf(m) = VersionsOf(Group(i)),
           \A e \in VersionsOf(Group(i)) : FileOf(m, e) = FileOf(Group(i), e),
           m.active \in DOMAIN m.edits \cup {0},
           Begin(Publish(Put(Known, i, m))) \/ Begin(Publish(Focus(Put(Known, i, m), i, TRUE)))
    PROVE  BeginsWell
<1>1. GoodModel(Group(i)) BY KnownFacts
<1>2. GoodModel(m) /\ ModelFiles(m) = ModelFiles(Group(i)) BY <1>1, SameFilesFacts
<1> DEFINE ix == Put(Known, i, m)
           jx == Focus(ix, i, TRUE)
<1>3. GoodIndex(ix) /\ Files(ix) = Files(Known) /\ i \in DOMAIN ix.models BY <1>2, SameFilesFit
<1> HIDE DEF ix
<1>4. GoodIndex(jx) /\ Files(jx) = Files(Known)
  <2>1. GoodIndex(Focus(ix, i, TRUE)) /\ Files(Focus(ix, i, TRUE)) = Files(ix) BY <1>3, FocusFacts
  <2> QED BY <1>3, <2>1
<1>5. Begin(Publish(ix)) \/ Begin(Publish(jx)) BY DEF ix
<1> HIDE DEF jx
<1> QED BY <1>3, <1>4, <1>5, PublishBegins

LEMMA PersistActiveBegins ==
    ASSUME Settled, PersistActive
    PROVE  BeginsWell
<1>1. PICK i \in Groups :
        \/ Begin(Publish(Focus(Known, i, TRUE)))
        \/ \E e \in DOMAIN Group(i).edits :
             ~Group(i).designated /\ Begin(Publish(Focus(Put(Known, i, [Group(i) EXCEPT !.active = e]), i, TRUE)))
  BY DEF PersistActive
<1>2. CASE Begin(Publish(Focus(Known, i, TRUE)))
  <2> DEFINE jx == Focus(Known, i, TRUE)
  <2>1. GoodIndex(Known) /\ i \in DOMAIN Known.models BY DEF Settled, Groups
  <2>2. GoodIndex(jx) /\ Files(jx) = Files(Known) BY <2>1, FocusFacts
  <2>3. Begin(Publish(jx)) BY <1>2
  <2> HIDE DEF jx
  <2> QED BY <2>2, <2>3, PublishBegins
<1>3. CASE \E e \in DOMAIN Group(i).edits : Begin(Publish(Focus(Put(Known, i, [Group(i) EXCEPT !.active = e]), i, TRUE)))
  <2>1. PICK e \in DOMAIN Group(i).edits : Begin(Publish(Focus(Put(Known, i, [Group(i) EXCEPT !.active = e]), i, TRUE)))
    BY <1>3
  <2> DEFINE m == [Group(i) EXCEPT !.active = e]
  <2>2. Group(i) \in Models BY KnownFacts
  <2>3. e \in EditIds \cup {0} BY <2>2, ModelFacts
  <2>4. m \in Models /\ m.original = Group(i).original /\ m.edits = Group(i).edits /\ m.active = e
    BY <2>2, <2>3 DEF Models
  <2>5. Begin(Publish(Focus(Put(Known, i, m), i, TRUE))) BY <2>1
  <2> HIDE DEF m
  <2>6. VersionsOf(m) = VersionsOf(Group(i))
        /\ \A d \in VersionsOf(Group(i)) : FileOf(m, d) = FileOf(Group(i), d)
    BY <2>4 DEF VersionsOf, FileOf
  <2>7. m.active \in DOMAIN m.edits \cup {0} BY <2>4
  <2> QED BY <2>4, <2>5, <2>6, <2>7, SwapBegins
<1> QED BY <1>1, <1>2, <1>3

LEMMA RenameEditBegins ==
    ASSUME Settled, RenameEdit
    PROVE  BeginsWell
<1>1. PICK i \in Groups : \E e \in DOMAIN Group(i).edits : \E l \in Labels :
         Begin(Publish(Put(Known, i, [Group(i) EXCEPT !.edits[e].label = l])))
  BY DEF RenameEdit
<1>2. PICK e \in DOMAIN Group(i).edits : \E l \in Labels :
         Begin(Publish(Put(Known, i, [Group(i) EXCEPT !.edits[e].label = l])))
  BY <1>1
<1>3. PICK l \in Labels : Begin(Publish(Put(Known, i, [Group(i) EXCEPT !.edits[e].label = l])))
  BY <1>2
<1> DEFINE g == Group(i)
           r == [g.edits[e] EXCEPT !.label = l]
           ed == [g.edits EXCEPT ![e] = r]
           m == [g EXCEPT !.edits[e].label = l]
<1>4. g \in Models /\ GoodModel(g) BY KnownFacts
<1>5. /\ g.edits \in [DOMAIN g.edits -> EditRec] /\ DOMAIN g.edits \in SUBSET EditIds
      /\ g.imported \in BOOLEAN /\ g.original \in Names \cup {Null} /\ g.active \in EditIds \cup {0}
      /\ g.designated \in BOOLEAN /\ g.fixed \in EditIds \cup {0} /\ DOMAIN g = Fields
      /\ g.edits[e] \in EditRec
  BY <1>4, ModelFacts, ModelFields
<1>6. r \in EditRec /\ r.file = g.edits[e].file BY <1>5 DEF EditRec
<1>7. Begin(Publish(Put(Known, i, m))) BY <1>3
<1>8. m = [g EXCEPT !.edits = ed] BY DEF Fields
<1> HIDE DEF r, m
<1>9. /\ ed \in [DOMAIN g.edits -> EditRec] /\ DOMAIN ed = DOMAIN g.edits
      /\ \A d \in DOMAIN g.edits : ed[d].file = g.edits[d].file
  BY <1>5, <1>6
<1>10. g.active \in DOMAIN g.edits \cup {0} BY <1>4 DEF GoodModel
<1> HIDE DEF ed
<1>11. /\ m.imported = g.imported /\ m.original = g.original /\ m.edits = ed /\ m.active = g.active
       /\ m.designated = g.designated /\ m.fixed = g.fixed /\ m = [f \in Fields |-> m[f]]
  <2> HIDE DEF g
  <2> QED BY <1>5, <1>8 DEF Fields
<1>12. m \in Models
  <2> HIDE DEF g
  <2> QED BY <1>5, <1>9, <1>11, ModelByFields
<1>13. VersionsOf(m) = VersionsOf(g) /\ \A d \in VersionsOf(g) : FileOf(m, d) = FileOf(g, d)
  <2>1. VersionsOf(m) = VersionsOf(g) BY <1>9, <1>11 DEF VersionsOf
  <2>2. \A d \in VersionsOf(g) : d \in DOMAIN g.edits \/ d = 0 BY DEF VersionsOf
  <2> QED BY <1>9, <1>11, <2>1, <2>2 DEF FileOf
<1>14. m.active \in DOMAIN m.edits \cup {0} BY <1>9, <1>10, <1>11
<1> QED BY <1>7, <1>12, <1>13, <1>14, SwapBegins

LEMMA DesignateBegins ==
    ASSUME Settled, Designate
    PROVE  BeginsWell
<1>1. PICK i \in Groups : \E e \in DOMAIN Group(i).edits \cup {0} :
         Begin(Publish(Put(Known, i,
           [Group(i) EXCEPT !.designated = TRUE,
                            !.active = IF e # 0 THEN e ELSE @,
                            !.fixed = IF e # 0 THEN e ELSE Group(i).active])))
  BY DEF Designate
<1>2. PICK e \in DOMAIN Group(i).edits \cup {0} :
         Begin(Publish(Put(Known, i,
           [Group(i) EXCEPT !.designated = TRUE,
                            !.active = IF e # 0 THEN e ELSE @,
                            !.fixed = IF e # 0 THEN e ELSE Group(i).active])))
  BY <1>1
<1> DEFINE g == Group(i)
           ac == IF e # 0 THEN e ELSE g.active
           m == [g EXCEPT !.designated = TRUE, !.active = IF e # 0 THEN e ELSE @,
                          !.fixed = IF e # 0 THEN e ELSE g.active]
<1>3. g \in Models /\ GoodModel(g) BY KnownFacts
<1>4. /\ g.edits \in [DOMAIN g.edits -> EditRec] /\ DOMAIN g.edits \in SUBSET EditIds
      /\ g.imported \in BOOLEAN /\ g.original \in Names \cup {Null} /\ g.active \in EditIds \cup {0}
      /\ g.designated \in BOOLEAN /\ g.fixed \in EditIds \cup {0} /\ DOMAIN g = Fields
  BY <1>3, ModelFacts, ModelFields
<1>5. ac \in DOMAIN g.edits \cup {0} /\ ac \in EditIds \cup {0} BY <1>3, <1>4 DEF GoodModel
<1>6. Begin(Publish(Put(Known, i, m))) BY <1>2
<1>7. m = [g EXCEPT !.designated = TRUE, !.active = ac, !.fixed = ac] OBVIOUS
<1> HIDE DEF m, ac, g
<1>8. m.imported = g.imported /\ m.original = g.original BY <1>4, <1>7 DEF Fields
<1>9. m.edits = g.edits BY <1>4, <1>7 DEF Fields
<1>10. m.active = ac BY <1>4, <1>7 DEF Fields
<1>11. m.designated = TRUE BY <1>4, <1>7 DEF Fields
<1>12. m.fixed = ac BY <1>4, <1>7 DEF Fields
<1>13. m = [f \in Fields |-> m[f]] BY <1>4, <1>7
<1>14. m \in Models BY <1>4, <1>5, <1>8, <1>9, <1>10, <1>11, <1>12, <1>13, ModelByFields
<1>15. VersionsOf(m) = VersionsOf(g) /\ \A d \in VersionsOf(g) : FileOf(m, d) = FileOf(g, d)
  BY <1>8, <1>9 DEF VersionsOf, FileOf
<1>16. m.active \in DOMAIN m.edits \cup {0} BY <1>5, <1>9, <1>10
<1> QED BY <1>6, <1>14, <1>15, <1>16, SwapBegins DEF g

LEMMA UndesignateBegins ==
    ASSUME Settled, Undesignate
    PROVE  BeginsWell
<1>1. PICK i \in Groups :
        LET m == Group(i) IN
        IF DOMAIN m.edits # {}
        THEN Begin(Publish(Put(Known, i, [m EXCEPT !.designated = FALSE, !.fixed = 0])))
        ELSE /\ Readable(m.original)
             /\ Begin(Writing(m.original, file[m.original], Put(Known, i, OneEdit(TRUE, Default, m.original))))
  BY DEF Undesignate
<1> DEFINE g == Group(i)
<1>2. g \in Models /\ GoodModel(g) /\ ModelFiles(g) \subseteq Files(Known) BY KnownFacts
<1>3. /\ g.edits \in [DOMAIN g.edits -> EditRec] /\ DOMAIN g.edits \in SUBSET EditIds
      /\ g.imported \in BOOLEAN /\ g.original \in Names \cup {Null} /\ g.active \in EditIds \cup {0}
      /\ g.designated \in BOOLEAN /\ g.fixed \in EditIds \cup {0} /\ DOMAIN g = Fields
      /\ g.active \in DOMAIN g.edits \cup {0}
  BY <1>2, ModelFacts, ModelFields DEF GoodModel
<1>4. CASE DOMAIN g.edits # {}
  <2> DEFINE m == [g EXCEPT !.designated = FALSE, !.fixed = 0]
  <2>1. Begin(Publish(Put(Known, i, m))) BY <1>1, <1>4
  <2> HIDE DEF g
  <2>2. m \in Models /\ m.original = g.original /\ m.edits = g.edits /\ m.active = g.active
    BY <1>2, <1>3 DEF Models
  <2> HIDE DEF m
  <2>3. VersionsOf(m) = VersionsOf(g) /\ \A d \in VersionsOf(g) : FileOf(m, d) = FileOf(g, d)
    BY <2>2 DEF VersionsOf, FileOf
  <2> QED BY <1>3, <2>1, <2>2, <2>3, SwapBegins DEF g
<1>5. CASE DOMAIN g.edits = {}
  <2> DEFINE n == g.original
             m == OneEdit(TRUE, Default, n)
             jx == Put(Known, i, m)
  <2>1. Begin(Writing(n, file[n], jx)) /\ file[n] \in Texts BY <1>1, <1>5 DEF Readable
  <2>2. n # Null /\ VersionsOf(g) = {0} /\ FileOf(g, 0) = n
    BY <1>2, <1>5 DEF GoodModel, VersionsOf, FileOf
  <2>3. ModelFiles(g) = {n} BY <1>2, <2>2, FilesOfModel
  <2>4. n \in Names /\ n \in Files(Known) BY <1>2, <1>3, <2>2, <2>3
  <2>5. GoodModel(m) /\ ModelFiles(m) = {n} BY <2>4, DataAssumption, OneEditFacts
  <2> HIDE DEF m, n
  <2>6. GoodIndex(jx) /\ Files(jx) = Files(Known) BY <2>3, <2>5, SameFilesFit
  <2> HIDE DEF jx
  <2>7. Files(jx) = Files(Known) \cup {n} BY <2>4, <2>6
  <2> QED BY <2>1, <2>4, <2>6, <2>7, WriteBegins
<1> QED BY <1>4, <1>5

LEMMA DropBegins ==
    ASSUME Settled, NEW n, NEW jx, Leaves(jx, Known, n), Begin(Dropping(n, jx))
    PROVE  BeginsWell
<1>1. n \in Names BY KnownFacts DEF Leaves
<1>2. Fitting(Dropping(n, jx), Known, Was(Dropping(n, jx))) BY <1>1, DropFits
<1> QED BY <1>2 DEF BeginsWell

LEMMA RemoveBegins ==
    ASSUME Settled, NEW i \in Groups, NEW e \in DOMAIN Group(i).edits, Remove(i, e)
    PROVE  BeginsWell
<1>1. GoodIndex(Known) /\ i \in DOMAIN Known.models /\ Group(i) = Known.models[i]
  BY DEF Settled, Groups, Group
<1>2. Leaves(WithoutEdit(Known, i, e), Known, Group(i).edits[e].file) BY <1>1, WithoutEditFacts
<1>3. Begin(Dropping(Group(i).edits[e].file, WithoutEdit(Known, i, e))) BY DEF Remove
<1> QED BY <1>2, <1>3, DropBegins

LEMMA RemoveEditBegins ==
    ASSUME Settled, RemoveEdit
    PROVE  BeginsWell
BY RemoveBegins DEF RemoveEdit

LEMMA RemoveOriginalBegins ==
    ASSUME Settled, RemoveOriginal
    PROVE  BeginsWell
<1>1. PICK i \in Groups :
        IF Group(i).original # Null THEN Begin(Dropping(Group(i).original, WithoutOriginal(Known, i)))
        ELSE Pinned(Group(i)) \in DOMAIN Group(i).edits /\ Remove(i, Pinned(Group(i)))
  BY DEF RemoveOriginal
<1>2. CASE Group(i).original # Null
  <2>1. GoodIndex(Known) /\ i \in DOMAIN Known.models /\ Group(i) = Known.models[i]
    BY DEF Settled, Groups, Group
  <2>2. Leaves(WithoutOriginal(Known, i), Known, Group(i).original)
    BY <1>2, <2>1, WithoutOriginalFacts
  <2> QED BY <1>1, <1>2, <2>2, DropBegins
<1>3. CASE Group(i).original = Null
  BY <1>1, <1>3, RemoveBegins
<1> QED BY <1>2, <1>3

LEMMA HandlersBegin ==
    ASSUME Settled, Handlers
    PROVE  BeginsWell
BY CreateOriginalBegins, CreateNumberedBegins, CreateEditBegins, SaveEditBegins,
   SaveDetailsBegins, PersistActiveBegins,
   RenameEditBegins, DesignateBegins, UndesignateBegins, RemoveEditBegins, RemoveOriginalBegins DEF Handlers

-----------------------------------------------------------------------------
(* What is read back                                                         *)

LEMMA GoodIsSound ==
    ASSUME NEW ix, GoodIndex(ix)
    PROVE  Sound(ix) /\ ix \notin Missing
<1>1. ix \notin Missing BY IndexFacts DEF GoodIndex
<1>2. DOMAIN ix.models # {} => ix.active \in DOMAIN ix.models BY DEF GoodIndex
<1>3. \A i \in DOMAIN ix.models : ix.models[i].active \in DOMAIN ix.models[i].edits \cup {0}
  BY DEF GoodIndex, GoodModel
<1> QED BY <1>1, <1>2, <1>3 DEF Sound, Missing

LEMMA RecoveredForm ==
    ASSUME IndexInv
    PROVE  Recovered = IF canonical \notin Missing THEN canonical
                       ELSE IF backup \notin Missing /\ Whole(backup, file) THEN backup
                       ELSE IF swap \notin Missing /\ Whole(swap, file) THEN swap
                       ELSE IF {canonical, backup, swap} = {Null} THEN Null ELSE Torn
<1>1. \A ix \in {canonical, backup, swap} : ix \in Missing \/ (GoodIndex(ix) /\ Sound(ix))
  BY GoodIsSound DEF IndexInv
<1>2. \A ix : Sound(ix) => ix \notin Missing BY DEF Sound, Missing
<1>3. \A ix : Complete(ix) <=> Sound(ix) /\ Whole(ix, file) BY DEF Complete, Readable, Whole
<1> QED BY <1>1, <1>2, <1>3, Zenon DEF Recovered

LEMMA RecoveredNext ==
    ASSUME IndexInv'
    PROVE  Recovered' = IF canonical' \notin Missing THEN canonical'
                        ELSE IF backup' \notin Missing /\ Whole(backup, file)' THEN backup'
                        ELSE IF swap' \notin Missing /\ Whole(swap, file)' THEN swap'
                        ELSE IF {canonical', backup', swap'} = {Null} THEN Null ELSE Torn
<1>1. \A ix \in {canonical', backup', swap'} : ix \in Missing \/ (GoodIndex(ix) /\ Sound(ix))
  BY GoodIsSound DEF IndexInv
<1>2. \A ix : Sound(ix) => ix \notin Missing BY DEF Sound, Missing
<1>3. /\ Complete(canonical)' <=> Sound(canonical') /\ Whole(canonical, file)'
      /\ Complete(backup)' <=> Sound(backup') /\ Whole(backup, file)'
      /\ Complete(swap)' <=> Sound(swap') /\ Whole(swap, file)'
  BY DEF Complete, Readable, Whole
<1>4. Recovered' = IF Sound(canonical') THEN canonical'
                   ELSE IF Complete(backup)' THEN backup'
                   ELSE IF Complete(swap)' THEN swap'
                   ELSE IF {canonical', backup', swap'} = {Null} THEN Null ELSE Torn
  BY DEF Recovered
<1> QED BY <1>1, <1>2, <1>3, <1>4, Zenon

LEMMA RecoveredFacts ==
    ASSUME IndexInv
    PROVE  /\ canonical \notin Missing => Recovered = canonical
           /\ canonical \in Missing /\ backup \notin Missing /\ Whole(backup, file)
             => Recovered = backup
           /\ Recovered \in Missing \/ GoodIndex(Recovered)
           /\ canonical \in Missing /\ Recovered \notin Missing => Whole(Recovered, file)
           /\ Recovered = Null => canonical = Null /\ backup = Null /\ swap = Null
<1>1. \A ix \in {canonical, backup, swap} : ix \in Missing \/ GoodIndex(ix) BY DEF IndexInv
<1>4. Recovered = IF canonical \notin Missing THEN canonical
                  ELSE IF backup \notin Missing /\ Whole(backup, file) THEN backup
                  ELSE IF swap \notin Missing /\ Whole(swap, file) THEN swap
                  ELSE IF {canonical, backup, swap} = {Null} THEN Null ELSE Torn
  BY RecoveredForm
<1>5. Null \in Missing /\ Torn \in Missing BY DEF Missing
<1>6. Torn # Null BY DataAssumption
<1>7. {canonical, backup, swap} = {Null} => canonical = Null /\ backup = Null /\ swap = Null OBVIOUS
<1> QED BY <1>1, <1>4, <1>5, <1>6, <1>7

\* A file is as good as the other one but for a version that is in neither index.
LEMMA ReadyWhenIdle ==
    ASSUME IInv, pc = "idle", Read # Torn, calls < MaxCalls
    PROVE  Settled /\ Known = KnownOf(Recovered) /\ Recovered # Torn
<1>1. Recovered # Torn /\ Read = Recovered BY DEF Read
<1>2. Known = KnownOf(Recovered) BY <1>1 DEF Known, KnownOf, Missing
<1>3. IndexInv /\ Steady(file) BY DEF IInv, PlanInv
<1>4. CASE Recovered \in Missing
  <2>1. Known = NoModels BY <1>2, <1>4 DEF KnownOf
  <2>2. GoodIndex(Known) /\ Whole(Known, file) BY <2>1, NoModelsFacts DEF Whole
  <2> QED BY <1>1, <1>2, <2>2, RoomAssumption DEF Settled, IInv, TypeOK, Missing
<1>5. CASE Recovered \notin Missing
  <2>1. Known = Recovered BY <1>2, <1>5 DEF KnownOf
  <2>2. Whole(Recovered, file) BY <1>3, <1>5, RecoveredFacts DEF Steady
  <2>3. GoodIndex(Recovered) BY <1>3, <1>5, RecoveredFacts
  <2> QED BY <1>1, <1>2, <2>1, <2>2, <2>3, RoomAssumption DEF Settled, IInv, TypeOK, Missing
<1> QED BY <1>4, <1>5

-----------------------------------------------------------------------------
(* The inductive invariant                                                   *)

LEMMA NoPlan == IsPlan(Publish(NoModels)) /\ GoodIndex(Publish(NoModels).index)
<1>1. Files(NoModels) = {} /\ GoodIndex(NoModels) BY NoModelsFacts
<1>2. Fitting(Publish(NoModels), NoModels, Null) BY <1>1, PublishFits
<1> QED BY <1>2 DEF Fitting

LEMMA PlanFields ==
    ASSUME NEW p, IsPlan(p)
    PROVE  /\ p.write \in Names \cup {Null} /\ p.drop \in Names \cup {Null} /\ p.tidy \in BOOLEAN
           /\ p.text \in Texts \cup {Null} /\ IsIndex(p.index)
BY DEF IsPlan, IsIndex

LEMMA BeginStep ==
    ASSUME IInv, Handlers
    PROVE  IInv'
<1>1. pc = "idle" /\ Read # Torn /\ calls < MaxCalls BY DEF Handlers
<1>2. Settled /\ Known = KnownOf(Recovered) /\ Recovered # Torn BY <1>1, ReadyWhenIdle
<1>3. PICK p : Begin(p) /\ Fitting(p, Known, Was(p)) BY <1>2, HandlersBegin DEF BeginsWell
<1>4. /\ plan' = p /\ pc' = IF p.write = Null THEN "keep" ELSE "write"
      /\ before' = Was(p) /\ previous' = Null /\ report' = "none" /\ calls' = calls + 1
      /\ file' = file /\ canonical' = canonical /\ backup' = backup /\ swap' = swap /\ faults' = faults
  BY <1>3 DEF Begin, Was, index
<1>5. IsPlan(p) /\ GoodIndex(p.index) BY <1>3 DEF Fitting
<1>6. TypeOK'
  <2>1. before' \in Texts \cup {Null, Torn} BY <1>4, <1>5, PlanFields DEF Was, IInv, TypeOK
  <2>2. calls' \in 0..MaxCalls BY <1>1, <1>4, RoomAssumption DEF IInv, TypeOK
  <2>3. pc' \in Positions BY <1>4 DEF Positions
  <2>4. IsPlan(plan)' BY <1>4, <1>5
  <2>5. \A ix \in {canonical', backup', swap', previous'} \ {Null, Torn} : IsIndex(ix)
    BY <1>4 DEF IInv, TypeOK
  <2>6. previous' # Torn BY <1>4, DataAssumption
  <2> QED BY <1>4, <2>1, <2>2, <2>3, <2>4, <2>5, <2>6 DEF IInv, TypeOK
<1>7. IndexInv' BY <1>4 DEF IInv, IndexInv, Missing
<1>8. Recovered' = Recovered BY <1>4 DEF Recovered, Complete, Readable
<1>9. PlanInv'
  <2>1. Steady(file)' BY <1>1, <1>4 DEF IInv, PlanInv, Steady
  <2>2. pc' \in {"write", "keep"} /\ Old' = Recovered BY <1>4, <1>8 DEF Old
  <2>3. Fitting(plan, KnownOf(Old), before)' BY <1>2, <1>3, <1>4, <2>2
  <2>4. pc' = "write" => plan'.write # Null /\ before' = file'[plan'.write] BY <1>4 DEF Was
  <2>5. pc' # "write" => plan'.write = Null BY <1>4
  <2>6. GoodIndex(plan.index)' BY <1>4, <1>5
  <2>7. Begun' BY <2>2 DEF Begun
  <2> QED BY <1>2, <2>1, <2>2, <2>3, <2>4, <2>5, <2>6 DEF PlanInv
<1> QED BY <1>6, <1>7, <1>9 DEF IInv

\* What holds of the plan while it is carried out.
LEMMA BegunFacts ==
    ASSUME IInv, Begun
    PROVE  /\ IsPlan(plan) /\ GoodIndex(plan.index) /\ GoodIndex(KnownOf(Old)) /\ Old # Torn
           /\ plan.write \in Names \cup {Null} /\ plan.drop \in Names \cup {Null}
           /\ plan.tidy \in BOOLEAN
           /\ Files(plan.index) = (Files(KnownOf(Old)) \ {plan.drop}) \cup ({plan.write} \ {Null})
           /\ plan.write # Null => plan.drop = Null /\ plan.text \in Texts
           /\ plan.write # Null /\ plan.write \in Files(KnownOf(Old)) => before \in Texts
           /\ plan.drop # Null => plan.drop \in Files(KnownOf(Old))
           /\ plan.tidy => plan.write # Null /\ Files(KnownOf(Old)) # {}
           /\ Old = Null => KnownOf(Old) = NoModels /\ Files(KnownOf(Old)) = {}
           /\ Old # Null => Old \notin Missing /\ KnownOf(Old) = Old /\ GoodIndex(Old)
<1>1. Fitting(plan, KnownOf(Old), before) /\ Old # Torn BY DEF IInv, PlanInv
<1>2. IsPlan(plan) BY <1>1 DEF Fitting
<1>3. Old \in Missing \/ GoodIndex(Old)
  BY RecoveredFacts DEF IInv, IndexInv, Old
<1>4. Old = Null => KnownOf(Old) = NoModels BY DEF KnownOf, Missing
<1>5. Old # Null => Old \notin Missing /\ KnownOf(Old) = Old BY <1>1 DEF KnownOf, Missing
<1>6. GoodIndex(KnownOf(Old)) BY <1>3, <1>4, <1>5, NoModelsFacts
<1>7. /\ plan.write \in Names \cup {Null} /\ plan.drop \in Names \cup {Null} /\ plan.tidy \in BOOLEAN
  BY <1>2, PlanFields
<1> HIDE DEF Old
<1> QED BY <1>1, <1>2, <1>3, <1>4, <1>5, <1>6, <1>7, NoModelsFacts DEF Fitting

\* Between the backup and the last write the old index and the new one can
\* both be read.
Middle == pc \in {"publish", "restore", "drop", "undrop"}
LEMMA MiddleFacts ==
    ASSUME IInv, Middle
    PROVE  /\ Begun /\ Old = previous /\ previous # Torn
           /\ Whole(plan.index, file) /\ GoodIndex(plan.index) /\ plan.index \notin Missing
           /\ previous # Null => /\ backup = previous /\ previous \notin Missing
                /\ Whole(previous, file)
                                 /\ GoodIndex(previous)
           /\ previous = Null => canonical \in Missing \cup {plan.index} /\ backup = Null
           /\ pc \in {"restore", "drop", "undrop"} => previous # Null
           /\ plan.tidy => previous # Null
           /\ previous # Null => Whole(previous, Before)
<1>1. Begun /\ Old = previous BY DEF Middle, Begun, Old
<1>2. Whole(KnownOf(previous), file) /\ (previous # Null => backup = previous)
      /\ (previous = Null => canonical = Null /\ backup = Null /\ swap = Null)
      /\ (pc = "restore" => previous # Null)
      /\ (pc \in {"drop", "undrop"} => plan.drop # Null /\ canonical = plan.index)
      /\ (plan.write # Null => file[plan.write] = plan.text)
  BY <1>1 DEF IInv, PlanInv, Middle, Begun
<1>3. plan.drop # Null => previous # Null BY <1>1, BegunFacts
<1>4. plan.tidy => previous # Null BY <1>1, BegunFacts
<1>5. previous # Null => previous \notin Missing /\ KnownOf(previous) = previous /\ GoodIndex(previous)
  BY <1>1, BegunFacts
<1>6. Whole(plan.index, file)
  <2>1. \A n \in Files(plan.index) : n \in Files(KnownOf(previous)) \/ (n = plan.write /\ plan.write # Null)
    BY <1>1, BegunFacts
  <2>2. plan.write # Null => plan.text \in Texts BY <1>1, BegunFacts
  <2> QED BY <1>2, <2>1, <2>2 DEF Whole
<1>7. GoodIndex(plan.index) /\ plan.index \notin Missing BY GoodIsSound DEF IInv, PlanInv
<1>8. previous # Null => Whole(previous, Before)
  <2>1. SUFFICES ASSUME previous # Null, NEW n \in Files(previous) PROVE Before[n] \in Texts
    BY DEF Whole
  <2>2. file[n] \in Texts BY <1>2, <1>5, <2>1 DEF Whole
  <2>3. n = plan.write /\ plan.write # Null => before \in Texts BY <1>1, <1>5, <2>1, BegunFacts
  <2>4. n \in Names BY <1>5, <2>1, FilesFacts
  <2> QED BY <2>2, <2>3, <2>4 DEF Before, IInv, TypeOK
<1> QED BY <1>1, <1>2, <1>3, <1>4, <1>5, <1>6, <1>7, <1>8, BegunFacts DEF Missing, Middle

\* Any of the two may be in the index when the call ends.
LEMMA MiddleSteady ==
    ASSUME IInv, Middle, file' = file, backup' = backup,
           canonical' \in Missing \cup {previous, plan.index}
    PROVE  Steady(file)'
<1>1. canonical' \notin Missing => Whole(canonical, file)'
  <2>1. CASE canonical' = plan.index BY <2>1, MiddleFacts DEF Whole
  <2>2. CASE canonical' = previous /\ previous # Null BY <2>2, MiddleFacts DEF Whole
  <2> QED BY <2>1, <2>2 DEF Missing
<1>2. canonical' \in Missing /\ backup' \notin Missing => Whole(backup, file)'
  <2>1. CASE previous # Null BY <2>1, MiddleFacts DEF Whole
  <2>2. CASE previous = Null BY <2>2, MiddleFacts DEF Missing
  <2> QED BY <2>1, <2>2
<1> QED BY <1>1, <1>2 DEF Steady

LEMMA MiddleTidy ==
    ASSUME IInv, Middle, file' = file, backup' = backup, canonical' \in Missing \cup {previous},
           plan' = plan, before' = before, previous # Null
    PROVE  Steady(Before)'
<1>1. Before' = Before BY DEF Before
<1>2. Whole(previous, Before) /\ backup = previous BY MiddleFacts
<1>4. canonical' \notin Missing => Whole(canonical, Before)' BY <1>1, <1>2 DEF Whole
<1>5. Whole(backup, Before)' BY <1>1, <1>2 DEF Whole
<1> QED BY <1>4, <1>5 DEF Steady

\* What holds when a call has returned.
LEMMA ReturnInv ==
    ASSUME IInv, NEW r \in {"none", "done", "failed"}, Return(r),
           file' \in [Names -> Texts \cup {Null, Torn}],
           \A ix \in {canonical', backup', swap'} : ix \in Missing \/ GoodIndex(ix),
           Steady(file)', faults' \in 0..(MaxFaults + 1)
    PROVE  IInv'
<1>1. /\ plan' = Publish(NoModels) /\ previous' = Null /\ before' = Null /\ pc' = "idle" /\ report' = r
      /\ calls' = calls
  BY DEF Return
<1>2. IsPlan(plan)' /\ GoodIndex(plan.index)' BY <1>1, NoPlan
<1>3. IndexInv' BY <1>1 DEF IndexInv, Missing
<1>4. \A ix \in {canonical', backup', swap', previous'} \ {Null, Torn} : IsIndex(ix)
  BY <1>3 DEF IndexInv, Missing, GoodIndex
<1>5. TypeOK' BY <1>1, <1>2, <1>4, DataAssumption DEF TypeOK, IInv, Positions
<1>6. PlanInv' BY <1>1, <1>2 DEF PlanInv, Begun
<1> QED BY <1>3, <1>5, <1>6 DEF IInv

\* What the indexes are.
LEMMA IndexTypes ==
    ASSUME IInv
    PROVE  /\ \A ix \in {canonical, backup, swap, previous, Recovered} : ix \in Missing \/ GoodIndex(ix)
           /\ Null \in Missing /\ Torn \in Missing
           /\ \A ix : GoodIndex(ix) => IsIndex(ix)
BY RecoveredFacts DEF IInv, IndexInv, Missing, GoodIndex

LEMMA WriteFileStep ==
    ASSUME IInv, WriteFile
    PROVE  IInv' /\ Recovered' = Recovered
<1>1. /\ pc = "write" /\ pc' = "keep" /\ file' = [file EXCEPT ![plan.write] = plan.text]
      /\ report' = report /\ plan' = plan /\ before' = before /\ calls' = calls /\ previous' = previous
      /\ canonical' = canonical /\ backup' = backup /\ swap' = swap /\ faults' = faults
  BY DEF WriteFile, Goto, call, index
<1>2. Begun /\ Old = Recovered BY <1>1 DEF Begun, Old
<1>3. plan.write \in Names /\ plan.write # Null /\ plan.text \in Texts
  BY <1>1, <1>2, BegunFacts DEF IInv, PlanInv
<1>4. /\ file \in [Names -> Texts \cup {Null, Torn}] /\ file'[plan.write] = plan.text
      /\ \A n \in Names : n # plan.write => file'[n] = file[n]
  BY <1>1, <1>3 DEF IInv, TypeOK
<1>5. TypeOK'
  <2>1. file' \in [Names -> Texts \cup {Null, Torn}] BY <1>1, <1>3, <1>4
  <2> QED BY <1>1, <2>1 DEF IInv, TypeOK, Positions
<1>6. IndexInv' BY <1>1 DEF IInv, IndexInv, Missing
<1>7. \A ix : Whole(ix, file) /\ Files(ix) \subseteq Names => Whole(ix, file')
  BY <1>3, <1>4 DEF Whole
<1>8. Steady(file)
  BY <1>1 DEF IInv, PlanInv
<1>9. \A ix \in {canonical, backup} : ix \notin Missing => Files(ix) \subseteq Names
  BY FilesFacts, IndexTypes
<1>10. Steady(file)'
  <2>1. canonical \notin Missing => Whole(canonical, file') BY <1>7, <1>8, <1>9 DEF Steady
  <2>2. canonical \in Missing /\ backup \notin Missing => Whole(backup, file')
    BY <1>7, <1>8, <1>9 DEF Steady
  <2> QED BY <1>1, <2>1, <2>2 DEF Steady, Whole
<1>11. Recovered' = Recovered
  <2>1. IndexInv /\ IndexInv' BY <1>6 DEF IInv
  <2>2. canonical \in Missing /\ backup \in Missing /\ swap \notin Missing /\ Whole(swap, file)
        => Whole(swap, file')
    BY <1>7, FilesFacts, IndexTypes
  <2>3. canonical \in Missing /\ backup \notin Missing => Whole(backup, file) /\ Whole(backup, file')
    BY <1>1, <1>8, <1>10 DEF Steady, Whole
  <2>4. Recovered # Torn BY <1>2, BegunFacts
  <2>5. Recovered = IF canonical \notin Missing THEN canonical
                    ELSE IF backup \notin Missing /\ Whole(backup, file) THEN backup
                    ELSE IF swap \notin Missing /\ Whole(swap, file) THEN swap
                    ELSE IF {canonical, backup, swap} = {Null} THEN Null ELSE Torn
    BY <2>1, RecoveredForm
  <2>6. Recovered' = IF canonical \notin Missing THEN canonical
                     ELSE IF backup \notin Missing /\ Whole(backup, file') THEN backup
                     ELSE IF swap \notin Missing /\ Whole(swap, file') THEN swap
                     ELSE IF {canonical, backup, swap} = {Null} THEN Null ELSE Torn
    <3>1. Whole(backup, file)' = Whole(backup, file') /\ Whole(swap, file)' = Whole(swap, file')
      BY <1>1 DEF Whole
    <3> QED BY <1>1, <2>1, <3>1, RecoveredNext
  <2>7. {canonical, backup, swap} = {Null} => canonical \in Missing /\ backup \in Missing
        /\ swap \in Missing
    BY DEF Missing
  <2> QED BY <2>2, <2>3, <2>4, <2>5, <2>6, <2>7, Zenon
<1>12. PlanInv'
  <2>1. Old' = Old BY <1>1, <1>2, <1>11 DEF Old
  <2>2. Fitting(plan, KnownOf(Old), before)' BY <1>1, <2>1, <1>2 DEF IInv, PlanInv
  <2>3. Old' # Torn BY <1>2, <2>1, BegunFacts
  <2>4. GoodIndex(plan.index)' BY <1>1 DEF IInv, PlanInv
  <2> QED BY <1>1, <1>4, <1>10, <2>2, <2>3, <2>4 DEF PlanInv
<1> QED BY <1>5, <1>6, <1>11, <1>12 DEF IInv

LEMMA KeepStep ==
    ASSUME IInv, Keep
    PROVE  IInv'
<1>1. /\ pc = "keep" /\ pc' = "publish" /\ previous' = Recovered
      /\ backup' = (IF Recovered = Null THEN backup ELSE Recovered)
      /\ file' = file /\ canonical' = canonical /\ swap' = swap /\ report' = report /\ faults' = faults
      /\ plan' = plan /\ before' = before /\ calls' = calls
  BY DEF Keep, call
<1>2. Begun /\ Old = Recovered /\ Begun' BY <1>1 DEF Begun, Old
<1>3. Recovered # Torn BY <1>2, BegunFacts
<1>4. \A ix \in {canonical', backup', swap', previous'} : ix \in Missing \/ GoodIndex(ix)
  BY <1>1, IndexTypes
<1>5. IndexInv' BY <1>4 DEF IndexInv, Missing
<1>6. TypeOK'
  <2>1. \A ix \in {canonical', backup', swap', previous'} \ {Null, Torn} : IsIndex(ix)
    BY <1>4 DEF Missing, GoodIndex
  <2> QED BY <1>1, <1>3, <2>1 DEF IInv, TypeOK, Positions
<1>7. Whole(KnownOf(Recovered), file)
  <2>1. CASE Recovered = Null BY <1>2, <2>1, BegunFacts DEF Whole
  <2>2. CASE Recovered # Null
    <3>1. Recovered \notin Missing /\ KnownOf(Recovered) = Recovered BY <1>2, <2>2, BegunFacts
    <3>2. Steady(file) /\ IndexInv BY <1>1 DEF IInv, PlanInv
    <3>3. Whole(Recovered, file) BY <3>1, <3>2, RecoveredFacts DEF Steady
    <3> QED BY <3>1, <3>3
  <2> QED BY <2>1, <2>2
<1>8. canonical \in Missing \cup {Recovered}
      /\ (Recovered = Null => canonical = Null /\ backup = Null /\ swap = Null)
  BY RecoveredFacts DEF IInv
<1>9. PlanInv'
  <2>1. Old' = Recovered BY <1>1 DEF Old
  <2>2. Fitting(plan, KnownOf(Old), before)' BY <1>1, <1>2, <2>1 DEF IInv, PlanInv
  <2>3. GoodIndex(plan.index)' BY <1>1 DEF IInv, PlanInv
  <2>4. plan'.write # Null => file'[plan'.write] = plan'.text BY <1>1, <1>2 DEF IInv, PlanInv
  <2>5. Whole(KnownOf(previous), file)' BY <1>1, <1>7 DEF Whole, KnownOf
  <2> QED BY <1>1, <1>3, <1>8, <2>1, <2>2, <2>3, <2>4, <2>5 DEF PlanInv, Missing
<1> QED BY <1>5, <1>6, <1>9 DEF IInv

LEMMA PublishIndexStep ==
    ASSUME IInv, PublishIndex
    PROVE  IInv'
<1>1. /\ pc = "publish" /\ canonical' = plan.index /\ file' = file /\ backup' = backup /\ swap' = swap
      /\ faults' = faults
  BY DEF PublishIndex
<1>2. Middle /\ Begun BY <1>1 DEF Middle, Begun
<1>3. GoodIndex(plan.index) /\ plan.index \notin Missing BY <1>2, MiddleFacts
<1>4. \A ix \in {canonical', backup', swap', previous} : ix \in Missing \/ GoodIndex(ix)
  BY <1>1, <1>3, IndexTypes
<1>5. file' \in [Names -> Texts \cup {Null, Torn}] /\ faults' \in 0..(MaxFaults + 1)
  BY <1>1 DEF IInv, TypeOK
<1>6. CASE plan.drop = Null
  <2>1. Return("done") BY <1>6 DEF PublishIndex
  <2>2. Steady(file)' BY <1>1, <1>2, MiddleSteady
  <2> QED BY <1>4, <1>5, <2>1, <2>2, ReturnInv
<1>7. CASE plan.drop # Null
  <2>1. /\ pc' = "drop" /\ report' = report /\ plan' = plan /\ before' = before /\ calls' = calls
        /\ previous' = previous
    BY <1>7 DEF PublishIndex, Goto, call
  <2>2. IndexInv' BY <1>4, <2>1 DEF IndexInv, Missing
  <2>3. TypeOK'
    <3>1. \A ix \in {canonical', backup', swap', previous'} \ {Null, Torn} : IsIndex(ix)
      BY <1>4, <2>1 DEF Missing, GoodIndex
    <3> QED BY <1>1, <1>5, <2>1, <3>1 DEF IInv, TypeOK, Positions
  <2>4. previous # Null
    <3>1. Old = previous BY <1>1 DEF Old
    <3> QED BY <1>2, <1>7, <3>1, BegunFacts
  <2>5. PlanInv'
    <3>1. Old' = Old /\ Old = previous BY <1>1, <2>1 DEF Old
    <3>2. Fitting(plan, KnownOf(Old), before)' BY <1>2, <2>1, <3>1 DEF IInv, PlanInv
    <3>3. GoodIndex(plan.index)' BY <1>3, <2>1
    <3>4. plan'.write # Null => file'[plan'.write] = plan'.text
      BY <1>1, <1>2, <2>1 DEF IInv, PlanInv
    <3>5. Whole(KnownOf(previous), file)' BY <1>1, <2>1 DEF Whole, KnownOf, IInv, PlanInv
    <3>6. previous' # Null => backup' = previous' BY <1>1, <2>1 DEF IInv, PlanInv
    <3>7. Old' # Torn BY <1>2, <3>1, BegunFacts
    <3> QED BY <1>1, <1>7, <2>1, <2>4, <3>2, <3>3, <3>4, <3>5, <3>6, <3>7 DEF PlanInv
  <2> QED BY <2>2, <2>3, <2>5 DEF IInv
<1> QED BY <1>6, <1>7

\* A call that tidies up leaves its file as it was before.
LEMMA TidyInv ==
    ASSUME IInv, Begun, plan.tidy, Goto("tidy"), file' \in [Names -> Texts \cup {Null, Torn}],
           \A ix \in {canonical', backup', swap'} : ix \in Missing \/ GoodIndex(ix),
           Steady(file)', Steady(Before)', faults' \in 0..(MaxFaults + 1)
    PROVE  IInv'
<1>1. /\ pc' = "tidy" /\ report' = report /\ plan' = plan /\ before' = before /\ calls' = calls
      /\ previous' = previous
  BY DEF Goto, call
<1>2. IndexInv' BY <1>1, IndexTypes DEF IndexInv
<1>3. TypeOK'
  <2>1. \A ix \in {canonical', backup', swap', previous'} \ {Null, Torn} : IsIndex(ix)
    BY <1>2 DEF IndexInv, Missing, GoodIndex
  <2> QED BY <1>1, <2>1 DEF IInv, TypeOK, Positions
<1>4. plan'.write # Null BY <1>1, BegunFacts
<1>5. GoodIndex(plan.index)' BY <1>1 DEF IInv, PlanInv
<1>6. PlanInv' BY <1>1, <1>4, <1>5 DEF PlanInv, Begun
<1> QED BY <1>2, <1>3, <1>6 DEF IInv

LEMMA RestoreStep ==
    ASSUME IInv, Restore
    PROVE  IInv'
<1>1. /\ pc = "restore" /\ canonical' = previous /\ file' = file /\ backup' = backup /\ swap' = swap
      /\ faults' = faults
  BY DEF Restore
<1>2. Middle /\ Begun BY <1>1 DEF Middle, Begun
<1>3. \A ix \in {canonical', backup', swap'} : ix \in Missing \/ GoodIndex(ix)
  BY <1>1, IndexTypes
<1>4. file' \in [Names -> Texts \cup {Null, Torn}] /\ faults' \in 0..(MaxFaults + 1)
  BY <1>1 DEF IInv, TypeOK
<1>5. Steady(file)' BY <1>1, <1>2, MiddleSteady
<1>6. CASE plan.tidy
  <2>1. Goto("tidy") BY <1>6 DEF Restore, Leave
  <2>2. plan' = plan /\ before' = before BY <2>1 DEF Goto, call
  <2>3. previous # Null BY <1>1, <1>2, MiddleFacts
  <2>4. Steady(Before)' BY <1>1, <1>2, <2>2, <2>3, MiddleTidy
  <2> QED BY <1>2, <1>3, <1>4, <1>5, <1>6, <2>1, <2>4, TidyInv
<1>7. CASE ~plan.tidy
  <2>1. Return("failed") BY <1>7 DEF Restore, Leave
  <2> QED BY <1>3, <1>4, <1>5, <2>1, ReturnInv
<1> QED BY <1>6, <1>7

LEMMA DropStep ==
    ASSUME IInv, Drop
    PROVE  IInv'
<1>1. /\ pc = "drop" /\ canonical' = canonical /\ file' = [file EXCEPT ![plan.drop] = Null]
      /\ backup' = backup
      /\ swap' = swap /\ faults' = faults /\ Return("done")
  BY DEF Drop, index
<1>2. Middle /\ Begun /\ Old = previous BY <1>1 DEF Middle, Begun, Old
<1>3. \A ix \in {canonical', backup', swap'} : ix \in Missing \/ GoodIndex(ix)
  BY <1>1, IndexTypes
<1>4. plan.drop # Null /\ canonical = plan.index BY <1>1 DEF IInv, PlanInv
<1>5. /\ plan.drop \in Names /\ plan.index \notin Missing /\ Whole(plan.index, file)
      /\ plan.drop \notin Files(plan.index)
  <2>1. plan.drop \in Names /\ plan.write = Null BY <1>2, <1>4, BegunFacts
  <2>2. plan.drop \notin Files(plan.index) BY <1>2, <2>1, BegunFacts
  <2> QED BY <1>2, <2>1, <2>2, MiddleFacts
<1>6. file' \in [Names -> Texts \cup {Null, Torn}] /\ faults' \in 0..(MaxFaults + 1)
  BY <1>1, <1>5 DEF IInv, TypeOK
<1>7. \A n \in Files(plan.index) : file'[n] = file[n]
  <2>1. Files(plan.index) \subseteq Names BY FilesFacts DEF IInv, PlanInv
  <2> QED BY <1>1, <1>5, <2>1 DEF IInv, TypeOK
<1>8. Whole(canonical, file)' BY <1>1, <1>4, <1>5, <1>7 DEF Whole
<1>9. Steady(file)' BY <1>1, <1>4, <1>5, <1>8 DEF Steady
<1> QED BY <1>1, <1>3, <1>6, <1>9, ReturnInv

LEMMA UndropStep ==
    ASSUME IInv, Undrop
    PROVE  IInv'
<1>1. /\ pc = "undrop" /\ canonical' = previous /\ file' = file /\ backup' = backup
      /\ swap' = swap /\ faults' = faults /\ Return("failed")
  BY DEF Undrop
<1>2. Middle BY <1>1 DEF Middle
<1>3. \A ix \in {canonical', backup', swap'} : ix \in Missing \/ GoodIndex(ix)
  BY <1>1, IndexTypes
<1>4. file' \in [Names -> Texts \cup {Null, Torn}] /\ faults' \in 0..(MaxFaults + 1)
  BY <1>1 DEF IInv, TypeOK
<1>5. Steady(file)' BY <1>1, <1>2, MiddleSteady
<1> QED BY <1>1, <1>3, <1>4, <1>5, ReturnInv

LEMMA TidyStep ==
    ASSUME IInv, Tidy
    PROVE  IInv'
<1>1. /\ pc = "tidy" /\ file' = [file EXCEPT ![plan.write] = before] /\ canonical' = canonical
      /\ backup' = backup
      /\ swap' = swap /\ faults' = faults /\ Return("failed")
  BY DEF Tidy, index
<1>2. \A ix \in {canonical', backup', swap'} : ix \in Missing \/ GoodIndex(ix)
  BY <1>1, IndexTypes
<1>3. plan.write # Null /\ Steady(Before) BY <1>1 DEF IInv, PlanInv
<1>4. plan.write \in Names BY <1>3, PlanFields DEF IInv, TypeOK
<1>5. file' \in [Names -> Texts \cup {Null, Torn}] /\ faults' \in 0..(MaxFaults + 1)
  BY <1>1, <1>4 DEF IInv, TypeOK
<1>6. file' = Before BY <1>1, <1>3 DEF Before
<1>7. Steady(file)' BY <1>1, <1>3, <1>6 DEF Steady, Whole
<1> QED BY <1>1, <1>2, <1>5, <1>7, ReturnInv

\* What an interrupted operation leaves can be read again, and so can what it
\* leaves once the file is put back.
Survives ==
  /\ file' \in [Names -> Texts \cup {Null, Torn}]
  /\ \A ix \in {canonical', backup', swap'} : ix \in Missing \/ GoodIndex(ix)
  /\ Steady(file)'

LEMMA PartialWrite ==
    ASSUME IInv, pc = "write", Partial
    PROVE  Survives /\ (plan' = plan /\ before' = before => Steady(Before)')
<1>1. /\ canonical' = canonical /\ backup' = backup /\ swap' = swap
      /\ \/ file' = file
         \/ \E c \in {plan.text} \cup (IF before = Null THEN {Torn} ELSE {}) : file' = [file EXCEPT ![plan.write] = c]
  BY DEF Partial, index
<1>2. Begun /\ Old = Recovered /\ plan.write # Null /\ before = file[plan.write] /\ Steady(file)
  BY DEF IInv, PlanInv, Begun, Old
<1>3. plan.write \in Names /\ plan.text \in Texts BY <1>2, BegunFacts
<1>4. PICK c : /\ file' = file \/ file' = [file EXCEPT ![plan.write] = c]
               /\ c = plan.text \/ (before = Null /\ c = Torn)
  BY <1>1
<1>5. file \in [Names -> Texts \cup {Null, Torn}] BY DEF IInv, TypeOK
<1>6. file' \in [Names -> Texts \cup {Null, Torn}] BY <1>3, <1>4, <1>5
<1>7. \A n \in Names : file'[n] = file[n] \/ (n = plan.write /\ file'[n] = c) BY <1>3, <1>4, <1>5
<1>8. ASSUME NEW ix, ix = canonical \/ (canonical \in Missing /\ ix = backup), ix \notin Missing
      PROVE  Whole(ix, file') /\ Whole(ix, file) /\ Files(ix) \subseteq Names
  <2>1. ix = Recovered /\ Whole(ix, file) /\ GoodIndex(ix)
    BY <1>2, <1>8, RecoveredFacts, IndexTypes DEF IInv, Steady
  <2>2. KnownOf(Old) = ix BY <1>2, <1>8, <2>1 DEF KnownOf
  <2>3. plan.write \in Files(ix) => before \in Texts BY <1>2, <2>2, BegunFacts
  <2>4. Files(ix) \subseteq Names BY <2>1, FilesFacts
  <2>5. Null \notin Texts BY DataAssumption
  <2>6. \A n \in Files(ix) : file'[n] = file[n] \/ file'[n] \in Texts
    BY <1>3, <1>4, <1>7, <2>3, <2>4, <2>5
  <2> QED BY <2>1, <2>4, <2>6 DEF Whole
<1>9. Steady(file)' BY <1>1, <1>8 DEF Steady, Whole
<1>10. ASSUME plan' = plan, before' = before PROVE Steady(Before)'
  <2>1. Before' = [file' EXCEPT ![plan.write] = before] BY <1>2, <1>10 DEF Before
  <2>2. \A n \in Names : Before'[n] = file[n] BY <1>2, <1>6, <1>7, <2>1
  <2>3. ASSUME NEW ix, ix = canonical \/ (canonical \in Missing /\ ix = backup), ix \notin Missing
        PROVE  \A n \in Files(ix) : Before'[n] \in Texts
    BY <1>8, <2>2, <2>3 DEF Whole
  <2> HIDE DEF Before
  <2> QED BY <1>1, <2>3 DEF Steady, Whole
<1>11. \A ix \in {canonical', backup', swap'} : ix \in Missing \/ GoodIndex(ix) BY <1>1, IndexTypes
<1> QED BY <1>6, <1>9, <1>10, <1>11 DEF Survives

LEMMA PartialKeep ==
    ASSUME IInv, pc = "keep", Partial
    PROVE  Survives /\ (plan' = plan /\ before' = before => Steady(Before)')
<1>1. /\ file' = file /\ canonical' = canonical /\ swap' = swap
      /\ backup' = backup \/ (Recovered # Null /\ backup' \in {Recovered, Torn})
  BY DEF Partial, index
<1>2. Begun /\ Old = Recovered /\ Steady(file) BY DEF IInv, PlanInv, Begun, Old
<1>3. file \in [Names -> Texts \cup {Null, Torn}] BY DEF IInv, TypeOK
<1>4. \A ix \in {canonical', backup', swap'} : ix \in Missing \/ GoodIndex(ix) BY <1>1, IndexTypes
<1>5. ASSUME NEW ix, ix = canonical \/ (canonical \in Missing /\ ix = backup'), ix \notin Missing
      PROVE  ix = Recovered /\ Whole(ix, file)
  BY <1>1, <1>2, <1>5, RecoveredFacts, IndexTypes DEF IInv, Steady
<1>6. Steady(file)' BY <1>1, <1>5 DEF Steady, Whole
<1>7. ASSUME plan' = plan, before' = before PROVE Steady(Before)'
  <2>1. Before' = Before BY <1>1, <1>7 DEF Before
  <2>2. ASSUME NEW ix, ix = canonical \/ (canonical \in Missing /\ ix = backup'), ix \notin Missing
        PROVE  \A n \in Files(ix) : Before[n] \in Texts
    <3>1. ix = Recovered /\ Whole(ix, file) BY <1>5, <2>2
    <3>2. KnownOf(Old) = ix BY <1>2, <2>2, <3>1 DEF KnownOf
    <3>3. plan.write # Null /\ plan.write \in Files(ix) => before \in Texts
      BY <1>2, <3>2, BegunFacts
    <3>4. Files(ix) \subseteq Names BY <2>2, <3>1, IndexTypes, FilesFacts
    <3> QED BY <1>3, <3>1, <3>3, <3>4 DEF Before, Whole
  <2> HIDE DEF Before
  <2> QED BY <1>1, <2>1, <2>2 DEF Steady, Whole
<1> QED BY <1>1, <1>3, <1>4, <1>6, <1>7 DEF Survives

LEMMA PartialMiddle ==
    ASSUME IInv, Middle, Partial
    PROVE  /\ Survives /\ file' = file /\ backup' = backup
           /\ canonical' \in Missing \cup {previous, plan.index}
           /\ pc = "restore" /\ canonical # plan.index => canonical' \in Missing \cup {previous}
           /\ pc = "drop" => canonical' = canonical
<1>1. /\ file' = file /\ backup' = backup
      /\ \/ UNCHANGED <<canonical, swap>>
         \/ pc = "publish" /\ Cut(plan.index)
         \/ pc \in {"restore", "undrop"} /\ Cut(previous)
  BY DEF Partial, Middle, index
<1>2. /\ canonical \in Missing \cup {previous, plan.index}
      /\ pc = "restore" /\ canonical # plan.index => canonical \in Missing \cup {previous}
  BY DEF IInv, PlanInv, Middle
<1>3. canonical' \in {canonical, Null, Torn, plan.index, previous}
      /\ swap' \in {swap, plan.index, previous}
  BY <1>1 DEF Cut
<1>4. pc \in {"restore", "undrop"} => canonical' \in {canonical, Null, Torn, previous}
  BY <1>1 DEF Cut
<1>5. pc = "drop" => canonical' = canonical BY <1>1
<1>6. canonical' \in Missing \cup {previous, plan.index} BY <1>2, <1>3 DEF Missing
<1>7. Steady(file)' BY <1>1, <1>6, MiddleSteady
<1>8. GoodIndex(plan.index) BY DEF IInv, PlanInv
<1>9. \A ix \in {canonical', backup', swap'} : ix \in Missing \/ GoodIndex(ix)
  BY <1>1, <1>3, <1>6, <1>8, IndexTypes
<1>10. file' \in [Names -> Texts \cup {Null, Torn}] BY <1>1 DEF IInv, TypeOK
<1> QED BY <1>1, <1>2, <1>4, <1>5, <1>6, <1>7, <1>9, <1>10 DEF Survives, Missing

LEMMA PartialTidy ==
    ASSUME IInv, pc = "tidy", Partial
    PROVE  Survives
<1>1. file' = file /\ canonical' = canonical /\ backup' = backup /\ swap' = swap
  BY DEF Partial, index
<1>2. Steady(file) BY DEF IInv, PlanInv
<1>3. Steady(file)' BY <1>1, <1>2 DEF Steady, Whole
<1> QED BY <1>1, <1>3, IndexTypes DEF Survives, IInv, TypeOK

LEMMA PartialSurvives ==
    ASSUME IInv, pc # "idle", Partial
    PROVE  Survives
<1>1. pc \in {"write", "keep", "tidy"} \/ Middle BY DEF IInv, TypeOK, Positions, Middle
<1> QED BY <1>1, PartialWrite, PartialKeep, PartialMiddle, PartialTidy

LEMMA SpareFacts ==
    ASSUME IInv, Spare, faults' = faults + 1
    PROVE  faults' \in 0..(MaxFaults + 1)
BY FaultAssumption DEF IInv, TypeOK, Spare

LEMMA CrashStep ==
    ASSUME IInv, Crash
    PROVE  IInv'
<1>1. pc # "idle" /\ Spare /\ Partial /\ faults' = faults + 1 /\ Return("none") BY DEF Crash
<1>2. Survives BY <1>1, PartialSurvives
<1> QED BY <1>1, <1>2, SpareFacts, ReturnInv DEF Survives

LEMMA FaultStep ==
    ASSUME StuckLate = FALSE, IInv, Fault
    PROVE  IInv'
<1>1. /\ pc # "idle" /\ Spare /\ Partial /\ faults' = faults + 1
      /\ ~(pc = "restore" /\ canonical = plan.index)
      /\ CASE pc = "publish" /\ previous # Null -> Goto("restore")
           [] pc = "drop" -> Goto("undrop")
           [] pc \in {"undrop", "tidy"} -> Return("failed")
           [] OTHER -> Leave
  BY DEF Fault
<1>2. Survives BY <1>1, PartialSurvives
<1>3. faults' \in 0..(MaxFaults + 1) BY <1>1, SpareFacts
<1>4. ASSUME Return("failed") PROVE IInv'
  BY <1>2, <1>3, <1>4, ReturnInv DEF Survives
<1>5. CASE pc = "publish" /\ previous # Null
  <2>1. Goto("restore") BY <1>1, <1>5
  <2>2. /\ pc' = "restore" /\ report' = report /\ plan' = plan /\ before' = before /\ calls' = calls
        /\ previous' = previous
    BY <2>1 DEF Goto, call
  <2>3. Middle /\ Begun BY <1>5 DEF Middle, Begun
  <2>4. file' = file /\ backup' = backup /\ canonical' \in Missing \cup {previous, plan.index}
    BY <1>1, <2>3, PartialMiddle
  <2>5. IndexInv'
    BY <1>2, <2>2, IndexTypes DEF Survives, IndexInv
  <2>6. TypeOK'
    <3>1. \A ix \in {canonical', backup', swap', previous'} \ {Null, Torn} : IsIndex(ix)
      BY <2>5 DEF IndexInv, Missing, GoodIndex
    <3> QED BY <1>3, <2>2, <2>4, <3>1 DEF IInv, TypeOK, Positions
  <2>7. PlanInv'
    <3>1. Old' = previous /\ Old = previous BY <1>5, <2>2 DEF Old
    <3>2. Fitting(plan, KnownOf(Old), before)' BY <2>2, <2>3, <3>1 DEF IInv, PlanInv
    <3>3. GoodIndex(plan.index)' BY <2>2 DEF IInv, PlanInv
    <3>4. plan'.write # Null => file'[plan'.write] = plan'.text
      BY <1>5, <2>2, <2>3, <2>4 DEF IInv, PlanInv
    <3>5. Whole(KnownOf(previous), file)' BY <1>5, <2>2, <2>4 DEF Whole, KnownOf, IInv, PlanInv
    <3>6. backup' = previous' BY <1>5, <2>2, <2>4 DEF IInv, PlanInv
    <3>7. Old' # Torn BY <2>3, <3>1, BegunFacts
    <3> QED BY <1>5, <2>2, <2>4, <3>2, <3>3, <3>4, <3>5, <3>6, <3>7 DEF PlanInv
  <2> QED BY <2>5, <2>6, <2>7 DEF IInv
<1>6. CASE pc = "drop"
  <2>1. Goto("undrop") BY <1>1, <1>6
  <2>2. /\ pc' = "undrop" /\ report' = report /\ plan' = plan /\ before' = before /\ calls' = calls
        /\ previous' = previous
    BY <2>1 DEF Goto, call
  <2>3. Middle /\ Begun BY <1>6 DEF Middle, Begun
  <2>4. file' = file /\ backup' = backup /\ canonical' = canonical
    BY <1>1, <1>6, <2>3, PartialMiddle
  <2>5. IndexInv'
    BY <1>2, <2>2, IndexTypes DEF Survives, IndexInv
  <2>6. TypeOK'
    <3>1. \A ix \in {canonical', backup', swap', previous'} \ {Null, Torn} : IsIndex(ix)
      BY <2>5 DEF IndexInv, Missing, GoodIndex
    <3> QED BY <1>3, <2>2, <2>4, <3>1 DEF IInv, TypeOK, Positions
  <2>7. PlanInv'
    <3>1. Old' = previous /\ Old = previous BY <1>6, <2>2 DEF Old
    <3>2. Fitting(plan, KnownOf(Old), before)' BY <2>2, <2>3, <3>1 DEF IInv, PlanInv
    <3>3. GoodIndex(plan.index)' BY <2>2 DEF IInv, PlanInv
    <3>4. plan'.write # Null => file'[plan'.write] = plan'.text
      BY <1>6, <2>2, <2>3, <2>4 DEF IInv, PlanInv
    <3>5. Whole(KnownOf(previous), file)' BY <1>6, <2>2, <2>4 DEF Whole, KnownOf, IInv, PlanInv
    <3>6. backup' = previous' /\ previous' # Null BY <1>6, <2>2, <2>3, <2>4, MiddleFacts
    <3>7. Old' # Torn BY <2>3, <3>1, BegunFacts
    <3>8. plan'.drop # Null /\ canonical' = plan'.index BY <1>6, <2>2, <2>4 DEF IInv, PlanInv
    <3> QED BY <1>6, <2>2, <2>4, <3>2, <3>3, <3>4, <3>5, <3>6, <3>7, <3>8 DEF PlanInv
  <2> QED BY <2>5, <2>6, <2>7 DEF IInv
<1>7. CASE pc \in {"undrop", "tidy"}
  BY <1>1, <1>4, <1>7
<1>8. CASE pc \in {"write", "keep", "restore"} \/ (pc = "publish" /\ previous = Null)
  <2>1. Leave BY <1>1, <1>8
  <2>2. CASE ~plan.tidy BY <1>4, <2>1, <2>2 DEF Leave
  <2>3. CASE plan.tidy
    <3>1. Goto("tidy") BY <2>1, <2>3 DEF Leave
    <3>2. Begun BY <1>8 DEF Begun
    <3>3. plan' = plan /\ before' = before BY <3>1 DEF Goto, call
    <3>4. Steady(Before)'
      <4>1. CASE pc \in {"write", "keep"} BY <1>1, <3>3, <4>1, PartialWrite, PartialKeep
      <4>2. CASE pc = "restore"
        <5>1. Middle /\ previous # Null BY <4>2, MiddleFacts DEF Middle
        <5>2. file' = file /\ backup' = backup /\ canonical' \in Missing \cup {previous}
          BY <1>1, <4>2, <5>1, PartialMiddle
        <5> QED BY <3>3, <5>1, <5>2, MiddleTidy
      <4>3. CASE pc = "publish" /\ previous = Null
        <5>1. Middle BY <4>3 DEF Middle
        <5> QED BY <2>3, <4>3, <5>1, MiddleFacts
      <4> QED BY <1>8, <4>1, <4>2, <4>3
    <3> QED BY <1>2, <1>3, <2>3, <3>1, <3>2, <3>4, TidyInv DEF Survives
  <2> QED BY <2>2, <2>3
<1> QED BY <1>1, <1>5, <1>6, <1>7, <1>8 DEF IInv, TypeOK, Positions

LEMMA NextInv ==
    ASSUME StuckLate = FALSE, IInv, [Next]_vars
    PROVE  IInv'
<1>1. CASE Next
  BY <1>1, BeginStep, WriteFileStep, KeepStep, PublishIndexStep, RestoreStep, DropStep,
     UndropStep, TidyStep,
     FaultStep, CrashStep DEF Next
<1>2. CASE UNCHANGED vars
  <2>1. /\ file' = file /\ canonical' = canonical /\ backup' = backup /\ swap' = swap /\ pc' = pc
        /\ previous' = previous /\ report' = report /\ plan' = plan /\ before' = before
        /\ calls' = calls
        /\ faults' = faults
    BY <1>2 DEF vars, index, call
  <2>2. TypeOK' BY <2>1 DEF IInv, TypeOK
  <2>3. IndexInv' BY <2>1 DEF IInv, IndexInv, Missing
  <2>4. Recovered' = Recovered BY <2>1 DEF Recovered, Complete, Readable
  <2>5. Old' = Old BY <2>1, <2>4 DEF Old
  <2>6. Before' = Before BY <2>1 DEF Before
  <2>7. Steady(file)' = Steady(file) /\ Steady(Before)' = Steady(Before)
    BY <2>1, <2>6 DEF Steady, Whole
  <2>8. PlanInv' BY <2>1, <2>5, <2>7 DEF IInv, PlanInv, Begun, Whole, KnownOf
  <2> QED BY <2>2, <2>3, <2>8 DEF IInv
<1> QED BY <1>1, <1>2

LEMMA ImportFacts ==
    /\ GoodIndex(Import) /\ Files(Import) = {Slot(1)}
    /\ 1 \in DOMAIN Import.models /\ Import.models[1] = OneEdit(TRUE, Default, Slot(1))
<1> DEFINE m == OneEdit(TRUE, Default, Slot(1))
<1>1. 1 \in ModelIds BY RoomAssumption DEF ModelIds
<1>2. Slot(1) \in Names BY <1>1 DEF Names
<1>3. GoodModel(m) /\ ModelFiles(m) = {Slot(1)} BY <1>2, DataAssumption, OneEditFacts
<1>4. DOMAIN NoModels.models = {} /\ Files(NoModels) = {} /\ GoodIndex(NoModels) BY NoModelsFacts
<1>5. NextModel(NoModels) = 1 BY <1>4 DEF NextModel, Last
<1>6. \A k \in ModelIds : Slot(k) = Slot(1) => k = 1 BY SlotsDiffer DEF ModelIds
<1>7. Import.models = With(NoModels.models, 1, m) BY <1>5 DEF Import, AddModel
<1> HIDE DEF m
<1>8. GroupFits(NoModels, 1, m) BY <1>3, <1>4, <1>6 DEF GroupFits
<1>9. GoodIndex(Import) /\ Files(Import) = Files(NoModels) \cup ModelFiles(m)
  <2>1. Import = AddModel(NoModels, m, TRUE) BY DEF Import, m
  <2> QED BY <1>1, <1>4, <1>5, <1>8, <2>1, AddModelFacts
<1>10. 1 \in DOMAIN Import.models /\ Import.models[1] = m BY <1>7 DEF With
<1> QED BY <1>3, <1>4, <1>9, <1>10 DEF m

LEMMA ImportAndCopyFacts ==
    ASSUME NEW l \in Labels
    PROVE  GoodIndex(ImportAndCopy(l)) /\ Files(ImportAndCopy(l)) = {Slot(1), Labelled(l)}
<1> DEFINE m == OneEdit(TRUE, Default, Slot(1))
           n == Labelled(l)
           m2 == AddEdit(m, l, n, TRUE)
           ed == <<[label |-> Default, file |-> Slot(1)]>>
<1>1. 1 \in ModelIds /\ 2 \in EditIds /\ 1 \in EditIds BY RoomAssumption DEF ModelIds, EditIds
<1>2. Slot(1) \in Names /\ n \in Names /\ n # Slot(1) BY <1>1, SlotsDiffer DEF Names
<1>3. GoodModel(m) /\ ModelFiles(m) = {Slot(1)} BY <1>2, DataAssumption, OneEditFacts
<1>4. NextEdit(m) \in EditIds
  <2>1. m.edits = ed BY DEF OneEdit, NewModel
  <2>2. DOMAIN ed = {1} OBVIOUS
  <2>3. Max({1}) = 1
    <3>1. {1} \in SUBSET (1..1) /\ {1} # {} /\ 1 \in Nat OBVIOUS
    <3>2. Max({1}) \in {1} BY <3>1, GreatestId
    <3> QED BY <3>2
  <2> HIDE DEF ed
  <2>4. Last(DOMAIN m.edits) = 1 BY <2>1, <2>2, <2>3 DEF Last
  <2>5. NextEdit(m) = Last(DOMAIN m.edits) + 1 BY DEF NextEdit
  <2>6. NextEdit(m) = 2
    <3> HIDE DEF m
    <3> QED BY <2>4, <2>5
  <2> QED BY <1>1, <2>6
<1>5. ImportAndCopy(l) = Put(Import, 1, m2) BY ImportFacts DEF ImportAndCopy
<1>6. \A k \in ModelIds : (Slot(k) = Slot(1) => k = 1) /\ Slot(k) # n BY SlotsDiffer DEF ModelIds
<1>7. Import.models[1] = m /\ Files(Import) = {Slot(1)} /\ GoodIndex(Import)
      /\ 1 \in DOMAIN Import.models BY ImportFacts
<1> HIDE DEF m, n
<1>8. n \in Names \ ModelFiles(m) /\ TRUE \in BOOLEAN BY <1>2, <1>3
<1>9. GoodModel(m2) /\ ModelFiles(m2) = {Slot(1)} \cup {n}
  <2>1. GoodModel(AddEdit(m, l, n, TRUE)) /\ ModelFiles(AddEdit(m, l, n, TRUE)) = ModelFiles(m) \cup {n}
    <3>1. \A focus \in BOOLEAN : /\ GoodModel(AddEdit(m, l, n, focus))
                                /\ ModelFiles(AddEdit(m, l, n, focus)) = ModelFiles(m) \cup {n}
      <4>1. GoodModel(m) /\ NextEdit(m) \in EditIds /\ n \in Names \ ModelFiles(m)
        BY <1>3, <1>4, <1>8
      <4> QED BY <4>1, AddEditFacts
    <3> QED BY <3>1
  <2> QED BY <1>3, <2>1
<1> HIDE DEF m2
<1>10. GroupFits(Import, 1, m2)
  <2>1. \A j \in DOMAIN Import.models \ {1} : ModelFiles(Import.models[j]) \cap ModelFiles(m2) = {}
    <3>1. SUFFICES ASSUME NEW j \in DOMAIN Import.models \ {1} PROVE ModelFiles(Import.models[j]) = {}
      OBVIOUS
    <3>2. ModelFiles(Import.models[j]) \subseteq {Slot(1)} BY <1>7 DEF Files
    <3>3. Slot(1) \notin ModelFiles(Import.models[j]) BY <1>3, <1>7 DEF GoodIndex
    <3> QED BY <3>2, <3>3
  <2> QED BY <1>6, <1>9, <2>1 DEF GroupFits
<1>11. GoodIndex(Put(Import, 1, m2))
       /\ Files(Put(Import, 1, m2)) = (Files(Import) \ ModelFiles(Import.models[1])) \cup ModelFiles(m2)
  BY <1>7, <1>10, PutFacts
<1> QED BY <1>3, <1>5, <1>7, <1>9, <1>11 DEF n

LEMMA MigratedFacts ==
    GoodIndex(Migrated) /\ Files(Migrated) = {OldEdit, OldOriginal}
<1> DEFINE ed == <<[label |-> Default, file |-> OldEdit]>>
           m == NewModel(FALSE, OldOriginal, ed, FALSE)
<1>1. 1 \in ModelIds /\ {1} \in SUBSET EditIds BY RoomAssumption DEF ModelIds, EditIds
<1>2. OldEdit \in Names /\ OldOriginal \in Names /\ OldEdit # OldOriginal
  BY DEF Names, OldEdit, OldOriginal
<1>3. ed \in [{1} -> EditRec] /\ DOMAIN ed = {1} /\ ed[1].file = OldEdit
  BY <1>2, DataAssumption DEF EditRec
<1>4. Migrated = [models |-> <<m>>, active |-> 1] BY DEF Migrated
<1> HIDE DEF ed
<1>5. m \in Models /\ m.active \in {1} \cup {0} /\ m.original = OldOriginal /\ m.edits = ed
      /\ VersionsOf(m) = {1, 0}
  <2>1. OldOriginal \in Names \cup {Null} /\ FALSE \in BOOLEAN /\ OldOriginal # Null
    BY <1>2, NameAssumption
  <2>2. MadeOf(NewModel(FALSE, OldOriginal, ed, FALSE), OldOriginal, {1}, ed)
    BY <1>1, <1>3, <2>1, NewModelFacts, Zenon
  <2> QED BY <2>1, <2>2 DEF MadeOf
<1> HIDE DEF m
<1>6. FileOf(m, 1) = OldEdit /\ FileOf(m, 0) = OldOriginal BY <1>3, <1>5 DEF FileOf
<1>7. GoodModel(m) BY <1>2, <1>3, <1>5, <1>6 DEF GoodModel
<1>8. ModelFiles(m) = {OldEdit, OldOriginal} BY <1>5, <1>6, FilesOfModel
<1>9. <<m>> \in [{1} -> Models] /\ DOMAIN <<m>> = {1} /\ <<m>>[1] = m BY <1>5
<1>10. \A k \in ModelIds : Slot(k) # OldEdit /\ Slot(k) # OldOriginal BY SlotsDiffer DEF ModelIds
<1> DEFINE f == <<m>>
<1> HIDE DEF f
<1>11. f \in [{1} -> Models] /\ DOMAIN f = {1} /\ f[1] = m BY <1>9 DEF f
<1>12. IsIndex(Migrated)
  <2>1. {1} \in SUBSET ModelIds /\ 1 \in ModelIds \cup {0} BY <1>1
  <2>2. IsIndex([models |-> f, active |-> 1]) BY <1>11, <2>1, IndexMade, Zenon
  <2> QED BY <1>4, <2>2 DEF f
<1>13. Migrated.models = f /\ Migrated.active = 1 BY <1>4 DEF f
<1>14. GoodIndex(Migrated) BY <1>7, <1>8, <1>10, <1>11, <1>12, <1>13 DEF GoodIndex
<1>15. Files(Migrated) = {OldEdit, OldOriginal} BY <1>8, <1>11, <1>13 DEF Files
<1> QED BY <1>14, <1>15

LEMMA InitInv == Init => IInv
<1> SUFFICES ASSUME Init PROVE IInv OBVIOUS
<1>1. /\ swap = Null /\ pc = "idle" /\ plan = Publish(NoModels) /\ previous = Null /\ before = Null
      /\ report = "none" /\ calls = 0 /\ faults = 0
  BY DEF Init
<1>2. /\ file \in [Names -> Texts \cup {Null, Torn}]
      /\ \A ix \in {canonical, backup} : ix \in Missing \/ GoodIndex(ix)
      /\ canonical \notin Missing => Whole(canonical, file)
      /\ canonical \in Missing => backup \in Missing
  <2>1. CASE file = NoFiles /\ canonical = Null /\ backup = Null
    BY <2>1 DEF NoFiles, Missing
  <2>2. ASSUME NEW s \in Texts, NEW t \in Texts, file = [NoFiles EXCEPT ![OldEdit] = s, ![OldOriginal] = t],
               canonical = Migrated, backup = Null
        PROVE  <1>2!1 /\ GoodIndex(canonical) /\ Whole(canonical, file)
    <3>1. OldEdit \in Names /\ OldOriginal \in Names /\ OldEdit # OldOriginal
      BY DEF Names, OldEdit, OldOriginal
    <3> QED BY <2>2, <3>1, MigratedFacts DEF NoFiles, Whole
  <2>3. ASSUME NEW s \in Texts, NEW t \in Texts, NEW l \in Labels \ {Default},
               file = [NoFiles EXCEPT ![Slot(1)] = s, ![Labelled(l)] = t],
               canonical = ImportAndCopy(l), backup = Import
        PROVE  <1>2!1 /\ GoodIndex(canonical) /\ GoodIndex(backup) /\ Whole(canonical, file)
    <3>1. 1 \in ModelIds BY RoomAssumption DEF ModelIds
    <3>2. Slot(1) \in Names /\ Labelled(l) \in Names /\ Labelled(l) # Slot(1)
      BY <3>1, SlotsDiffer DEF Names
    <3> QED BY <2>3, <3>2, ImportAndCopyFacts, ImportFacts DEF NoFiles, Whole
  <2>4. \A ix : GoodIndex(ix) => ix \notin Missing BY GoodIsSound
  <2> QED BY <2>1, <2>2, <2>3, <2>4 DEF Init, Missing
<1>3. \A ix : GoodIndex(ix) => IsIndex(ix) BY DEF GoodIndex
<1>4. IsPlan(plan) /\ GoodIndex(plan.index) BY <1>1, NoPlan
<1>5. TypeOK
  BY <1>1, <1>2, <1>3, <1>4, DataAssumption, RoomAssumption, FaultAssumption DEF TypeOK,
     Positions, Missing
<1>6. IndexInv BY <1>1, <1>2 DEF IndexInv, Missing
<1>7. Steady(file) BY <1>2 DEF Steady
<1>8. PlanInv BY <1>1, <1>4, <1>7 DEF PlanInv, Begun
<1> QED BY <1>5, <1>6, <1>8 DEF IInv

\* The invariant is one, unless a rollback can fail that the code takes to succeed.
THEOREM StoreInvariant ==
    ASSUME StuckLate = FALSE
    PROVE  Spec => []IInv
<1>1. Init => IInv BY InitInv
<1>2. IInv /\ [Next]_vars => IInv' BY NextInv
<1> QED BY <1>1, <1>2, PTL DEF Spec

\* The container, the plan of a call under way and the counters have their types:
\* whatever is read back is an index (readManuscriptModels) or is taken as none.
THEOREM StoreTypeCorrect ==
    ASSUME StuckLate = FALSE
    PROVE  Spec => []TypeOK
<1>1. IInv => TypeOK BY DEF IInv
<1> QED BY <1>1, StoreInvariant, PTL

\* No two versions are in one file, in whatever index a call is about to publish
\* (nextOriginalFile, editFileName, saveEditFiles).
THEOREM FilesNotShared ==
    ASSUME StuckLate = FALSE
    PROVE  Spec => []NoSharedFile
<1>1. IInv => NoSharedFile
  <2>1. SUFFICES ASSUME IInv, NEW i \in DOMAIN plan.index.models, NEW j \in DOMAIN plan.index.models,
                        NEW d \in VersionsOf(plan.index.models[i]),
                        NEW e \in VersionsOf(plan.index.models[j]),
                        FileOf(plan.index.models[i], d) = FileOf(plan.index.models[j], e)
                 PROVE  i = j /\ d = e
    BY DEF NoSharedFile
  <2>2. GoodIndex(plan.index) BY <2>1 DEF IInv, PlanInv
  <2>3. GoodModel(plan.index.models[i]) /\ GoodModel(plan.index.models[j]) BY <2>2 DEF GoodIndex
  <2>4. /\ FileOf(plan.index.models[i], d) \in ModelFiles(plan.index.models[i])
        /\ FileOf(plan.index.models[j], e) \in ModelFiles(plan.index.models[j])
    BY <2>3, FilesOfModel DEF GoodModel
  <2>5. i = j BY <2>1, <2>2, <2>4 DEF GoodIndex
  <2> QED BY <2>1, <2>3, <2>5 DEF GoodModel
<1> QED BY <1>1, StoreInvariant, PTL

-----------------------------------------------------------------------------
(* The versions a reader finds                                               *)

\* The index is in its place until an operation is interrupted.
Undisturbed ==
  /\ faults = 0 => canonical \notin Missing \/ (canonical = Null /\ backup = Null /\ swap = Null)
  /\ pc \in {"restore", "undrop", "tidy"} => faults > 0

LEMMA UndisturbedNext ==
    ASSUME IInv, Undisturbed, [Next]_vars
    PROVE  Undisturbed'
<1>1. faults \in Nat BY FaultAssumption DEF IInv, TypeOK
<1>2. CASE Handlers
  <2>1. PICK p : Begin(p)
    <3>1. pc = "idle" /\ Read # Torn /\ calls < MaxCalls BY <1>2 DEF Handlers
    <3>2. Settled BY <3>1, ReadyWhenIdle
    <3> QED BY <1>2, <3>2, HandlersBegin DEF BeginsWell
  <2> QED BY <2>1 DEF Begin, index, Undisturbed
<1>3. CASE WriteFile BY <1>3 DEF WriteFile, Goto, index, Undisturbed
<1>4. CASE Keep
  <2>1. Recovered = Null => canonical = Null /\ backup = Null /\ swap = Null
    BY RecoveredFacts DEF IInv
  <2>2. canonical \in Missing /\ Recovered # Null => ~(canonical = Null /\ backup = Null /\ swap = Null)
    <3>1. canonical = Null /\ backup = Null /\ swap = Null => Recovered = Null
      BY RecoveredForm DEF IInv, Missing
    <3> QED BY <3>1
  <2> QED BY <1>4, <2>1, <2>2 DEF Keep, Undisturbed
<1>5. CASE PublishIndex
  <2>1. plan.index \notin Missing BY GoodIsSound DEF IInv, PlanInv
  <2> QED BY <1>5, <2>1 DEF PublishIndex, Return, Goto, Undisturbed
<1>6. CASE Restore \/ Undrop \/ Tidy
  <2>1. faults > 0 /\ faults' = faults BY <1>6 DEF Restore, Undrop, Tidy, Undisturbed
  <2> QED BY <1>1, <2>1 DEF Undisturbed
<1>7. CASE Drop BY <1>7 DEF Drop, Return, index, Undisturbed
<1>8. CASE Fault \/ Crash
  <2>1. faults' = faults + 1 BY <1>8 DEF Fault, Crash
  <2> QED BY <1>1, <2>1 DEF Undisturbed
<1>9. CASE UNCHANGED vars BY <1>9 DEF vars, index, call, Undisturbed
<1> QED BY <1>2, <1>3, <1>4, <1>5, <1>6, <1>7, <1>8, <1>9 DEF Next

LEMMA VersionsForm == Versions = Shown(KnownOf(Recovered), file)
<1>1. Read = Recovered \/ (Read = Torn /\ Recovered = Null) BY DEF Read
<1>2. Versions = Shown(KnownOf(Read), file) BY DEF Versions, KnownOf, Missing
<1>3. KnownOf(Torn) = NoModels /\ KnownOf(Null) = NoModels BY DEF KnownOf, Missing
<1>4. KnownOf(Read) = KnownOf(Recovered) BY <1>1, <1>3
<1> QED BY <1>2, <1>4

LEMMA VersionsNext == Versions' = Shown(KnownOf(Recovered'), file')
<1>1. Read' = Recovered' \/ (Read' = Torn /\ Recovered' = Null) BY DEF Read
<1>2. Versions' = Shown(KnownOf(Read'), file') BY DEF Versions, KnownOf, Missing, Shown
<1>3. KnownOf(Torn) = NoModels /\ KnownOf(Null) = NoModels BY DEF KnownOf, Missing
<1>4. KnownOf(Read') = KnownOf(Recovered') BY <1>1, <1>3
<1> QED BY <1>2, <1>4

LEMMA ShownSame ==
    ASSUME NEW ix, NEW f, NEW g, \A n \in Files(ix) : f[n] = g[n]
    PROVE  Shown(ix, f) = Shown(ix, g)
BY DEF Shown

\* What a reader finds is what the call met, or what it is to leave.
ShownInv ==
  /\ Versions \in {from, want}
  /\ pc = "idle" => from = want
  /\ pc = "tidy" => /\ Shown(KnownOf(IF canonical \in Missing THEN backup ELSE canonical), Before) = from
                    /\ canonical \notin Missing \/ backup \notin Missing
  /\ Begun => /\ from = Shown(KnownOf(Old), IF pc = "write" THEN file ELSE Before)
              /\ want = After(plan)

\* What a call asks for is one change that VersionSet permits.
LEMMA AskedFacts ==
    ASSUME Settled, NEW p, Fitting(p, Known, Was(p))
    PROVE  Shelf!IsShelf(After(p)) /\ Shelf!Permitted(Versions, After(p))
<1> DEFINE f == IF p.write = Null THEN file ELSE [file EXCEPT ![p.write] = p.text]
           s == Shown(Known, file)
           t == Shown(p.index, f)
<1>1. Versions = s
  <2>1. Versions = Shown(KnownOf(Read), file) BY DEF Versions, KnownOf, Missing
  <2> QED BY <2>1 DEF Known, KnownOf, Missing
<1>2. After(p) = t BY DEF After
<1>3. /\ IsPlan(p) /\ GoodIndex(p.index)
      /\ Files(p.index) = (Files(Known) \ {p.drop}) \cup ({p.write} \ {Null})
      /\ p.write # Null => p.drop = Null /\ p.text \in Texts
      /\ p.write # Null /\ p.write \in Files(Known)
        => p.text = file[p.write] \/ (p.index = Known /\ p.write \notin ReadOnly(Known))
      /\ p.drop # Null => p.drop \in Files(Known)
  BY DEF Fitting, Was
<1>4. Files(Known) \subseteq Names /\ (\A n \in Files(Known) : file[n] \in Texts)
      /\ Files(p.index) \subseteq Names
  BY <1>3, KnownFacts, FilesFacts
<1>5. p.write \in Names \cup {Null} /\ Null \notin Names BY <1>3, PlanFields, NameAssumption
<1>6. /\ \A n \in Names : n # p.write => f[n] = file[n]
      /\ p.write # Null => f[p.write] = p.text
  BY <1>5 DEF Settled
<1>7. \A n \in Files(p.index) : f[n] \in Texts
  <2>1. SUFFICES ASSUME NEW n \in Files(p.index) PROVE f[n] \in Texts OBVIOUS
  <2>2. CASE n = p.write /\ p.write # Null BY <1>3, <1>6, <2>2
  <2>3. CASE n # p.write
    <3>1. n \in Files(Known) BY <1>3, <2>3
    <3> QED BY <1>4, <1>6, <2>3, <3>1
  <2>4. n # Null BY <1>4, <1>5
  <2> QED BY <2>2, <2>3, <2>4
<1> HIDE DEF f
<1>8. /\ DOMAIN s = Files(Known) /\ DOMAIN t = Files(p.index)
      /\ \A n \in Files(Known) : s[n].text = file[n] /\ s[n].readonly = (n \in ReadOnly(Known))
      /\ \A n \in Files(p.index) : t[n] = [text |-> f[n], readonly |-> n \in ReadOnly(p.index)]
  BY DEF Shown
<1> HIDE DEF s, t
<1>9. Shelf!IsShelf(t)
  <2>1. ASSUME NEW n \in DOMAIN t PROVE t[n] \in Shelf!Version
    <3> DEFINE r == n \in ReadOnly(p.index)
    <3>1. t[n] = [text |-> f[n], readonly |-> r] /\ f[n] \in Texts BY <1>7, <1>8
    <3>2. r \in BOOLEAN OBVIOUS
    <3> HIDE DEF r
    <3> QED BY <3>1, <3>2 DEF Shelf!Version
  <2> QED BY <1>4, <1>8, <2>1 DEF Shelf!IsShelf
<1>10. \A n \in Files(p.index) : t[n].text = f[n] BY <1>8
<1>11. ASSUME NEW n \in Shelf!Differing(s, t)
       PROVE  \/ p.write # Null /\ n = p.write /\ (n \in Files(Known) => n \notin ReadOnly(Known))
              \/ p.write = Null /\ n = p.drop /\ n \notin Files(p.index)
  <2>1. /\ n \in Files(Known) \cup Files(p.index)
        /\ n \in Files(Known) \cap Files(p.index) => file[n] # f[n]
    BY <1>8, <1>10 DEF Shelf!Differing
  <2>2. n \in Names BY <1>4, <2>1
  <2>3. CASE p.write # Null
    <3>1. Files(p.index) = Files(Known) \cup {p.write}
      <4>1. p.drop = Null /\ Null \notin Files(Known) BY <1>3, <1>4, <1>5, <2>3
      <4> QED BY <1>3, <2>3, <4>1
    <3>2. n = p.write BY <1>6, <2>1, <2>2, <3>1
    <3>3. n \in Files(Known) => n \notin ReadOnly(Known) BY <1>3, <1>6, <2>1, <2>3, <3>1, <3>2
    <3> QED BY <2>3, <3>2, <3>3
  <2>4. CASE p.write = Null
    <3>1. Files(p.index) = Files(Known) \ {p.drop} BY <1>3, <2>4
    <3>2. f[n] = file[n] BY <1>5, <1>6, <2>2, <2>4
    <3> QED BY <2>1, <2>4, <3>1, <3>2
  <2> QED BY <2>3, <2>4
<1>12. Shelf!Permitted(s, t)
  <2>1. SUFFICES ASSUME NEW m \in Shelf!Differing(s, t), NEW n \in Shelf!Differing(s, t)
                 PROVE  m = n /\ (n \in DOMAIN s \cap DOMAIN t => ~s[n].readonly)
    BY DEF Shelf!Permitted
  <2> QED BY <1>8, <1>11
<1> QED BY <1>1, <1>2, <1>9, <1>12

\* A write shows nothing that was not there before or asked for.
LEMMA OldShown ==
    ASSUME IInv, ShownInv, Begun, pc # "write"
    PROVE  /\ Shown(KnownOf(Old), file) \in {from, want}
           /\ Shown(plan.index, file) = want
           /\ Shown(KnownOf(Old), Before) = from
<1>1. Fitting(plan, KnownOf(Old), before) /\ (plan.write # Null => file[plan.write] = plan.text)
  BY DEF IInv, PlanInv
<1>2. from = Shown(KnownOf(Old), Before) /\ want = After(plan) BY DEF ShownInv
<1>3. file \in [Names -> Texts \cup {Null, Torn}] BY DEF IInv, TypeOK
<1>4. After(plan) = Shown(plan.index, file)
  <2>1. plan.write # Null => [file EXCEPT ![plan.write] = plan.text] = file BY <1>1, <1>3
  <2> QED BY <2>1 DEF After
<1>5. plan.write \in Names \cup {Null} BY BegunFacts
<1>6. Files(KnownOf(Old)) \subseteq Names /\ Null \notin Names
  BY BegunFacts, FilesFacts, NameAssumption
<1>7. CASE plan.index = KnownOf(Old) BY <1>2, <1>4, <1>7
<1>8. CASE plan.write # Null /\ plan.write \in Files(KnownOf(Old)) => plan.text = before
  <2>1. \A n \in Files(KnownOf(Old)) : Before[n] = file[n]
    BY <1>1, <1>3, <1>5, <1>6, <1>8 DEF Before
  <2>2. Shown(KnownOf(Old), Before) = Shown(KnownOf(Old), file) BY <2>1, ShownSame
  <2> QED BY <1>2, <1>4, <2>2
<1>9. plan.write # Null /\ plan.write \in Files(KnownOf(Old))
      => plan.text = before \/ plan.index = KnownOf(Old)
  BY <1>1 DEF Fitting
<1> QED BY <1>2, <1>4, <1>7, <1>8, <1>9

shelfVars == <<Versions, from, want, pc # "idle", report>>
Implements == ShownInv' /\ [Shelf!Next]_shelfVars

LEMMA ReturnImplements ==
    ASSUME pc # "idle", NEW r \in {"none", "done", "failed"}, Return(r), Versions' \in {from, want},
           r = "done" => Versions' = want
    PROVE  Implements
<1>1. /\ pc' = "idle" /\ report' = r /\ from' = Versions' /\ want' = Versions'
  BY DEF Return
<1>2. ShownInv' BY <1>1 DEF ShownInv, Begun
<1>3. Shelf!Return
  <2>1. (pc # "idle") /\ (pc' # "idle") = FALSE BY <1>1
  <2> QED BY <1>1, <2>1 DEF Shelf!Return
<1> QED BY <1>2, <1>3 DEF Implements, Shelf!Next

LEMMA ChangeImplements ==
    ASSUME pc # "idle", pc' # "idle", report' = report, from' = from, want' = want,
           Versions' \in {from, want}, ShownInv'
    PROVE  Implements
<1>1. (pc # "idle") /\ (pc' # "idle") = (pc # "idle") OBVIOUS
<1>2. Shelf!Change BY <1>1 DEF Shelf!Change
<1> QED BY <1>2 DEF Implements, Shelf!Next

LEMMA BeginImplements ==
    ASSUME IInv, IInv', ShownInv, Handlers
    PROVE  Implements
<1>1. pc = "idle" /\ Read # Torn /\ calls < MaxCalls BY DEF Handlers
<1>2. Settled /\ Known = KnownOf(Recovered) /\ Recovered # Torn BY <1>1, ReadyWhenIdle
<1>3. PICK p : Begin(p) /\ Fitting(p, Known, Was(p)) BY <1>2, HandlersBegin DEF BeginsWell
<1>4. /\ plan' = p /\ pc' = IF p.write = Null THEN "keep" ELSE "write"
      /\ report' = "none" /\ from' = Versions /\ want' = After(p)
      /\ file' = file /\ canonical' = canonical /\ backup' = backup /\ swap' = swap
  BY <1>3 DEF Begin, index
<1>5. Recovered' = Recovered BY <1>4 DEF Recovered, Complete, Readable
<1>6. Versions' = Versions BY <1>4, <1>5, VersionsForm, VersionsNext
<1>7. Shelf!IsShelf(After(p)) /\ Shelf!Permitted(Versions, After(p)) BY <1>2, <1>3, AskedFacts
<1>8. Shelf!Ask
  <2>1. ~(pc # "idle") /\ (pc' # "idle") = TRUE BY <1>1, <1>4
  <2>2. Shelf!IsShelf(want') /\ Shelf!Permitted(Versions, want') BY <1>4, <1>7
  <2> QED BY <1>4, <1>6, <2>1, <2>2 DEF Shelf!Ask
<1>9. ShownInv'
  <2>1. Begun' /\ pc' \in {"write", "keep"} /\ pc' # "idle" /\ pc' # "tidy" BY <1>4 DEF Begun
  <2>2. Old' = Recovered BY <1>5, <2>1 DEF Old
  <2>3. pc' # "write" => Before' = file' BY <1>4 DEF Before
  <2>4. from' = Shown(KnownOf(Old'), file') BY <1>4, <2>2, VersionsForm
  <2>5. Shown(KnownOf(Old), IF pc = "write" THEN file ELSE Before)' = Shown(KnownOf(Old'), file')
    <3>1. CASE pc' = "write" BY <3>1 DEF Shown, KnownOf
    <3>2. CASE pc' # "write" BY <2>3, <3>2 DEF Shown, KnownOf
    <3> QED BY <3>1, <3>2
  <2>6. After(plan)' = After(p) BY <1>4 DEF After, Shown
  <2>7. Versions' = from' BY <1>4, <1>6
  <2> QED BY <1>4, <2>1, <2>4, <2>5, <2>6, <2>7 DEF ShownInv
<1> QED BY <1>8, <1>9 DEF Implements, Shelf!Next

\* A call that goes on keeps what it was asked.
LEMMA GoneOn ==
    ASSUME IInv, ShownInv, Begun, pc # "write", Begun', pc' # "write", file' = file, plan' = plan,
           before' = before,
           from' = from, want' = want, Old' = Old, Versions' \in {from, want}
    PROVE  ShownInv'
<1>1. pc' # "idle" /\ pc' # "tidy" BY DEF Begun
<1>2. Before' = Before BY DEF Before
<1>3. from = Shown(KnownOf(Old), Before) /\ want = After(plan) BY DEF ShownInv
<1>4. Shown(KnownOf(Old), IF pc = "write" THEN file ELSE Before)' = Shown(KnownOf(Old), Before)
  BY <1>2 DEF Shown, KnownOf
<1>5. After(plan)' = After(plan) BY DEF After, Shown
<1> QED BY <1>1, <1>3, <1>4, <1>5 DEF ShownInv

LEMMA KeepImplements ==
    ASSUME IInv, IInv', ShownInv, Keep
    PROVE  Implements
<1>1. /\ pc = "keep" /\ pc' = "publish" /\ previous' = Recovered
      /\ backup' = (IF Recovered = Null THEN backup ELSE Recovered)
      /\ file' = file /\ canonical' = canonical /\ swap' = swap /\ report' = report
      /\ plan' = plan /\ before' = before /\ from' = from /\ want' = want
  BY DEF Keep, call
<1>2. Begun /\ Begun' /\ Old = Recovered /\ Old' = Recovered BY <1>1 DEF Begun, Old
<1>3. Recovered # Torn /\ (Recovered # Null => Recovered \notin Missing) BY <1>2, BegunFacts
<1>4. Recovered' = Recovered
  <2>1. CASE Recovered = Null
    BY <1>1, <2>1 DEF Recovered, Complete, Readable
  <2>2. CASE Recovered # Null
    <3>1. backup' = Recovered BY <1>1, <2>2
    <3>2. canonical \notin Missing => Recovered = canonical BY RecoveredFacts DEF IInv
    <3>3. canonical \in Missing => Whole(Recovered, file)
      BY <1>3, <2>2, RecoveredFacts DEF IInv
    <3>4. Whole(backup, file)' <=> Whole(Recovered, file) BY <1>1, <3>1 DEF Whole
    <3> QED BY <1>1, <1>3, <2>2, <3>1, <3>2, <3>3, <3>4, RecoveredNext DEF IInv
  <2> QED BY <2>1, <2>2
<1>5. Versions' = Versions BY <1>1, <1>4, VersionsForm, VersionsNext
<1>6. Versions' \in {from, want} BY <1>5 DEF ShownInv
<1>7. ShownInv' BY <1>1, <1>2, <1>6, GoneOn
<1> QED BY <1>1, <1>6, <1>7, ChangeImplements

\* The file is written, or half of it, while the old index is in place.
LEMMA WriteShown ==
    ASSUME IInv, ShownInv, pc = "write", Recovered' = Recovered, NEW c,
           c = plan.text \/ (before = Null /\ c = Torn),
           file' = file \/ file' = [file EXCEPT ![plan.write] = c]
    PROVE  Versions' \in {from, want}
<1>1. Begun /\ Old = Recovered /\ plan.write # Null /\ before = file[plan.write]
  BY DEF IInv, PlanInv, Begun, Old
<1>2. Fitting(plan, KnownOf(Old), before) BY <1>1 DEF IInv, PlanInv
<1>3. from = Shown(KnownOf(Old), file) /\ want = After(plan) BY <1>1 DEF ShownInv
<1>4. Versions' = Shown(KnownOf(Old), file') BY <1>1, VersionsNext
<1>5. plan.write \in Names /\ plan.text \in Texts BY <1>1, BegunFacts
<1>6. file \in [Names -> Texts \cup {Null, Torn}] BY DEF IInv, TypeOK
<1>7. Files(KnownOf(Old)) \subseteq Names BY <1>1, BegunFacts, FilesFacts
<1>8. CASE file' = file BY <1>3, <1>4, <1>8
<1>9. CASE file' = [file EXCEPT ![plan.write] = c]
  <2>1. CASE plan.write \notin Files(KnownOf(Old))
    <3>1. \A n \in Files(KnownOf(Old)) : file'[n] = file[n] BY <1>6, <1>7, <1>9, <2>1
    <3>2. Shown(KnownOf(Old), file') = Shown(KnownOf(Old), file) BY <3>1, ShownSame
    <3> QED BY <1>3, <1>4, <3>2
  <2>2. CASE plan.write \in Files(KnownOf(Old))
    <3>1. before \in Texts /\ (plan.text = before \/ plan.index = KnownOf(Old))
      BY <1>1, <1>2, <2>2 DEF Fitting
    <3>2. c = plan.text BY <3>1, DataAssumption
    <3>3. CASE plan.text = before
      <4>1. file' = file BY <1>1, <1>6, <1>9, <3>2, <3>3
      <4> QED BY <1>8, <4>1
    <3>4. CASE plan.index = KnownOf(Old)
      <4>1. After(plan) = Shown(KnownOf(Old), file') BY <1>1, <1>9, <3>2, <3>4 DEF After
      <4> QED BY <1>3, <1>4, <4>1
    <3> QED BY <3>1, <3>3, <3>4
  <2> QED BY <2>1, <2>2
<1> QED BY <1>8, <1>9

LEMMA WriteFileImplements ==
    ASSUME IInv, IInv', ShownInv, WriteFile
    PROVE  Implements
<1>1. /\ pc = "write" /\ pc' = "keep" /\ file' = [file EXCEPT ![plan.write] = plan.text]
      /\ report' = report /\ plan' = plan /\ before' = before /\ from' = from /\ want' = want
  BY DEF WriteFile, Goto, call
<1>2. Recovered' = Recovered BY WriteFileStep
<1>3. Begun /\ Old = Recovered /\ Begun' /\ Old' = Old /\ plan.write # Null /\ before = file[plan.write]
  BY <1>1, <1>2 DEF IInv, PlanInv, Begun, Old
<1>4. from = Shown(KnownOf(Old), file) /\ want = After(plan) BY <1>1, <1>3 DEF ShownInv
<1>5. plan.write \in Names BY <1>3, BegunFacts
<1>6. file \in [Names -> Texts \cup {Null, Torn}] BY DEF IInv, TypeOK
<1>7. Versions' \in {from, want} BY <1>1, <1>2, WriteShown
<1>8. Before' = file BY <1>1, <1>3, <1>5, <1>6 DEF Before
<1>9. Shown(KnownOf(Old), IF pc = "write" THEN file ELSE Before)' = Shown(KnownOf(Old), file)
  BY <1>1, <1>3, <1>8 DEF Shown, KnownOf
<1>10. After(plan)' = After(plan)
  <2>1. [file' EXCEPT ![plan.write] = plan.text] = [file EXCEPT ![plan.write] = plan.text]
    BY <1>1, <1>5, <1>6
  <2> QED BY <1>1, <1>3, <2>1 DEF After, Shown
<1>11. ShownInv' BY <1>1, <1>4, <1>7, <1>9, <1>10 DEF ShownInv, Begun
<1> QED BY <1>1, <1>7, <1>11, ChangeImplements

\* Whatever of the two is in the index, the versions are the old or the new.
LEMMA MiddleShown ==
    ASSUME IInv, IInv', ShownInv, Middle, file' = file, backup' = backup,
           canonical' \in Missing \cup {previous, plan.index},
           previous = Null => swap' \in Missing \cup {plan.index}
    PROVE  Versions' \in {from, want}
<1>1. Begun /\ pc # "write" /\ Old = previous BY MiddleFacts DEF Middle
<1>2. Shown(KnownOf(previous), file) \in {from, want} /\ Shown(plan.index, file) = want
  BY <1>1, OldShown
<1>3. plan.index \notin Missing BY MiddleFacts
<1>4. KnownOf(plan.index) = plan.index BY <1>3 DEF KnownOf
<1>5. KnownOf(Recovered') \in {KnownOf(previous), plan.index}
  <2>1. CASE canonical' \notin Missing
    <3>1. Recovered' = canonical' BY <2>1, RecoveredNext DEF IInv
    <3> QED BY <1>4, <2>1, <3>1
  <2>2. CASE canonical' \in Missing /\ previous # Null
    <3>1. backup' = previous /\ previous \notin Missing /\ Whole(previous, file)
      BY <2>2, MiddleFacts
    <3>2. Whole(backup, file)' BY <3>1 DEF Whole
    <3>3. Recovered' = previous BY <2>2, <3>1, <3>2, RecoveredNext DEF IInv
    <3> QED BY <3>3
  <2>3. CASE canonical' \in Missing /\ previous = Null
    <3>1. backup' \in Missing BY <2>3, MiddleFacts DEF Missing
    <3>2. swap' \notin Missing => swap' = plan.index BY <2>3
    <3>3. Recovered' \in {plan.index, Null, Torn} BY <2>3, <3>1, <3>2, RecoveredNext DEF IInv
    <3>4. KnownOf(Null) = KnownOf(Torn) BY DEF KnownOf, Missing
    <3> QED BY <1>4, <2>3, <3>3, <3>4
  <2> QED BY <2>1, <2>2, <2>3
<1>6. Versions' = Shown(KnownOf(Recovered'), file) BY VersionsNext
<1> QED BY <1>2, <1>5, <1>6

LEMMA PublishIndexImplements ==
    ASSUME IInv, IInv', ShownInv, PublishIndex
    PROVE  Implements
<1>1. /\ pc = "publish" /\ canonical' = plan.index /\ file' = file /\ backup' = backup /\ swap' = swap
  BY DEF PublishIndex
<1>2. Middle /\ Begun /\ Old = previous BY <1>1 DEF Middle, Begun, Old
<1>3. plan.index \notin Missing BY <1>2, MiddleFacts
<1>4. Shown(plan.index, file) = want BY <1>1, <1>2, OldShown
<1>5. Recovered' = plan.index BY <1>1, <1>3, RecoveredNext DEF IInv
<1>6. Versions' = want BY <1>1, <1>3, <1>4, <1>5, VersionsNext DEF KnownOf
<1>7. CASE plan.drop = Null
  <2>1. Return("done") BY <1>7 DEF PublishIndex
  <2> QED BY <1>1, <1>6, <2>1, ReturnImplements
<1>8. CASE plan.drop # Null
  <2>1. /\ pc' = "drop" /\ report' = report /\ plan' = plan /\ before' = before /\ from' = from
        /\ want' = want
        /\ previous' = previous
    BY <1>8 DEF PublishIndex, Goto, call
  <2>2. Begun' /\ Old' = Old BY <1>2, <2>1 DEF Begun, Old
  <2>3. ShownInv' BY <1>1, <1>2, <1>6, <2>1, <2>2, GoneOn
  <2> QED BY <1>1, <1>6, <2>1, <2>3, ChangeImplements
<1> QED BY <1>7, <1>8

\* A call that is to tidy up finds the old index, and the old text at hand.
LEMMA TidyImplements ==
    ASSUME IInv, ShownInv, Begun, Goto("tidy"), Versions' \in {from, want}, Old # Null,
           canonical' = Old \/ (canonical' \in Missing /\ backup' = Old),
           \A n \in Names : Before'[n] = IF pc = "write" THEN file[n] ELSE Before[n]
    PROVE  Implements
<1>1. /\ pc # "idle" /\ pc' = "tidy" /\ report' = report /\ plan' = plan /\ before' = before
      /\ from' = from
      /\ want' = want
  BY DEF Goto, call, Begun
<1>2. Old \notin Missing /\ KnownOf(Old) = Old /\ Files(Old) \subseteq Names
  BY BegunFacts, FilesFacts
<1>3. (IF canonical \in Missing THEN backup ELSE canonical)' = Old BY <1>2
<1>4. canonical' \notin Missing \/ backup' \notin Missing BY <1>2
<1>5. from = Shown(Old, IF pc = "write" THEN file ELSE Before) BY <1>2 DEF ShownInv
<1>6. Shown(Old, Before') = from
  <2> DEFINE f == IF pc = "write" THEN file ELSE Before
  <2>1. \A n \in Files(Old) : Before'[n] = f[n] BY <1>2
  <2> HIDE DEF f
  <2>2. Shown(Old, Before') = Shown(Old, f) BY <2>1, ShownSame
  <2> QED BY <1>5, <2>2 DEF f
<1>7. Shown(KnownOf(IF canonical \in Missing THEN backup ELSE canonical), Before)' = Shown(Old, Before')
  BY <1>2, <1>3 DEF Shown, KnownOf
<1>8. ShownInv' BY <1>1, <1>4, <1>6, <1>7 DEF ShownInv, Begun
<1> QED BY <1>1, <1>8, ChangeImplements

LEMMA RestoreImplements ==
    ASSUME IInv, IInv', ShownInv, Restore
    PROVE  Implements
<1>1. pc = "restore" /\ canonical' = previous /\ file' = file /\ backup' = backup BY DEF Restore
<1>2. Middle /\ Begun /\ Old = previous BY <1>1 DEF Middle, Begun, Old
<1>3. previous # Null BY <1>1, <1>2, MiddleFacts
<1>4. Versions' \in {from, want} BY <1>1, <1>2, <1>3, MiddleShown
<1>5. CASE plan.tidy
  <2>1. Goto("tidy") BY <1>5 DEF Restore, Leave
  <2>2. Before' = Before BY <1>1, <2>1 DEF Goto, call, Before
  <2> QED BY <1>1, <1>2, <1>3, <1>4, <2>1, <2>2, TidyImplements
<1>6. CASE ~plan.tidy
  <2>1. Return("failed") BY <1>6 DEF Restore, Leave
  <2> QED BY <1>1, <1>4, <2>1, ReturnImplements
<1> QED BY <1>5, <1>6

LEMMA UndropImplements ==
    ASSUME IInv, IInv', ShownInv, Undrop
    PROVE  Implements
<1>1. pc = "undrop" /\ canonical' = previous /\ file' = file /\ backup' = backup /\ Return("failed")
  BY DEF Undrop
<1>2. Middle BY <1>1 DEF Middle
<1>3. previous # Null BY <1>1, <1>2, MiddleFacts
<1>4. Versions' \in {from, want} BY <1>1, <1>2, <1>3, MiddleShown
<1> QED BY <1>1, <1>4, ReturnImplements

LEMMA DropImplements ==
    ASSUME IInv, IInv', ShownInv, Drop
    PROVE  Implements
<1>1. /\ pc = "drop" /\ canonical' = canonical /\ file' = [file EXCEPT ![plan.drop] = Null]
      /\ Return("done")
  BY DEF Drop, index
<1>2. Middle /\ Begun BY <1>1 DEF Middle, Begun
<1>3. canonical = plan.index /\ plan.drop # Null BY <1>1 DEF IInv, PlanInv
<1>4. plan.index \notin Missing /\ GoodIndex(plan.index) BY <1>2, MiddleFacts
<1>5. plan.drop \in Names /\ plan.write = Null /\ plan.drop \notin Files(plan.index)
  <2>1. plan.drop \in Names /\ plan.write = Null BY <1>2, <1>3, BegunFacts
  <2> QED BY <1>2, <2>1, BegunFacts
<1>6. Recovered' = plan.index BY <1>1, <1>3, <1>4, RecoveredNext DEF IInv
<1>7. \A n \in Files(plan.index) : file'[n] = file[n]
  <2>1. Files(plan.index) \subseteq Names BY <1>4, FilesFacts
  <2> QED BY <1>1, <1>5, <2>1 DEF IInv, TypeOK
<1>8. Shown(plan.index, file') = Shown(plan.index, file) BY <1>7, ShownSame
<1>9. Shown(plan.index, file) = want BY <1>1, <1>2, OldShown
<1>10. Versions' = want BY <1>4, <1>6, <1>8, <1>9, VersionsNext DEF KnownOf
<1> QED BY <1>1, <1>10, ReturnImplements

LEMMA TidyUpImplements ==
    ASSUME IInv, IInv', ShownInv, Tidy
    PROVE  Implements
<1>1. /\ pc = "tidy" /\ file' = [file EXCEPT ![plan.write] = before] /\ canonical' = canonical
      /\ backup' = backup
      /\ Return("failed")
  BY DEF Tidy, index
<1>2. plan.write # Null /\ Steady(Before) BY <1>1 DEF IInv, PlanInv
<1>3. file' = Before BY <1>1, <1>2 DEF Before
<1> DEFINE ix == IF canonical \in Missing THEN backup ELSE canonical
<1>4. Shown(KnownOf(ix), Before) = from /\ ix \notin Missing BY <1>1 DEF ShownInv
<1>5. Recovered' = ix
  <2>1. canonical \in Missing => Whole(backup, Before) BY <1>2, <1>4 DEF Steady
  <2>2. Whole(backup, file)' <=> Whole(backup, Before) BY <1>1, <1>3 DEF Whole
  <2> QED BY <1>1, <1>4, <2>1, <2>2, RecoveredNext DEF IInv
<1>6. Versions' = from BY <1>3, <1>4, <1>5, VersionsNext
<1> QED BY <1>1, <1>6, ReturnImplements

-----------------------------------------------------------------------------
(* Interrupted operations                                                    *)

\* The first interruption finds the index in its place.
LEMMA FirstFinds ==
    ASSUME MaxFaults <= 1, IInv, Undisturbed, pc \in {"write", "keep"}, Spare
    PROVE  canonical \notin Missing \/ (canonical = Null /\ backup = Null /\ swap = Null)
BY FaultAssumption DEF IInv, TypeOK, Undisturbed, Spare

LEMMA PartialWriteShown ==
    ASSUME MaxFaults <= 1, IInv, IInv', Undisturbed, ShownInv, pc = "write", Spare, Partial
    PROVE  /\ Versions' \in {from, want}
           /\ plan' = plan /\ before' = before => \A n \in Names : Before'[n] = file[n]
           /\ Recovered # Null => canonical' = Recovered
<1>1. /\ canonical' = canonical /\ backup' = backup /\ swap' = swap
      /\ \/ file' = file
         \/ \E c \in {plan.text} \cup (IF before = Null THEN {Torn} ELSE {}) : file' = [file EXCEPT ![plan.write] = c]
  BY DEF Partial, index
<1>2. PICK c : /\ file' = file \/ file' = [file EXCEPT ![plan.write] = c]
               /\ c = plan.text \/ (before = Null /\ c = Torn)
  BY <1>1
<1>3. canonical \notin Missing \/ (canonical = Null /\ backup = Null /\ swap = Null) BY FirstFinds
<1>4. Recovered' = Recovered
  <2>1. CASE canonical \notin Missing BY <1>1, <2>1, RecoveredForm, RecoveredNext DEF IInv
  <2>2. CASE canonical = Null /\ backup = Null /\ swap = Null
    BY <1>1, <2>2, RecoveredForm, RecoveredNext DEF IInv, Missing
  <2> QED BY <1>3, <2>1, <2>2
<1>5. Versions' \in {from, want} BY <1>2, <1>4, WriteShown
<1>6. Recovered # Null => canonical' = Recovered
  BY <1>1, <1>3, RecoveredForm DEF IInv, Missing
<1>7. Begun /\ plan.write # Null /\ before = file[plan.write] BY DEF IInv, PlanInv, Begun
<1>8. plan.write \in Names BY <1>7, BegunFacts
<1>9. file \in [Names -> Texts \cup {Null, Torn}] BY DEF IInv, TypeOK
<1>10. ASSUME plan' = plan, before' = before PROVE \A n \in Names : Before'[n] = file[n]
  <2>1. Before' = [file' EXCEPT ![plan.write] = before] BY <1>7, <1>10 DEF Before
  <2> QED BY <1>2, <1>7, <1>8, <1>9, <2>1
<1> QED BY <1>5, <1>6, <1>10

LEMMA PartialKeepShown ==
    ASSUME MaxFaults <= 1, IInv, IInv', Undisturbed, ShownInv, pc = "keep", Spare, Partial
    PROVE  /\ Versions' \in {from, want}
           /\ file' = file
           /\ Recovered # Null => canonical' = Recovered
<1>1. /\ file' = file /\ canonical' = canonical /\ swap' = swap
      /\ backup' = backup \/ (Recovered # Null /\ backup' \in {Recovered, Torn})
  BY DEF Partial, index
<1>2. canonical \notin Missing \/ (canonical = Null /\ backup = Null /\ swap = Null) BY FirstFinds
<1>3. Recovered # Null => canonical = Recovered
  BY <1>2, RecoveredForm DEF IInv, Missing
<1>4. Recovered' = Recovered
  <2>1. CASE canonical \notin Missing BY <1>1, <2>1, RecoveredForm, RecoveredNext DEF IInv
  <2>2. CASE canonical = Null /\ backup = Null /\ swap = Null
    BY <1>1, <1>3, <2>2, RecoveredForm, RecoveredNext DEF IInv, Missing
  <2> QED BY <1>2, <2>1, <2>2
<1>5. Versions' = Versions BY <1>1, <1>4, VersionsForm, VersionsNext
<1> QED BY <1>1, <1>3, <1>5 DEF ShownInv

LEMMA PartialMiddleShown ==
    ASSUME IInv, IInv', ShownInv, Middle, Partial
    PROVE  Versions' \in {from, want}
<1>1. file' = file /\ backup' = backup /\ canonical' \in Missing \cup {previous, plan.index}
  BY PartialMiddle
<1>2. previous = Null => swap' \in Missing \cup {plan.index}
  <2>1. previous = Null => swap = Null BY DEF IInv, PlanInv, Middle
  <2>2. swap' \in {swap, plan.index, previous} BY DEF Partial, Cut, Middle, index
  <2> QED BY <2>1, <2>2 DEF Missing
<1> QED BY <1>1, <1>2, MiddleShown

LEMMA PartialShown ==
    ASSUME MaxFaults <= 1, IInv, IInv', Undisturbed, ShownInv, pc # "idle", Spare, Partial
    PROVE  Versions' \in {from, want}
<1>1. CASE pc = "write" BY <1>1, PartialWriteShown
<1>2. CASE pc = "keep" BY <1>2, PartialKeepShown
<1>3. CASE Middle BY <1>3, PartialMiddleShown
<1>4. CASE pc = "tidy"
  <2>1. file' = file /\ canonical' = canonical /\ backup' = backup /\ swap' = swap
    BY <1>4 DEF Partial, index
  <2>2. Recovered' = Recovered BY <2>1 DEF Recovered, Complete, Readable
  <2>3. Versions' = Versions BY <2>1, <2>2, VersionsForm, VersionsNext
  <2> QED BY <2>3 DEF ShownInv
<1> QED BY <1>1, <1>2, <1>3, <1>4 DEF IInv, TypeOK, Positions, Middle

LEMMA CrashImplements ==
    ASSUME MaxFaults <= 1, IInv, IInv', Undisturbed, ShownInv, Crash
    PROVE  Implements
<1>1. pc # "idle" /\ Spare /\ Partial /\ Return("none") BY DEF Crash
<1>2. Versions' \in {from, want} BY <1>1, PartialShown
<1> QED BY <1>1, <1>2, ReturnImplements

LEMMA FaultImplements ==
    ASSUME StuckLate = FALSE, MaxFaults <= 1, IInv, IInv', Undisturbed, ShownInv, Fault
    PROVE  Implements
<1>1. /\ pc # "idle" /\ Spare /\ Partial
      /\ ~(pc = "restore" /\ canonical = plan.index)
      /\ CASE pc = "publish" /\ previous # Null -> Goto("restore")
           [] pc = "drop" -> Goto("undrop")
           [] pc \in {"undrop", "tidy"} -> Return("failed")
           [] OTHER -> Leave
  BY DEF Fault
<1>2. Versions' \in {from, want} BY <1>1, PartialShown
<1>3. ASSUME Return("failed") PROVE Implements
  BY <1>1, <1>2, <1>3, ReturnImplements
<1>4. CASE (pc = "publish" /\ previous # Null) \/ pc = "drop"
  <2>1. Goto("restore") \/ Goto("undrop") BY <1>1, <1>4
  <2>2. /\ pc' \in {"restore", "undrop"} /\ report' = report /\ plan' = plan /\ before' = before
        /\ from' = from /\ want' = want /\ previous' = previous
    BY <2>1 DEF Goto, call
  <2>3. Middle /\ Begun /\ Begun' /\ Old' = Old BY <1>4, <2>2 DEF Middle, Begun, Old
  <2>4. file' = file BY <1>1, <2>3, PartialMiddle
  <2>5. ShownInv' BY <1>2, <1>4, <2>2, <2>3, <2>4, GoneOn
  <2> QED BY <1>1, <1>2, <2>2, <2>5, ChangeImplements
<1>5. CASE pc \in {"undrop", "tidy"} BY <1>1, <1>3, <1>5
<1>6. CASE pc \in {"write", "keep", "restore"} \/ (pc = "publish" /\ previous = Null)
  <2>1. Leave BY <1>1, <1>6
  <2>2. CASE ~plan.tidy BY <1>3, <2>1, <2>2 DEF Leave
  <2>3. CASE plan.tidy
    <3>1. Goto("tidy") BY <2>1, <2>3 DEF Leave
    <3>2. plan' = plan /\ before' = before BY <3>1 DEF Goto, call
    <3>3. Begun BY <1>6 DEF Begun
    <3>4. Old # Null BY <2>3, <3>3, BegunFacts
    <3>5. CASE pc = "write"
      <4>1. Old = Recovered BY <3>5 DEF Old
      <4>2. /\ \A n \in Names : Before'[n] = file[n]
            /\ canonical' = Recovered
        BY <1>1, <3>2, <3>4, <3>5, <4>1, PartialWriteShown
      <4> QED BY <1>2, <3>1, <3>3, <3>4, <3>5, <4>1, <4>2, TidyImplements
    <3>6. CASE pc = "keep"
      <4>1. Old = Recovered BY <3>6 DEF Old
      <4>2. file' = file /\ canonical' = Recovered BY <1>1, <3>4, <3>6, <4>1, PartialKeepShown
      <4>3. Before' = Before BY <3>2, <4>2 DEF Before
      <4> QED BY <1>2, <3>1, <3>3, <3>4, <3>6, <4>1, <4>2, <4>3, TidyImplements
    <3>7. CASE pc = "restore"
      <4>1. Middle /\ Old = previous BY <3>7 DEF Middle, Old
      <4>2. file' = file /\ backup' = backup /\ canonical' \in Missing \cup {previous}
        BY <1>1, <3>7, <4>1, PartialMiddle
      <4>3. backup = previous BY <3>4, <4>1, MiddleFacts
      <4>4. Before' = Before BY <3>2, <4>2 DEF Before
      <4>5. canonical' = Old \/ (canonical' \in Missing /\ backup' = Old) BY <4>1, <4>2, <4>3
      <4> QED BY <1>2, <3>1, <3>3, <3>4, <3>7, <4>4, <4>5, TidyImplements
    <3>8. CASE pc = "publish" /\ previous = Null
      <4>1. Old = previous BY <3>8 DEF Old
      <4> QED BY <3>4, <3>8, <4>1
    <3> QED BY <1>6, <3>5, <3>6, <3>7, <3>8
  <2> QED BY <2>2, <2>3
<1> QED BY <1>1, <1>4, <1>5, <1>6 DEF IInv, TypeOK, Positions

LEMMA NextImplements ==
    ASSUME StuckLate = FALSE, MaxFaults <= 1, IInv, Undisturbed, ShownInv, [Next]_vars
    PROVE  Implements
<1>1. IInv' BY NextInv
<1>2. CASE Next
  BY <1>1, <1>2, BeginImplements, WriteFileImplements, KeepImplements, PublishIndexImplements,
     RestoreImplements,
     DropImplements, UndropImplements, TidyUpImplements, FaultImplements, CrashImplements DEF Next
<1>3. CASE UNCHANGED vars
  <2>1. /\ file' = file /\ canonical' = canonical /\ backup' = backup /\ swap' = swap /\ pc' = pc
        /\ previous' = previous /\ report' = report /\ plan' = plan /\ before' = before
        /\ from' = from /\ want' = want
    BY <1>3 DEF vars, index, call
  <2>2. Recovered' = Recovered BY <2>1 DEF Recovered, Complete, Readable
  <2>3. Versions' = Versions BY <2>1, <2>2, VersionsForm, VersionsNext
  <2>4. Old' = Old /\ Before' = Before /\ Begun' = Begun BY <2>1, <2>2 DEF Old, Before, Begun
  <2>5. After(plan)' = After(plan) BY <2>1 DEF After, Shown
  <2>6. Shown(KnownOf(Old), IF pc = "write" THEN file ELSE Before)'
          = Shown(KnownOf(Old), IF pc = "write" THEN file ELSE Before)
    BY <2>1, <2>4 DEF Shown, KnownOf
  <2>7. Shown(KnownOf(IF canonical \in Missing THEN backup ELSE canonical), Before)'
          = Shown(KnownOf(IF canonical \in Missing THEN backup ELSE canonical), Before)
    BY <2>1, <2>4 DEF Shown, KnownOf
  <2>8. ShownInv' BY <2>1, <2>3, <2>4, <2>5, <2>6, <2>7 DEF ShownInv
  <2>9. UNCHANGED shelfVars BY <2>1, <2>3 DEF shelfVars
  <2> QED BY <2>8, <2>9 DEF Implements
<1> QED BY <1>2, <1>3

LEMMA InitShown == Init => Undisturbed /\ ShownInv /\ Shelf!Init
<1> SUFFICES ASSUME Init PROVE Undisturbed /\ ShownInv /\ Shelf!Init OBVIOUS
<1>1. IInv BY InitInv
<1>2. /\ pc = "idle" /\ faults = 0 /\ from = Versions /\ want = Versions /\ report = "none"
  BY DEF Init
<1>3. ShownInv BY <1>2 DEF ShownInv, Begun
<1>4. canonical \notin Missing \/ (canonical = Null /\ backup = Null /\ swap = Null)
  <2>1. \A l \in Labels : GoodIndex(ImportAndCopy(l)) BY ImportAndCopyFacts
  <2>2. GoodIndex(Migrated) BY MigratedFacts
  <2>3. \A ix : GoodIndex(ix) => ix \notin Missing BY GoodIsSound
  <2> QED BY <2>1, <2>2, <2>3 DEF Init
<1>5. Undisturbed BY <1>2, <1>4 DEF Undisturbed
<1>6. Shelf!IsShelf(Versions)
  <2> DEFINE ix == KnownOf(Recovered)
  <2>1. Versions = Shown(ix, file) BY VersionsForm
  <2>2. GoodIndex(ix) /\ Whole(ix, file)
    <3>1. CASE Recovered \in Missing BY <3>1, NoModelsFacts DEF KnownOf, Whole
    <3>2. CASE Recovered \notin Missing
      <4>1. Steady(file) BY <1>1, <1>2 DEF IInv, PlanInv
      <4>2. GoodIndex(Recovered) /\ Whole(Recovered, file)
        BY <1>1, <3>2, <4>1, RecoveredFacts DEF IInv, Steady
      <4> QED BY <3>2, <4>2 DEF KnownOf
    <3> QED BY <3>1, <3>2
  <2> HIDE DEF ix
  <2>3. Files(ix) \subseteq Names BY <2>2, FilesFacts
  <2>4. DOMAIN Versions = Files(ix) BY <2>1 DEF Shown
  <2>5. ASSUME NEW n \in Files(ix) PROVE Versions[n] \in Shelf!Version
    <3> DEFINE r == n \in ReadOnly(ix)
    <3>1. Versions[n] = [text |-> file[n], readonly |-> r] /\ file[n] \in Texts
      BY <2>1, <2>2 DEF Shown, Whole
    <3>2. r \in BOOLEAN OBVIOUS
    <3> HIDE DEF r
    <3> QED BY <3>1, <3>2 DEF Shelf!Version
  <2> QED BY <2>3, <2>4, <2>5 DEF Shelf!IsShelf
<1>7. Shelf!Init
  <2>1. (pc # "idle") = FALSE BY <1>2
  <2> QED BY <1>2, <1>6, <2>1 DEF Shelf!Init
<1> QED BY <1>3, <1>5, <1>7

\* Every step of the store is one of VersionSet's or none: a call changes one
\* version as asked or nothing, and says which, when at most one operation is
\* interrupted.  Two faults in two calls may hit the index and its backup.
THEOREM KeepsItsPromise ==
    ASSUME StuckLate = FALSE, MaxFaults <= 1
    PROVE  Spec => OneVersionAtATime
<1> DEFINE RInv == IInv /\ Undisturbed /\ ShownInv
<1>1. Init => RInv /\ Shelf!Init BY InitInv, InitShown
<1>2. RInv /\ [Next]_vars => RInv' BY NextInv, UndisturbedNext, NextImplements DEF Implements
<1>3. RInv /\ [Next]_vars => [Shelf!Next]_<<Versions, from, want, pc # "idle", report>>
  BY NextImplements DEF Implements, shelfVars
<1> QED BY <1>1, <1>2, <1>3, PTL DEF Spec, OneVersionAtATime, Shelf!Spec

-----------------------------------------------------------------------------
(* Desktop file access: the calls of the page on the files of its project.   *)

Ids == 1 .. MaxIds
Grant == [at : Places, is : Dirs]
Session == [to : Places, holds : Seq(Nat)]
Points == {"idle", "create", "begin", "send", "commit", "abort", "size", "read"}
Request == [pc : Points, caller : {"none", "writes", "checks", "reads"}, what : Nat, id : Nat, sent : Nat,
            size : Nat, got : Seq(Nat), replaced : BOOLEAN,
            outcome : {"none", "ok", "failed", "missing", "unread", "read"}]
TextsWritten == Wholes \cup {<<>>}

FilesTypeOK ==
  /\ place \in [Places -> Dirs \cup {None}]
  /\ text \in [Dirs -> TextsWritten \cup {None}]
  /\ temps \in [Dirs -> SUBSET Ids]
  /\ {grant, registry} \subseteq [Places -> Grant \cup {None}]
  /\ waiting \in Seq(Places)
  /\ session \in [Ids -> Session \cup {None}]
  /\ request \in [Slots -> Request]
  /\ project \in Places \cup {None} /\ recent \in [Dirs -> Places \cup {None}]
  /\ ids \in 0 .. MaxIds
  /\ chosen \subseteq Dirs /\ put \subseteq Slots

\* Every grant is of a folder the user chose.
Granted(g) == g # None => g.is \in chosen
GrantInv == \A p \in Places : Granted(grant[p]) /\ Granted(registry[p])

\* A temporary file is of the folder granted, and of one call.
Writes == {"create", "begin", "send", "commit", "abort"}
Target == grant[project].is

TempInv ==
  /\ \A d \in Dirs : temps[d] # {} => d \in chosen
  /\ \A d \in Dirs : \A i \in temps[d] : i <= ids
  /\ \A i \in Ids : i > ids => session[i] = None

\* What a call that writes has sent is in its session, which is for that folder.
WriteInv(s) ==
  LET c == request[s]  i == c.id IN
  c.pc \in Writes =>
    /\ i \in 1 .. ids /\ c.caller \in Callers /\ c.what \in Lengths /\ s \notin put
    /\ c.got = <<>> /\ c.replaced = FALSE
    /\ c.pc \in {"create", "begin"} => c.sent = 0 /\ session[i] = None /\ \A d \in Dirs : i \notin temps[d]
    /\ \A d \in Dirs : i \in temps[d] => d = Target
    /\ session[i] # None => session[i].to = grant[project].at
    /\ c.pc = "send" => c.sent < c.what
    /\ c.pc = "send" /\ session[i] # None => session[i].holds = [k \in 1 .. c.sent |-> c.what]
    /\ c.pc = "commit" /\ session[i] # None => session[i].holds = WholeText(c.what)

\* What is read is of one text, unless it was replaced by another one as long.
OneText(c, t) ==
  \/ c.replaced
  \/ t # None => \/ Len(t) < c.size
                 \/ Len(t) = c.size /\ \A k \in 1 .. Len(c.got) : c.got[k] = t[k]
ReadInv(s) ==
  LET c == request[s] IN
  /\ c.pc \in {"size", "read"} => c.caller \in {"checks", "reads"} /\ (s \in put <=> c.caller = "checks")
  /\ c.pc = "size" => c.got = <<>> /\ ~c.replaced
  /\ c.pc = "read" => Len(c.got) < c.size /\ OneText(c, text[Target])

\* Calls have sessions of their own, and what they told their callers is true.
Apart == \A r, s \in Slots : request[r].pc \in Writes /\ request[s].pc \in Writes /\ r # s
                               => request[r].id # request[s].id
Told(s) == LET c == request[s] IN
  /\ c.outcome = "ok" => s \in put
  /\ c.outcome = "failed" => s \notin put
  /\ c.outcome = "read" => c.replaced \/ c.got \in TextsWritten
Open(s) == request[s].pc # "idle"
           => project \in Places /\ grant[project] \in Grant /\ request[s].outcome = "none"
CallInv == Apart /\ \A s \in Slots : WriteInv(s) /\ ReadInv(s) /\ Told(s) /\ Open(s)

AccessInv == FilesTypeOK /\ GrantInv /\ TempInv /\ CallInv

\* A whole text, as the sequence of its pieces.
LEMMA WholeFacts ==
    ASSUME NEW n \in Nat
    PROVE  /\ WholeText(n) \in Seq(Nat) /\ Len(WholeText(n)) = n
           /\ \A i \in 1 .. n : WholeText(n)[i] = n
<1>1. WholeText(n) \in [1 .. n -> Nat] BY DEF WholeText
<1> QED BY <1>1 DEF WholeText

LEMMA TextFacts ==
    ASSUME NativeAssumption, NEW t \in TextsWritten
    PROVE  t \in Seq(Nat) /\ Len(t) \in Nat
BY WholeFacts DEF TextsWritten, Wholes, NativeAssumption

\* A call that is over, with what became of it.
LEMMA IdleFacts == Idle \in Request /\ \A o \in {"none", "ok", "failed", "missing", "unread", "read"} :
                                          [Idle EXCEPT !.outcome = o] \in Request
<1>1. <<>> \in Seq(Nat) OBVIOUS
<1> QED BY <1>1 DEF Idle, Request, Points

\* The invariant holds when the program starts.
LEMMA FilesStartInv ==
    ASSUME NativeAssumption, FilesInit
    PROVE  AccessInv
<1>1. /\ temps = [d \in Dirs |-> {}] /\ grant = Nowhere /\ registry = Nowhere /\ waiting = <<>>
      /\ session = [i \in 1 .. MaxIds |-> None] /\ request = [s \in Slots |-> Idle] /\ project = None
      /\ recent = [d \in Dirs |-> None] /\ ids = 0 /\ chosen = {} /\ put = {} /\ place \in Somewhere
  BY DEF FilesInit, Start
<1>2. place \in [Places -> Dirs \cup {None}]
  BY <1>1 DEF Somewhere, Nowhere, NativeAssumption
<1>3. text \in [Dirs -> TextsWritten \cup {None}]
  <2>1. \A n \in Longest : WholeText(n) \in Wholes BY DEF Longest, Wholes
  <2> QED BY <2>1 DEF FilesInit, Start, TextsWritten
<1>4. FilesTypeOK
  <2>1. waiting \in Seq(Places) BY <1>1
  <2>2. request \in [Slots -> Request] BY <1>1, IdleFacts
  <2> QED BY <1>1, <1>2, <1>3, <2>1, <2>2 DEF FilesTypeOK, Nowhere, Ids, NativeAssumption
<1>5. GrantInv BY <1>1 DEF GrantInv, Granted, Nowhere
<1>6. TempInv BY <1>1 DEF TempInv, Ids
<1>7. \A s \in Slots : request[s].pc = "idle" /\ request[s].outcome = "none" BY <1>1 DEF Idle
<1>8. CallInv BY <1>7 DEF CallInv, Apart, WriteInv, ReadInv, Told, Open, Writes
<1> QED BY <1>4, <1>5, <1>6, <1>8 DEF AccessInv

\* A step keeps the invariant, and changes files only as it may.
TextStep == \A d \in Dirs : text'[d] # text[d] => d \in chosen /\ text'[d] \in TextsWritten
AccessKept == AccessInv' /\ TextStep

\* The record of a call: each field may be set.
LEMMA RequestFields ==
    ASSUME NEW c \in Request
    PROVE  /\ \A point \in Points : [c EXCEPT !.pc = point] \in Request
           /\ \A n \in Nat, point \in Points : [c EXCEPT !.sent = n, !.pc = point] \in Request
           /\ \A n \in Nat, point \in Points : [c EXCEPT !.pc = point, !.size = n] \in Request
           /\ \A g \in Seq(Nat) : [c EXCEPT !.got = g] \in Request
           /\ [c EXCEPT !.replaced = TRUE] \in Request
<1>1. \A point \in Points : [c EXCEPT !.pc = point] \in Request BY DEF Request
<1>2. \A n \in Nat, point \in Points : [c EXCEPT !.sent = n, !.pc = point] \in Request
  <2>1. \A n \in Nat : [c EXCEPT !.sent = n] \in Request BY DEF Request
  <2>2. \A d \in Request, point \in Points : [d EXCEPT !.pc = point] \in Request BY DEF Request
  <2>3. \A n, point : [c EXCEPT !.sent = n, !.pc = point] = [[c EXCEPT !.sent = n] EXCEPT !.pc = point]
    OBVIOUS
  <2> QED BY <2>1, <2>2, <2>3
<1>3. \A n \in Nat, point \in Points : [c EXCEPT !.pc = point, !.size = n] \in Request BY DEF Request
<1>4. \A g \in Seq(Nat) : [c EXCEPT !.got = g] \in Request BY DEF Request
<1>5. [c EXCEPT !.replaced = TRUE] \in Request BY DEF Request
<1> QED BY <1>1, <1>2, <1>3, <1>4, <1>5

\* A call that begins, and one that has read.
LEMMA NewRequests ==
    ASSUME NEW n \in Nat, NEW i \in Nat, NEW caller \in {"writes", "checks", "reads"}, NEW point \in Points
    PROVE  [[Idle EXCEPT !.caller = caller, !.what = n, !.id = i] EXCEPT !.pc = point] \in Request
<1>1. [Idle EXCEPT !.caller = caller, !.what = n, !.id = i] \in Request
  <2>1. <<>> \in Seq(Nat) OBVIOUS
  <2> QED BY <2>1 DEF Idle, Request, Points
<1>2. \A d \in Request : [d EXCEPT !.pc = point] \in Request BY RequestFields
<1> QED BY <1>1, <1>2

LEMMA FoundFacts ==
    ASSUME NEW g \in Seq(Nat), NEW r \in BOOLEAN
    PROVE  [Idle EXCEPT !.got = g, !.replaced = r, !.outcome = "read"] \in Request
BY DEF Idle, Request, Points

\* While the grant of the project is valid, the project is the folder granted.
LEMMA CanFacts ==
    ASSUME AccessInv, project \in Places, Can
    PROVE  grant[project] \in Grant /\ Here = Target /\ Target \in chosen /\ Target \in Dirs
BY DEF AccessInv, FilesTypeOK, GrantInv, Granted, Can, Permitted, Validates, Here, Folder, Target, Grant

\* Steps while no call is under way, that choose a folder or a project.
LEMMA NoCallsStep ==
    ASSUME AccessInv, NoCalls, SameFiles, FilesTypeOK', GrantInv', chosen \subseteq chosen'
    PROVE  AccessKept
<1>1. TempInv' BY DEF AccessInv, TempInv, SameFiles
<1>2. CallInv'
  <2>1. /\ request' = request /\ put' = put /\ \A s \in Slots : request[s].pc = "idle"
        /\ \A s \in Slots : Told(s)
    BY DEF NoCalls, SameFiles, AccessInv, CallInv
  <2>2. \A s \in Slots : Told(s)' BY <2>1 DEF Told
  <2> QED BY <2>1, <2>2 DEF CallInv, Apart, WriteInv, ReadInv, Open, Writes
<1>3. TextStep BY DEF TextStep, SameFiles
<1> QED BY <1>1, <1>2, <1>3 DEF AccessInv, AccessKept

\* A folder the user chooses, and each way of choosing it.
LEMMA RememberStep ==
    ASSUME AccessInv, NEW root \in Places, NEW p \in Places, place[p] # None, Remember(root, p)
    PROVE  /\ {grant', registry'} \subseteq [Places -> Grant \cup {None}] /\ chosen' \subseteq Dirs
           /\ GrantInv' /\ chosen \subseteq chosen'
<1>1. place[p] \in Dirs BY DEF AccessInv, FilesTypeOK
<1>2. [at |-> p, is |-> place[p]] \in Grant BY <1>1 DEF Grant
<1>3. grant \in [Places -> Grant \cup {None}] /\ chosen \subseteq Dirs BY DEF AccessInv, FilesTypeOK
<1>4. /\ grant' = [grant EXCEPT ![root] = [at |-> p, is |-> place[p]]] /\ registry' = grant'
      /\ chosen' = chosen \cup {place[p]}
  BY DEF Remember
<1>5. grant' \in [Places -> Grant \cup {None}] BY <1>2, <1>3, <1>4
<1>6. \A q \in Places : Granted(grant[q]) BY DEF AccessInv, GrantInv
<1>7. GrantInv' BY <1>3, <1>4, <1>6 DEF GrantInv, Granted
<1> QED BY <1>1, <1>3, <1>4, <1>5, <1>7

LEMMA PickStep ==
    ASSUME AccessInv, NEW p \in Places, Pick(p)
    PROVE  AccessKept
<1>1. NoCalls /\ SameFiles /\ place[p] # None /\ waiting' = waiting BY DEF Pick
<1>2. CASE Remember(p, p) /\ Opened(p)
  <2>1. FilesTypeOK' BY <1>1, <1>2, RememberStep DEF AccessInv, FilesTypeOK, Opened, SameFiles
  <2> QED BY <1>1, <1>2, <2>1, RememberStep, NoCallsStep
<1>3. CASE UNCHANGED <<grant, registry, chosen, project, recent>>
  <2>1. FilesTypeOK' /\ GrantInv' BY <1>1, <1>3 DEF AccessInv, FilesTypeOK, SameFiles, GrantInv, Granted
  <2> QED BY <1>1, <1>3, <2>1, NoCallsStep
<1> QED BY <1>2, <1>3 DEF Pick

LEMMA NextDocumentStep ==
    ASSUME AccessInv, NextDocument
    PROVE  AccessKept
<1>1. NoCalls /\ SameFiles /\ waiting # <<>> /\ waiting' = Tail(waiting) BY DEF NextDocument
<1>2. waiting \in Seq(Places) BY DEF AccessInv, FilesTypeOK
<1>3. Head(waiting) \in Places /\ waiting' \in Seq(Places) BY <1>1, <1>2
<1>4. CASE place[Head(waiting)] # None /\ Remember(Head(waiting), Head(waiting)) /\ Opened(Head(waiting))
  <2>1. FilesTypeOK' BY <1>1, <1>3, <1>4, RememberStep DEF AccessInv, FilesTypeOK, Opened, SameFiles
  <2> QED BY <1>1, <1>3, <1>4, <2>1, RememberStep, NoCallsStep
<1>5. CASE UNCHANGED <<grant, registry, chosen, project, recent>>
  <2>1. FilesTypeOK' /\ GrantInv'
    BY <1>1, <1>3, <1>5 DEF AccessInv, FilesTypeOK, SameFiles, GrantInv, Granted
  <2> QED BY <1>1, <1>5, <2>1, NoCallsStep
<1> QED BY <1>4, <1>5 DEF NextDocument

\* A project opened again, and a grant given again.
LEMMA OpenRecentStep ==
    ASSUME AccessInv, NEW d \in Dirs, OpenRecent(d)
    PROVE  AccessKept
<1>1. NoCalls /\ SameFiles /\ UNCHANGED <<grant, registry, waiting, chosen, recent>> /\ project' = recent[d]
  BY DEF OpenRecent
<1>2. FilesTypeOK' /\ GrantInv' BY <1>1 DEF AccessInv, FilesTypeOK, SameFiles, GrantInv, Granted
<1> QED BY <1>1, <1>2, NoCallsStep

LEMMA ReauthorizeStep ==
    ASSUME AccessInv, NEW p \in Places, Reauthorize(p)
    PROVE  AccessKept
<1>1. NoCalls /\ SameFiles /\ UNCHANGED <<waiting, project, recent>> /\ place[p] # None
  BY DEF Reauthorize
<1>2. CASE Remember(p, p)
  <2>1. FilesTypeOK' BY <1>1, <1>2, RememberStep DEF AccessInv, FilesTypeOK, SameFiles
  <2> QED BY <1>1, <1>2, <2>1, RememberStep, NoCallsStep
<1>3. CASE UNCHANGED <<grant, registry, chosen>>
  <2>1. FilesTypeOK' /\ GrantInv' BY <1>1, <1>3 DEF AccessInv, FilesTypeOK, SameFiles, GrantInv, Granted
  <2> QED BY <1>1, <1>3, <2>1, NoCallsStep
<1> QED BY <1>2, <1>3 DEF Reauthorize

\* What happens outside leaves the calls as they are.
LEMMA OutsideStep ==
    ASSUME AccessInv, FilesTypeOK', GrantInv',
           UNCHANGED <<text, temps, grant, session, request, project, ids, chosen, put>>
    PROVE  AccessKept
<1>1. TempInv' BY DEF AccessInv, TempInv
<1>2. Apart' /\ \A s \in Slots : (WriteInv(s) /\ ReadInv(s) /\ Told(s) /\ Open(s))'
  BY DEF AccessInv, CallInv, Apart, WriteInv, ReadInv, Told, Open, OneText, Target
<1>3. TextStep BY DEF TextStep
<1> QED BY <1>1, <1>2, <1>3 DEF AccessInv, CallInv, AccessKept

\* A document opened from the system, a folder moved, a restart.
LEMMA DocumentStep ==
    ASSUME AccessInv, NEW p \in Places, OpenDocument(p)
    PROVE  AccessKept
<1>1. /\ waiting' = Append(waiting, p)
      /\ UNCHANGED <<place, text, temps, grant, registry, session, request, project, recent, ids,
                     chosen, put>>
  BY DEF OpenDocument
<1>2. FilesTypeOK' /\ GrantInv' BY <1>1 DEF AccessInv, FilesTypeOK, GrantInv, Granted
<1> QED BY <1>1, <1>2, OutsideStep

LEMMA TakesStep ==
    ASSUME AccessInv, NEW p \in Places, NEW d \in Dirs \cup {None}, Takes(p, d)
    PROVE  AccessKept
<1>1. /\ place' = [place EXCEPT ![p] = d]
      /\ UNCHANGED <<text, temps, grant, registry, waiting, session, request, project, recent, ids,
                     chosen, put>>
  BY DEF Takes
<1>2. FilesTypeOK' /\ GrantInv' BY <1>1 DEF AccessInv, FilesTypeOK, GrantInv, Granted
<1> QED BY <1>1, <1>2, OutsideStep

LEMMA RestartStep ==
    ASSUME AccessInv, Restart
    PROVE  AccessKept
<1>1. /\ session' = [i \in 1 .. MaxIds |-> None] /\ request' = [s \in Slots |-> Idle] /\ project' = None
      /\ waiting' = <<>> /\ put' = {} /\ UNCHANGED <<place, text, temps, registry, recent, ids, chosen>>
      /\ \A p \in Places : grant'[p] \in Bookmarked(registry[p])
      /\ \E S : grant' \in [Places -> S]
  BY DEF Restart
<1>2. \A p \in Places : grant'[p] \in Grant \cup {None} /\ (grant'[p] # None => grant'[p].is \in chosen)
  <2>1. SUFFICES ASSUME NEW p \in Places
                 PROVE  grant'[p] \in Grant \cup {None} /\ (grant'[p] # None => grant'[p].is \in chosen)
    OBVIOUS
  <2>2. registry[p] \in Grant \cup {None} /\ Granted(registry[p]) BY DEF AccessInv, FilesTypeOK, GrantInv
  <2>3. \/ grant'[p] = registry[p]
        \/ registry[p] # None /\ \E q \in Places : grant'[p] = [registry[p] EXCEPT !.at = q]
    BY <1>1 DEF Bookmarked
  <2> QED BY <1>1, <2>2, <2>3 DEF Grant, Granted
<1>3. FilesTypeOK'
  <2>1. grant' \in [Places -> Grant \cup {None}] BY <1>1, <1>2
  <2>2. request' \in [Slots -> Request] BY <1>1, IdleFacts
  <2>3. waiting' \in Seq(Places) BY <1>1
  <2> QED BY <1>1, <2>1, <2>2, <2>3 DEF AccessInv, FilesTypeOK, Ids
<1>4. GrantInv' BY <1>1, <1>2 DEF AccessInv, GrantInv, Granted
<1>5. TempInv' BY <1>1 DEF AccessInv, TempInv, Ids
<1>6. \A s \in Slots : (request[s].pc = "idle" /\ request[s].outcome = "none")' BY <1>1 DEF Idle
<1>7. CallInv' BY <1>6 DEF CallInv, Apart, WriteInv, ReadInv, Told, Open, Writes
<1>8. TextStep BY <1>1 DEF TextStep
<1> QED BY <1>3, <1>4, <1>5, <1>7, <1>8 DEF AccessInv, AccessKept

\* What a step of the call s leaves of the others.
OthersKept(s) ==
  \A r \in Slots \ {s} :
     /\ \/ request'[r] = request[r]
        \/ request[r].pc = "read" /\ request'[r] = [request[r] EXCEPT !.replaced = TRUE]
     /\ r \in put' <=> r \in put
     /\ request[r].pc = "read" => OneText(request'[r], text'[Target])
OwnFile(s) ==
  \A i \in 1 .. ids : i # request[s].id \/ request[s].pc \notin Writes =>
     session'[i] = session[i] /\ \A d \in Dirs : i \in temps'[d] <=> i \in temps[d]
SameId(s) ==
  request'[s].pc \in Writes => \/ request[s].pc \in Writes /\ request'[s].id = request[s].id
                               \/ request'[s].id > ids

\* The other calls that write, and those that read.
LEMMA OtherWrites ==
    ASSUME AccessInv, CallStep, NEW s \in Slots, ids <= ids', ids' \in Nat, OthersKept(s), OwnFile(s),
           NEW r \in Slots, r # s
    PROVE  WriteInv(r)'
<1>1. SUFFICES ASSUME request'[r].pc \in Writes PROVE WriteInv(r)' BY DEF WriteInv
<1>2. request[r] \in Request /\ ids \in Nat BY DEF AccessInv, FilesTypeOK
<1>3. request'[r] = request[r] /\ (r \in put' <=> r \in put)
  <2>1. request[r].pc = "read" /\ request'[r] = [request[r] EXCEPT !.replaced = TRUE]
        => request'[r].pc = "read"
    BY <1>2 DEF Request
  <2> QED BY <1>1, <2>1 DEF OthersKept, Writes
<1>4. WriteInv(r) /\ request[r].pc \in Writes BY <1>1, <1>3 DEF AccessInv, CallInv
<1> DEFINE i == request[r].id
<1>5. i \in 1 .. ids BY <1>4 DEF WriteInv
<1>6. i # request[s].id \/ request[s].pc \notin Writes BY <1>4 DEF AccessInv, CallInv, Apart
<1>7. session'[i] = session[i] /\ \A d \in Dirs : i \in temps'[d] <=> i \in temps[d]
  BY <1>5, <1>6 DEF OwnFile
<1>8. grant' = grant /\ project' = project /\ Target' = Target BY DEF CallStep, Target
<1>9. i \in 1 .. ids' BY <1>2, <1>5
<1> QED BY <1>3, <1>4, <1>7, <1>8, <1>9 DEF WriteInv

LEMMA OtherReads ==
    ASSUME AccessInv, CallStep, NEW s \in Slots, OthersKept(s), NEW r \in Slots, r # s
    PROVE  ReadInv(r)' /\ Told(r)' /\ Open(r)'
<1>1. ReadInv(r) /\ Told(r) /\ Open(r) /\ request[r] \in Request BY DEF AccessInv, CallInv, FilesTypeOK
<1>2. grant' = grant /\ project' = project /\ Target' = Target BY DEF CallStep, Target
<1>3. r \in put' <=> r \in put BY DEF OthersKept
<1>4. request[r].pc = "read" => OneText(request'[r], text'[Target]) BY DEF OthersKept
<1>5. CASE request'[r] = request[r]
  BY <1>1, <1>2, <1>3, <1>4, <1>5 DEF ReadInv, Told, Open, OneText
<1>6. CASE request[r].pc = "read" /\ request'[r] = [request[r] EXCEPT !.replaced = TRUE]
  <2>1. /\ request'[r].pc = request[r].pc /\ request'[r].caller = request[r].caller
        /\ request'[r].got = request[r].got /\ request'[r].size = request[r].size
        /\ request'[r].outcome = request[r].outcome
    BY <1>1, <1>6 DEF Request
  <2> QED BY <1>1, <1>2, <1>3, <1>4, <1>6, <2>1 DEF ReadInv, Told, Open, OneText
<1> QED BY <1>5, <1>6 DEF OthersKept

\* A step of one call keeps the invariant if it keeps its own part.
LEMMA AloneStep ==
    ASSUME AccessInv, CallStep, NEW s \in Slots, OthersKept(s), OwnFile(s), SameId(s), ids <= ids',
           FilesTypeOK', TempInv', TextStep, WriteInv(s)', ReadInv(s)', Told(s)', Open(s)'
    PROVE  AccessKept
<1>1. ids' \in Nat /\ ids \in Nat /\ GrantInv' BY DEF AccessInv, FilesTypeOK, GrantInv, Granted, CallStep
<1>2. \A r \in Slots : WriteInv(r)' BY <1>1, OtherWrites
<1>3. \A r \in Slots : ReadInv(r)' /\ Told(r)' /\ Open(r)' BY OtherReads
<1>4. \A r \in Slots \ {s} : request'[r].pc \in Writes => request'[r] = request[r]
  <2>1. SUFFICES ASSUME NEW r \in Slots \ {s}, request'[r].pc \in Writes
                 PROVE  request'[r] = request[r] OBVIOUS
  <2>2. request[r] \in Request BY DEF AccessInv, FilesTypeOK
  <2>3. request[r].pc = "read" => [request[r] EXCEPT !.replaced = TRUE].pc = "read"
    BY <2>2 DEF Request
  <2> QED BY <2>1, <2>3 DEF OthersKept, Writes
<1>5. \A r \in Slots : request[r].pc \in Writes => request[r].id \in Nat /\ request[r].id <= ids
  <2>1. \A r \in Slots : WriteInv(r) BY DEF AccessInv, CallInv
  <2>2. \A r \in Slots : request[r].pc \in Writes => request[r].id \in 1 .. ids BY <2>1 DEF WriteInv
  <2> QED BY <1>1, <2>2
<1>6. Apart'
  <2>1. SUFFICES ASSUME NEW q \in Slots, NEW r \in Slots, request'[q].pc \in Writes,
                        request'[r].pc \in Writes, q # r
                 PROVE  request'[q].id # request'[r].id
    BY DEF Apart
  <2>2. Apart BY DEF AccessInv, CallInv
  <2>3. \A u \in Slots : request'[u] \in Request BY DEF FilesTypeOK
  <2>4. request'[q].id \in Nat /\ request'[r].id \in Nat BY <2>3 DEF Request
  <2>5. CASE q # s /\ r # s BY <1>4, <2>1, <2>2, <2>5 DEF Apart
  <2>6. CASE q = s BY <1>1, <1>4, <1>5, <2>1, <2>2, <2>4, <2>6 DEF Apart, SameId
  <2>7. CASE r = s BY <1>1, <1>4, <1>5, <2>1, <2>2, <2>4, <2>7 DEF Apart, SameId
  <2> QED BY <2>5, <2>6, <2>7
<1> QED BY <1>1, <1>2, <1>3, <1>6 DEF AccessInv, CallInv, AccessKept

(* The steps of a call.                                                      *)

\* The record of the call s after a step, when nothing else of the calls changes.
LEMMA BecomeFacts ==
    ASSUME AccessInv, NEW s \in Slots, NEW c \in Request, Become(s, c)
    PROVE  /\ request' \in [Slots -> Request] /\ request'[s] = c
           /\ \A r \in Slots \ {s} : request'[r] = request[r]
BY DEF AccessInv, FilesTypeOK, Become

\* A call that does not write a file.
LEMMA AloneWhenStill ==
    ASSUME AccessInv, CallStep, NEW s \in Slots, \A r \in Slots \ {s} : request'[r] = request[r],
           text' = text, \A r \in Slots \ {s} : r \in put' <=> r \in put
    PROVE  OthersKept(s) /\ TextStep
<1>1. \A r \in Slots : request[r].pc = "read" => OneText(request[r], text[Target])
  BY DEF AccessInv, CallInv, ReadInv
<1>2. Target' = Target BY DEF CallStep, Target
<1> QED BY <1>1, <1>2 DEF OthersKept, TextStep

\* A call begins, and ends at once when the project cannot be reached.
LEMMA BeginsStep ==
    ASSUME NativeAssumption, AccessInv, NEW s \in Slots, NEW point \in {"begin", "size"},
           NEW found \in Request, NEW absent \in Request,
           found.outcome = "none", found.replaced = FALSE, found.got = <<>>, found.sent = 0,
           point = "begin" => /\ found.id = ids + 1 /\ found.what \in Lengths /\ found.caller \in Callers
                              /\ absent = [found EXCEPT !.pc = "create"],
           point = "size" => found.caller = "reads" /\ absent = [Idle EXCEPT !.outcome = "missing"],
           Begins(s, point, found, absent)
    PROVE  AccessKept
<1>1. /\ project # None /\ ids < MaxIds /\ ids' = ids + 1 /\ put' = put \ {s}
      /\ CallStep /\ text' = text /\ temps' = temps /\ session' = session /\ At(s, "idle")
      /\ Become(s, IF ~Can THEN [Idle EXCEPT !.outcome = "failed"]
                   ELSE IF text[Here] = None THEN absent ELSE [found EXCEPT !.pc = point])
  BY DEF Begins, Free
<1>2. ids \in 0 .. MaxIds /\ project \in Places BY <1>1 DEF AccessInv, FilesTypeOK
<1>3. PICK c \in Request : /\ Become(s, c)
                           /\ \/ c = [Idle EXCEPT !.outcome = "failed"]
                              \/ Can /\ c = absent
                              \/ Can /\ c = [found EXCEPT !.pc = point]
  <2>1. [Idle EXCEPT !.outcome = "failed"] \in Request BY IdleFacts
  <2>2. [found EXCEPT !.pc = point] \in Request BY RequestFields DEF Points
  <2> QED BY <1>1, <2>1, <2>2
<1>4. /\ request' \in [Slots -> Request] /\ request'[s] = c
      /\ \A r \in Slots \ {s} : request'[r] = request[r]
  BY <1>3, BecomeFacts
<1>5. FilesTypeOK'
  <2>1. ids' \in 0 .. MaxIds /\ ids <= ids' BY <1>1, <1>2 DEF NativeAssumption
  <2>2. put' \subseteq Slots /\ FilesTypeOK BY <1>1 DEF AccessInv, FilesTypeOK
  <2>3. UNCHANGED <<place, text, temps, grant, registry, waiting, session, project, recent, chosen>>
    BY <1>1 DEF CallStep
  <2> QED BY <1>4, <2>1, <2>2, <2>3 DEF FilesTypeOK
<1>17. ids <= ids' BY <1>1, <1>2
<1>6. TempInv'
  <2>1. \A d \in Dirs : temps[d] \subseteq Ids BY DEF AccessInv, FilesTypeOK
  <2> QED BY <1>1, <1>2, <2>1 DEF AccessInv, TempInv, CallStep, Ids
<1>7. OthersKept(s) /\ TextStep BY <1>1, <1>4, AloneWhenStill
<1>8. OwnFile(s) BY <1>1 DEF OwnFile
<1>9. \A d \in Dirs : ids + 1 \notin temps[d]
  <2>1. \A d \in Dirs : temps[d] \subseteq Ids BY DEF AccessInv, FilesTypeOK
  <2> QED BY <1>2, <2>1 DEF AccessInv, TempInv, Ids
<1>10. Can => grant[project] \in Grant BY <1>2, CanFacts
<1>11. grant' = grant /\ project' = project BY <1>1 DEF CallStep
<1>12. s \notin put' BY <1>1
<1>13. CASE c = [Idle EXCEPT !.outcome = "failed"]
  <2>1. c.pc = "idle" /\ c.outcome = "failed" BY <1>13 DEF Idle
  <2>2. WriteInv(s)' /\ SameId(s) BY <1>4, <2>1 DEF WriteInv, SameId, Writes
  <2>3. ReadInv(s)' /\ Told(s)' /\ Open(s)' BY <1>4, <1>12, <2>1 DEF ReadInv, Told, Open
  <2> QED BY <1>1, <1>5, <1>6, <1>7, <1>8, <1>17, <2>2, <2>3, AloneStep
<1>14. CASE c.pc \in {"create", "begin"} /\ point = "begin"
  <2>1. /\ c.id = ids + 1 /\ c.what \in Lengths /\ c.caller \in Callers /\ c.sent = 0 /\ c.outcome = "none"
        /\ c.got = <<>> /\ c.replaced = FALSE /\ Can
    BY <1>3, <1>14 DEF Request, Idle
  <2>2. session[ids + 1] = None
    <3>1. ids + 1 \in Ids /\ ids + 1 > ids BY <1>1, <1>2 DEF Ids, NativeAssumption
    <3> QED BY <3>1 DEF AccessInv, TempInv
  <2>3. WriteInv(s)' BY <1>1, <1>2, <1>4, <1>9, <1>12, <1>14, <2>1, <2>2 DEF WriteInv
  <2>4. ReadInv(s)' /\ Told(s)' /\ Open(s)'
    BY <1>2, <1>4, <1>10, <1>11, <1>14, <2>1 DEF ReadInv, Told, Open
  <2>5. SameId(s) BY <1>2, <1>4, <2>1 DEF SameId
  <2> QED BY <1>1, <1>5, <1>6, <1>7, <1>8, <1>17, <2>3, <2>4, <2>5, AloneStep
<1>15. CASE point = "size" /\ Can
  <2>1. \/ c = [Idle EXCEPT !.outcome = "missing"]
        \/ c = [found EXCEPT !.pc = "size"]
        \/ c = [Idle EXCEPT !.outcome = "failed"]
    BY <1>3, <1>15
  <2>2. CASE c = [Idle EXCEPT !.outcome = "missing"]
    <3>1. c.pc = "idle" /\ c.outcome = "missing" BY <2>2 DEF Idle
    <3>2. WriteInv(s)' /\ SameId(s) BY <1>4, <3>1 DEF WriteInv, SameId, Writes
    <3>3. ReadInv(s)' /\ Told(s)' /\ Open(s)' BY <1>4, <3>1 DEF ReadInv, Told, Open
    <3> QED BY <1>1, <1>5, <1>6, <1>7, <1>8, <1>17, <3>2, <3>3, AloneStep
  <2>3. CASE c = [found EXCEPT !.pc = "size"]
    <3>1. c.pc = "size" /\ c.outcome = "none" /\ c.got = <<>> /\ c.replaced = FALSE /\ c.caller = "reads"
      BY <1>15, <2>3 DEF Request
    <3>2. WriteInv(s)' /\ SameId(s) BY <1>4, <3>1 DEF WriteInv, SameId, Writes
    <3>3. ReadInv(s)' /\ Told(s)' /\ Open(s)'
      BY <1>2, <1>4, <1>10, <1>11, <1>12, <1>15, <3>1 DEF ReadInv, Told, Open
    <3> QED BY <1>1, <1>5, <1>6, <1>7, <1>8, <1>17, <3>2, <3>3, AloneStep
  <2> QED BY <1>13, <2>1, <2>2, <2>3
<1>16. \/ c = [Idle EXCEPT !.outcome = "failed"]
       \/ c.pc \in {"create", "begin"} /\ point = "begin"
       \/ point = "size" /\ Can
  BY <1>3 DEF Request
<1> QED BY <1>13, <1>14, <1>15, <1>16

\* A step of a call that writes no file keeps the invariant, if it keeps its own part.
LEMMA StillStep ==
    ASSUME AccessInv, CallStep, NEW s \in Slots, NEW c \in Request, Become(s, c),
           text' = text, put' = put, ids' = ids, OwnFile(s),
           temps' \in [Dirs -> SUBSET Ids], session' \in [Ids -> Session \cup {None}], TempInv',
           c.pc \in Writes => request[s].pc \in Writes /\ c.id = request[s].id,
           WriteInv(s)', ReadInv(s)', Told(s)', Open(s)'
    PROVE  AccessKept
<1>1. /\ request' \in [Slots -> Request] /\ request'[s] = c
      /\ \A r \in Slots \ {s} : request'[r] = request[r]
  BY BecomeFacts
<1>2. ids \in Nat /\ ids <= ids' BY DEF AccessInv, FilesTypeOK
<1>3. FilesTypeOK' BY <1>1 DEF AccessInv, FilesTypeOK, CallStep
<1>4. OthersKept(s) /\ TextStep BY <1>1, AloneWhenStill
<1>5. SameId(s) BY <1>1 DEF SameId
<1> QED BY <1>2, <1>3, <1>4, <1>5, AloneStep

\* A call ends.
LEMMA EndsStep ==
    ASSUME AccessInv, CallStep, NEW s \in Slots, NEW o \in {"failed", "unread", "ok"}, Ends(s, o),
           o = "failed" => s \notin put, o = "ok" => s \in put,
           text' = text, put' = put, ids' = ids, OwnFile(s),
           temps' \in [Dirs -> SUBSET Ids], session' \in [Ids -> Session \cup {None}], TempInv'
    PROVE  AccessKept
<1> DEFINE c == [Idle EXCEPT !.outcome = o]
<1>1. c \in Request /\ Become(s, c) BY IdleFacts DEF Ends
<1>2. c.pc = "idle" /\ c.outcome = o BY DEF Idle
<1>3. request'[s] = c BY <1>1, BecomeFacts
<1> HIDE DEF c
<1>4. WriteInv(s)' /\ ReadInv(s)' /\ Told(s)' /\ Open(s)'
  BY <1>2, <1>3 DEF WriteInv, ReadInv, Told, Open, Writes
<1> QED BY <1>1, <1>2, <1>4, StillStep DEF Writes

\* The state of a call that is under way.
LEMMA UnderWay ==
    ASSUME NativeAssumption, AccessInv, NEW s \in Slots, request[s].pc # "idle"
    PROVE  /\ request[s] \in Request /\ project \in Places /\ grant[project] \in Grant
           /\ ids \in 0 .. MaxIds
           /\ request[s].outcome = "none" /\ Target \in Dirs
           /\ WriteInv(s) /\ ReadInv(s)
           /\ request[s].pc \in Writes => request[s].id \in Ids /\ request[s].id <= ids /\ s \notin put
<1>1. request[s] \in Request /\ ids \in 0 .. MaxIds BY DEF AccessInv, FilesTypeOK
<1>2. Open(s) /\ WriteInv(s) /\ ReadInv(s) BY DEF AccessInv, CallInv
<1>3. project \in Places /\ grant[project] \in Grant /\ request[s].outcome = "none" BY <1>2 DEF Open
<1>4. Target \in Dirs BY <1>3 DEF Target, Grant
<1>5. request[s].pc \in Writes => request[s].id \in Ids /\ request[s].id <= ids /\ s \notin put
  BY <1>1, <1>2 DEF WriteInv, Ids, NativeAssumption
<1> QED BY <1>1, <1>2, <1>3, <1>4, <1>5

\* The types that the steps of a call use.
LEMMA SessionFacts ==
    ASSUME AccessInv
    PROVE  /\ session \in [Ids -> Session \cup {None}] /\ temps \in [Dirs -> SUBSET Ids]
           /\ text \in [Dirs -> TextsWritten \cup {None}] /\ place \in [Places -> Dirs \cup {None}]
           /\ put \subseteq Slots /\ TempInv
BY DEF AccessInv, FilesTypeOK

\* The file operations of a session touch only its own temporary file.
LEMMA DroppedFacts ==
    ASSUME AccessInv, NEW i \in Ids
    PROVE  /\ Dropped(i) \in [Dirs -> SUBSET Ids]
           /\ \A d \in Dirs : Dropped(i)[d] \subseteq temps[d]
           /\ \A d \in Dirs : \A j \in Ids : j # i => (j \in Dropped(i)[d] <=> j \in temps[d])
<1>1. temps \in [Dirs -> SUBSET Ids] BY SessionFacts
<1>2. CASE Temporary(i)
  <2> DEFINE e == place[session[i].to]
  <2>1. e \in Dirs
    <3>1. session[i] \in Session BY <1>2, SessionFacts DEF Temporary
    <3> QED BY <1>2, <3>1, SessionFacts DEF Temporary, Session
  <2>2. Dropped(i) = [temps EXCEPT ![e] = temps[e] \ {i}] BY <1>2 DEF Dropped
  <2> HIDE DEF e
  <2> QED BY <1>1, <2>1, <2>2
<1>3. CASE ~Temporary(i)
  <2>1. Dropped(i) = temps BY <1>3 DEF Dropped
  <2> QED BY <1>1, <2>1
<1> QED BY <1>2, <1>3

\* A session that is over, with or without its file.
LEMMA OverFacts ==
    ASSUME NativeAssumption, AccessInv, NEW s \in Slots, request[s].pc \in Writes,
           session' = [session EXCEPT ![request[s].id] = None], temps' = Dropped(request[s].id),
           ids' = ids, chosen' = chosen
    PROVE  /\ session' \in [Ids -> Session \cup {None}] /\ temps' \in [Dirs -> SUBSET Ids]
           /\ TempInv' /\ OwnFile(s)
<1> DEFINE i == request[s].id
<1>1. i \in Ids /\ i <= ids /\ ids \in 0 .. MaxIds BY UnderWay DEF Writes
<1>2. session' = [session EXCEPT ![i] = None] /\ temps' = Dropped(i) OBVIOUS
<1>3. session' \in [Ids -> Session \cup {None}] BY <1>1, <1>2, SessionFacts
<1>4. /\ temps' \in [Dirs -> SUBSET Ids] /\ \A d \in Dirs : temps'[d] \subseteq temps[d]
      /\ \A d \in Dirs : \A j \in Ids : j # i => (j \in temps'[d] <=> j \in temps[d])
  BY <1>1, <1>2, DroppedFacts
<1>5. \A j \in 1 .. ids : j \in Ids BY <1>1 DEF Ids, NativeAssumption
<1> HIDE DEF i
<1>6. TempInv' BY <1>1, <1>2, <1>4, SessionFacts DEF TempInv
<1>7. OwnFile(s)
  <2>1. SUFFICES ASSUME NEW j \in 1 .. ids, j # i
                 PROVE session'[j] = session[j] /\ \A d \in Dirs : j \in temps'[d] <=> j \in temps[d]
    BY DEF OwnFile, i
  <2>2. j \in Ids BY <1>5, <2>1
  <2>3. session'[j] = session[j] BY <1>2, <2>1, <2>2, SessionFacts
  <2> QED BY <1>4, <2>1, <2>2, <2>3
<1> QED BY <1>3, <1>4, <1>6, <1>7

\* The stream of a writer is aborted.
LEMMA AbortStep ==
    ASSUME NativeAssumption, AccessInv, NEW s \in Slots, Abort(s)
    PROVE  AccessKept
<1>1. /\ request[s].pc = "abort" /\ session' = [session EXCEPT ![request[s].id] = None]
      /\ temps' = Dropped(request[s].id) /\ Ends(s, "failed")
      /\ CallStep /\ text' = text /\ ids' = ids /\ put' = put /\ chosen' = chosen
  BY DEF Abort, At, CallStep
<1>2. request[s].pc \in Writes BY <1>1 DEF Writes
<1>3. /\ session' \in [Ids -> Session \cup {None}] /\ temps' \in [Dirs -> SUBSET Ids]
      /\ TempInv' /\ OwnFile(s)
  BY <1>1, <1>2, OverFacts
<1>4. s \notin put BY <1>1, <1>2, UnderWay
<1> QED BY <1>1, <1>3, <1>4, EndsStep

\* A step that touches no session and no temporary file.
LEMMA SameSessions ==
    ASSUME AccessInv, UNCHANGED <<temps, session, ids, chosen>>, NEW s \in Slots
    PROVE  /\ session' \in [Ids -> Session \cup {None}] /\ temps' \in [Dirs -> SUBSET Ids]
           /\ TempInv' /\ OwnFile(s)
BY SessionFacts DEF TempInv, OwnFile

\* A command of a writer fails, and its caller aborts the stream or does not.
LEMMA FailsStep ==
    ASSUME NativeAssumption, AccessInv, NEW s \in Slots, request[s].pc \in Writes, Fails(s), CallStep,
           UNCHANGED <<text, put, ids>>,
           session' \in [Ids -> Session \cup {None}], temps' \in [Dirs -> SUBSET Ids], TempInv', OwnFile(s),
           \A d \in Dirs : temps'[d] \subseteq temps[d],
           session'[request[s].id] \in {None, session[request[s].id]}
    PROVE  AccessKept
<1>1. /\ request[s] \in Request /\ WriteInv(s) /\ s \notin put /\ request[s].outcome = "none"
      /\ project \in Places /\ grant[project] \in Grant
  BY UnderWay DEF Writes
<1>2. CASE Ends(s, "failed") BY <1>1, <1>2, EndsStep
<1>3. CASE Become(s, [request[s] EXCEPT !.pc = "abort"])
  <2> DEFINE c == [request[s] EXCEPT !.pc = "abort"]
  <2>1. c \in Request BY <1>1, RequestFields DEF Points
  <2>2. /\ c.pc = "abort" /\ c.id = request[s].id /\ c.caller = request[s].caller
        /\ c.what = request[s].what /\ c.outcome = "none" /\ c.got = request[s].got /\ c.replaced = request[s].replaced
    BY <1>1 DEF Request
  <2>3. request'[s] = c BY <1>3, <2>1, BecomeFacts
  <2>4. grant' = grant /\ project' = project /\ Target' = Target BY DEF CallStep, Target
  <2> HIDE DEF c
  <2>5. WriteInv(s)' BY <1>1, <2>2, <2>3, <2>4 DEF WriteInv
  <2>6. ReadInv(s)' /\ Told(s)' /\ Open(s)' BY <1>1, <2>2, <2>3, <2>4 DEF ReadInv, Told, Open
  <2>7. Become(s, c) BY <1>3 DEF c
  <2> QED BY <2>1, <2>2, <2>5, <2>6, <2>7, StillStep
<1> QED BY <1>2, <1>3 DEF Fails

\* The file of a writer is created.
LEMMA CreateFileStep ==
    ASSUME NativeAssumption, AccessInv, NEW s \in Slots, CreateFile(s)
    PROVE  AccessKept
<1>1. request[s].pc = "create" /\ request[s].pc \in Writes BY DEF CreateFile, At, Writes
<1>2. CallStep /\ UNCHANGED <<temps, session, ids, put, chosen, grant, project>>
  BY DEF CreateFile, CallStep
<1>3. /\ request[s] \in Request /\ WriteInv(s) /\ s \notin put /\ request[s].outcome = "none"
      /\ project \in Places /\ grant[project] \in Grant /\ ids \in 0 .. MaxIds
  BY <1>1, UnderWay
<1>4. /\ session' \in [Ids -> Session \cup {None}] /\ temps' \in [Dirs -> SUBSET Ids]
      /\ TempInv' /\ OwnFile(s)
  BY <1>2, SameSessions
<1>5. CASE Ends(s, "failed") /\ text' = text BY <1>2, <1>3, <1>4, <1>5, EndsStep
<1>6. CASE /\ Can /\ text' = [text EXCEPT ![Here] = IF @ = None THEN <<>> ELSE @]
           /\ Become(s, [request[s] EXCEPT !.pc = "begin"])
  <2> DEFINE c == [request[s] EXCEPT !.pc = "begin"]
  <2>1. c \in Request BY <1>3, RequestFields DEF Points
  <2>2. /\ c.pc = "begin" /\ c.id = request[s].id /\ c.caller = request[s].caller
        /\ c.what = request[s].what /\ c.outcome = "none" /\ c.sent = request[s].sent
        /\ c.got = request[s].got /\ c.replaced = request[s].replaced
    BY <1>3 DEF Request
  <2>3. /\ request' \in [Slots -> Request] /\ request'[s] = c
        /\ \A r \in Slots \ {s} : request'[r] = request[r]
    BY <1>6, <2>1, BecomeFacts
  <2>4. Target' = Target BY <1>2 DEF Target
  <2>5. Here = Target /\ Target \in chosen /\ Target \in Dirs BY <1>3, <1>6, CanFacts
  <2> HIDE DEF c
  <2>6. WriteInv(s)' BY <1>1, <1>2, <1>3, <2>2, <2>3, <2>4 DEF WriteInv
  <2>7. ReadInv(s)' /\ Told(s)' /\ Open(s)' BY <1>2, <1>3, <2>2, <2>3, <2>4 DEF ReadInv, Told, Open
  <2>8. text' = [text EXCEPT ![Target] = IF text[Target] = None THEN <<>> ELSE text[Target]]
    BY <1>6, <2>5
  <2>9. /\ text' \in [Dirs -> TextsWritten \cup {None}] /\ TextStep
        /\ text'[Target] = text[Target] \/ text'[Target] = <<>>
    BY <2>5, <2>8, SessionFacts DEF TextStep, TextsWritten
  <2>10. \A r \in Slots : request[r].pc = "read" => OneText(request[r], text'[Target])
    <3>1. SUFFICES ASSUME NEW r \in Slots, request[r].pc = "read"
                   PROVE  OneText(request[r], text'[Target]) OBVIOUS
    <3>2. /\ OneText(request[r], text[Target]) /\ Len(request[r].got) < request[r].size
          /\ request[r] \in Request
      BY <3>1 DEF AccessInv, CallInv, ReadInv, FilesTypeOK
    <3>3. request[r].size \in Nat /\ Len(request[r].got) \in Nat BY <3>2 DEF Request
    <3>4. CASE text'[Target] = text[Target] BY <3>2, <3>4
    <3>5. CASE text'[Target] = <<>>
      <4>1. Len(text'[Target]) = 0 BY <3>5
      <4>2. Len(text'[Target]) < request[r].size BY <3>2, <3>3, <4>1
      <4> QED BY <4>2 DEF OneText
    <3> QED BY <2>9, <3>4, <3>5
  <2>11. OthersKept(s) BY <1>2, <2>3, <2>10 DEF OthersKept
  <2>12. SameId(s) BY <1>1, <2>2, <2>3 DEF SameId
  <2>13. FilesTypeOK' BY <1>2, <1>4, <2>3, <2>9 DEF AccessInv, FilesTypeOK, CallStep
  <2>14. ids <= ids' BY <1>2, <1>3
  <2> QED BY <1>2, <1>4, <2>6, <2>7, <2>9, <2>11, <2>12, <2>13, <2>14, AloneStep
<1> QED BY <1>5, <1>6 DEF CreateFile

\* A writer gets its session, or is refused one.
LEMMA BeginWriteStep ==
    ASSUME NativeAssumption, AccessInv, NEW s \in Slots, BeginWrite(s)
    PROVE  AccessKept
<1> DEFINE i == request[s].id
<1> DEFINE c == [request[s] EXCEPT !.pc = "send"]
<1>1. request[s].pc = "begin" /\ request[s].pc \in Writes BY DEF BeginWrite, At, Writes
<1>2. /\ CallStep /\ UNCHANGED <<text, ids, put, chosen, grant, project>> /\ Become(s, c)
      /\ \/ /\ Can /\ session' = [session EXCEPT ![i] = [to |-> grant[project].at, holds |-> <<>>]]
            /\ temps' = [temps EXCEPT ![Here] = temps[Here] \cup {i}]
         \/ UNCHANGED <<session, temps>>
  BY DEF BeginWrite, CallStep
<1>3. /\ request[s] \in Request /\ WriteInv(s) /\ s \notin put /\ request[s].outcome = "none"
      /\ project \in Places /\ grant[project] \in Grant /\ ids \in 0 .. MaxIds /\ i \in Ids /\ i <= ids
  BY <1>1, UnderWay
<1>4. c \in Request BY <1>3, RequestFields DEF Points
<1>5. /\ c.pc = "send" /\ c.id = i /\ c.caller = request[s].caller /\ c.what = request[s].what
      /\ c.outcome = "none" /\ c.sent = request[s].sent
      /\ c.got = request[s].got /\ c.replaced = request[s].replaced
  BY <1>3 DEF Request
<1>6. request'[s] = c BY <1>2, <1>4, BecomeFacts
<1>7. Target' = Target BY <1>2 DEF Target
<1> HIDE DEF c, i
<1>8. /\ i \in 1 .. ids /\ c.caller \in Callers /\ c.what \in Lengths /\ c.sent = 0 /\ session[i] = None
      /\ c.got = <<>> /\ c.replaced = FALSE /\ \A d \in Dirs : i \notin temps[d]
  <2>1. /\ i \in 1 .. ids /\ request[s].caller \in Callers /\ request[s].what \in Lengths
        /\ request[s].got = <<>> /\ request[s].replaced = FALSE
        /\ request[s].sent = 0 /\ session[i] = None /\ \A d \in Dirs : i \notin temps[d]
    BY <1>1, <1>3 DEF WriteInv, i
  <2> QED BY <1>5, <2>1
<1>9. c.what \in Nat /\ 0 < c.what
  <2>1. \A n \in Lengths : n \in Nat /\ 0 < n BY DEF NativeAssumption
  <2> QED BY <1>8, <2>1
<1>10. ReadInv(s)' /\ Told(s)' /\ Open(s)' BY <1>2, <1>3, <1>5, <1>6 DEF ReadInv, Told, Open
<1>11. CASE /\ Can /\ session' = [session EXCEPT ![i] = [to |-> grant[project].at, holds |-> <<>>]]
            /\ temps' = [temps EXCEPT ![Here] = temps[Here] \cup {i}]
  <2>1. Here = Target /\ Target \in chosen /\ Target \in Dirs BY <1>3, <1>11, CanFacts
  <2> DEFINE new == [to |-> grant[project].at, holds |-> <<>>]
  <2>2. new \in Session
    <3>1. <<>> \in Seq(Nat) /\ grant[project].at \in Places BY <1>3 DEF Grant
    <3> QED BY <3>1 DEF Session
  <2>3. new.to = grant[project].at /\ new.holds = <<>> OBVIOUS
  <2>4. session' = [session EXCEPT ![i] = new] BY <1>11
  <2> HIDE DEF new
  <2>5. temps' = [temps EXCEPT ![Target] = temps[Target] \cup {i}] BY <1>11, <2>1
  <2>6. session' \in [Ids -> Session \cup {None}] /\ temps' \in [Dirs -> SUBSET Ids] /\ session'[i] = new
    BY <1>3, <2>1, <2>2, <2>4, <2>5, SessionFacts
  <2>7. TempInv'
    <3>1. \A d \in Dirs : temps'[d] # {} => d \in chosen BY <2>1, <2>5, SessionFacts DEF TempInv
    <3>2. \A d \in Dirs : \A j \in temps'[d] : j <= ids
      BY <1>3, <2>1, <2>5, SessionFacts DEF TempInv
    <3>3. \A j \in Ids : j > ids => session'[j] = None
      <4>1. SUFFICES ASSUME NEW j \in Ids, j > ids PROVE session'[j] = None OBVIOUS
      <4>2. j # i BY <1>3, <4>1 DEF Ids
      <4> QED BY <2>4, <4>1, <4>2, SessionFacts DEF TempInv
    <3> QED BY <1>2, <3>1, <3>2, <3>3 DEF TempInv
  <2>8. OwnFile(s)
    <3>1. SUFFICES ASSUME NEW j \in 1 .. ids, j # i
                   PROVE session'[j] = session[j] /\ \A d \in Dirs : j \in temps'[d] <=> j \in temps[d]
      BY <1>1 DEF OwnFile, i
    <3>2. j \in Ids BY <1>3 DEF Ids, NativeAssumption
    <3> QED BY <2>1, <2>4, <2>5, <3>1, <3>2, SessionFacts
  <2>9. WriteInv(s)'
    <3>1. \A d \in Dirs : i \in temps'[d] => d = Target BY <1>8, <2>1, <2>5, SessionFacts
    <3>2. <<>> = [k \in 1 .. 0 |-> c.what] OBVIOUS
    <3>3. session'[i].holds = [k \in 1 .. c.sent |-> c.what] BY <1>8, <2>3, <2>6, <3>2
    <3>4. session'[i].to = grant[project].at BY <2>3, <2>6
    <3> QED BY <1>2, <1>3, <1>5, <1>6, <1>7, <1>8, <1>9, <3>1, <3>3, <3>4 DEF WriteInv
  <2> QED BY <1>1, <1>2, <1>4, <1>5, <1>10, <2>6, <2>7, <2>8, <2>9, StillStep DEF i
<1>12. CASE UNCHANGED <<session, temps>>
  <2>1. /\ session' \in [Ids -> Session \cup {None}] /\ temps' \in [Dirs -> SUBSET Ids]
        /\ TempInv' /\ OwnFile(s)
    BY <1>2, <1>12, SameSessions
  <2>2. WriteInv(s)' BY <1>2, <1>3, <1>5, <1>6, <1>7, <1>8, <1>9, <1>12 DEF WriteInv
  <2> QED BY <1>1, <1>2, <1>4, <1>5, <1>10, <2>1, <2>2, StillStep DEF i
<1> QED BY <1>2, <1>11, <1>12

\* One more piece of the same text.
LEMMA AppendSame ==
    ASSUME NEW n \in Nat, NEW x \in Nat
    PROVE  Append([k \in 1 .. n |-> x], x) = [k \in 1 .. n + 1 |-> x]
<1> DEFINE s == [k \in 1 .. n |-> x]
<1>1. s \in Seq(Nat) /\ Len(s) = n OBVIOUS
<1>2. Append(s, x) = [k \in 1 .. Len(s) + 1 |-> IF k = Len(s) + 1 THEN x ELSE s[k]] BY <1>1
<1> QED BY <1>1, <1>2

\* A piece is received, or lost.
LEMMA SendStep ==
    ASSUME NativeAssumption, AccessInv, NEW s \in Slots, Send(s)
    PROVE  AccessKept
<1> DEFINE i == request[s].id
<1>1. request[s].pc = "send" /\ request[s].pc \in Writes BY DEF Send, At, Writes
<1>2. /\ CallStep /\ UNCHANGED <<text, temps, ids, put, chosen, grant, project>>
      /\ \/ /\ session[i] # None /\ session' = Received(i, request[s].what)
            /\ Become(s, [request[s] EXCEPT !.sent = request[s].sent + 1,
                            !.pc = IF request[s].sent + 1 = request[s].what THEN "commit" ELSE "send"])
         \/ Fails(s) /\ session' = session
  BY DEF Send, CallStep
<1>3. /\ request[s] \in Request /\ WriteInv(s) /\ s \notin put /\ request[s].outcome = "none"
      /\ project \in Places /\ grant[project] \in Grant /\ ids \in 0 .. MaxIds /\ i \in Ids /\ i <= ids
  BY <1>1, UnderWay
<1>4. /\ i \in 1 .. ids /\ request[s].caller \in Callers /\ request[s].what \in Lengths
      /\ \A d \in Dirs : i \in temps[d] => d = Target
      /\ session[i] # None => /\ session[i].to = grant[project].at
                              /\ session[i].holds = [k \in 1 .. request[s].sent |-> request[s].what]
      /\ request[s].sent < request[s].what /\ request[s].got = <<>> /\ request[s].replaced = FALSE
  BY <1>1, <1>3 DEF WriteInv, i
<1>5. request[s].what \in Nat /\ request[s].sent \in Nat /\ request[s].sent + 1 <= request[s].what
  <2>1. request[s].what \in Nat /\ request[s].sent \in Nat BY <1>3 DEF Request
  <2> QED BY <1>4, <2>1
<1>6. CASE Fails(s) /\ session' = session
  <2>1. /\ session' \in [Ids -> Session \cup {None}] /\ temps' \in [Dirs -> SUBSET Ids]
        /\ TempInv' /\ OwnFile(s)
    BY <1>2, <1>6, SameSessions
  <2>2. \A d \in Dirs : temps'[d] \subseteq temps[d] BY <1>2
  <2> QED BY <1>1, <1>2, <1>6, <2>1, <2>2, FailsStep
<1> DEFINE n == request[s].sent + 1
           next == IF n = request[s].what THEN "commit" ELSE "send"
           c == [request[s] EXCEPT !.sent = n, !.pc = next]
<1>7. CASE session[i] # None /\ session' = Received(i, request[s].what) /\ Become(s, c)
  <2>1. n \in Nat /\ next \in {"commit", "send"} BY <1>5
  <2>2. c \in Request BY <1>3, <2>1, RequestFields DEF Points
  <2>3. /\ c.pc = next /\ c.id = i /\ c.caller = request[s].caller /\ c.what = request[s].what
        /\ c.outcome = "none" /\ c.sent = n /\ c.got = request[s].got /\ c.replaced = request[s].replaced
    BY <1>3 DEF Request
  <2>4. request'[s] = c BY <1>7, <2>2, BecomeFacts
  <2>5. Become(s, c) BY <1>7
  <2>6. n < request[s].what \/ (n = request[s].what /\ next = "commit") BY <1>5
  <2>7. Target' = Target BY <1>2 DEF Target
  <2> DEFINE holds == Append(session[i].holds, request[s].what)
  <2>8. holds = [k \in 1 .. n |-> request[s].what] BY <1>4, <1>5, <1>7, AppendSame
  <2> HIDE DEF c
  <2>9. session[i] \in Session BY <1>3, <1>7, SessionFacts
  <2>10. session' = [session EXCEPT ![i] = [session[i] EXCEPT !.holds = holds]]
    BY <1>3, <1>7, SessionFacts DEF Received
  <2>11. holds \in Seq(Nat) BY <1>5, <2>9 DEF Session
  <2> HIDE DEF holds
  <2>12. /\ [session[i] EXCEPT !.holds = holds] \in Session
         /\ [session[i] EXCEPT !.holds = holds].holds = holds
         /\ [session[i] EXCEPT !.holds = holds].to = session[i].to
    BY <2>9, <2>11 DEF Session
  <2>13. /\ session' \in [Ids -> Session \cup {None}] /\ session'[i].holds = holds
         /\ session'[i].to = session[i].to
    BY <1>3, <2>10, <2>12, SessionFacts
  <2>14. temps' \in [Dirs -> SUBSET Ids] BY <1>2, SessionFacts
  <2>15. TempInv'
    <3>1. \A j \in Ids : j > ids => session'[j] = None
      <4>1. SUFFICES ASSUME NEW j \in Ids, j > ids PROVE session'[j] = None OBVIOUS
      <4>2. j # i BY <1>3, <4>1 DEF Ids
      <4> QED BY <2>10, <4>1, <4>2, SessionFacts DEF TempInv
    <3> QED BY <1>2, <3>1, SessionFacts DEF TempInv
  <2>16. OwnFile(s)
    <3>1. SUFFICES ASSUME NEW j \in 1 .. ids, j # i
                   PROVE session'[j] = session[j] /\ \A d \in Dirs : j \in temps'[d] <=> j \in temps[d]
      BY <1>1 DEF OwnFile, i
    <3>2. j \in Ids BY <1>3 DEF Ids, NativeAssumption
    <3> QED BY <1>2, <2>10, <3>1, <3>2, SessionFacts
  <2>17. ReadInv(s)' /\ Told(s)' /\ Open(s)'
    BY <1>2, <1>3, <2>1, <2>3, <2>4 DEF ReadInv, Told, Open
  <2>18. WriteInv(s)'
    <3> HIDE DEF n, next, i
    <3>1. \A d \in Dirs : i \in temps'[d] => d = Target BY <1>2, <1>4
    <3>2. session'[i].to = grant[project].at BY <1>4, <1>7, <2>13
    <3>3. next = "send" => n < request[s].what BY <2>6 DEF next, n
    <3>4. next = "commit" => holds = WholeText(request[s].what)
      <4>1. next = "commit" => n = request[s].what BY DEF next
      <4> QED BY <2>8, <4>1 DEF WholeText
    <3>5. session'[i].holds = holds /\ holds = [k \in 1 .. n |-> request[s].what] BY <2>8, <2>13
    <3> QED BY <1>2, <1>3, <1>4, <2>1, <2>3, <2>4, <2>7, <3>1, <3>2, <3>3, <3>4, <3>5 DEF WriteInv
  <2> QED BY <1>1, <1>2, <2>2, <2>3, <2>5, <2>13, <2>14, <2>15, <2>16, <2>17, <2>18, StillStep
<1> QED BY <1>2, <1>6, <1>7

\* The text that takes the place of a file, and the readers of it.
LEMMA ReplacingFacts ==
    ASSUME NativeAssumption, AccessInv, project \in Places, Here = Target, Target \in Dirs,
           NEW holds \in Seq(Nat), NEW r \in Slots
    PROVE  /\ Replacing(Target, holds)[r] \in Request
           /\ \/ Replacing(Target, holds)[r] = request[r]
              \/ /\ request[r].pc = "read"
                 /\ Replacing(Target, holds)[r] = [request[r] EXCEPT !.replaced = TRUE]
           /\ request[r].pc = "read" => OneText(Replacing(Target, holds)[r], holds)
<1>1. request[r] \in Request BY DEF AccessInv, FilesTypeOK
<1>2. Replacing(Target, holds)[r] = IF request[r].pc = "read" /\ Len(holds) >= request[r].size
                                    THEN [request[r] EXCEPT !.replaced = TRUE] ELSE request[r]
  BY DEF Replacing
<1>3. CASE request[r].pc = "read" /\ Len(holds) >= request[r].size
  <2>1. [request[r] EXCEPT !.replaced = TRUE] \in Request BY <1>1, RequestFields
  <2>2. [request[r] EXCEPT !.replaced = TRUE].replaced = TRUE BY <1>1 DEF Request
  <2> QED BY <1>2, <1>3, <2>1, <2>2 DEF OneText
<1>4. CASE ~(request[r].pc = "read" /\ Len(holds) >= request[r].size)
  <2>1. request[r].size \in Nat /\ Len(holds) \in Nat BY <1>1 DEF Request
  <2> QED BY <1>1, <1>2, <1>4, <2>1 DEF OneText
<1> QED BY <1>3, <1>4

\* A session is committed: the temporary file takes the place of the file, or not.
LEMMA CommitStep ==
    ASSUME NativeAssumption, AccessInv, NEW s \in Slots, Commit(s)
    PROVE  AccessKept
<1> DEFINE i == request[s].id
           d == place[session[i].to]
           holds == session[i].holds
           c == IF request[s].caller = "checks" THEN [request[s] EXCEPT !.pc = "size"]
                ELSE [Idle EXCEPT !.outcome = "ok"]
<1>1. request[s].pc = "commit" /\ request[s].pc \in Writes BY DEF Commit, At, Writes
<1>2. /\ CallStep /\ UNCHANGED <<ids, chosen, grant, project>>
      /\ session' = [session EXCEPT ![i] = None] /\ temps' = Dropped(i)
      /\ \/ /\ Temporary(i) /\ text' = [text EXCEPT ![d] = holds]
            /\ request' = [Replacing(d, holds) EXCEPT ![s] = c] /\ put' = put \cup {s}
         \/ Fails(s) /\ UNCHANGED <<text, put>>
  BY DEF Commit, CallStep
<1>3. /\ request[s] \in Request /\ WriteInv(s) /\ ReadInv(s) /\ s \notin put /\ request[s].outcome = "none"
      /\ project \in Places /\ grant[project] \in Grant /\ ids \in 0 .. MaxIds /\ i \in Ids /\ i <= ids
  BY <1>1, UnderWay
<1>4. /\ i \in 1 .. ids /\ request[s].caller \in Callers /\ request[s].what \in Lengths
      /\ \A e \in Dirs : i \in temps[e] => e = Target
      /\ session[i] # None => session[i].to = grant[project].at /\ holds = WholeText(request[s].what)
  BY <1>1, <1>3 DEF WriteInv, i
<1>5. /\ session' \in [Ids -> Session \cup {None}] /\ temps' \in [Dirs -> SUBSET Ids]
      /\ TempInv' /\ OwnFile(s)
  BY <1>1, <1>2, OverFacts
<1>6. CASE Fails(s) /\ UNCHANGED <<text, put>>
  <2>1. \A e \in Dirs : temps'[e] \subseteq temps[e] BY <1>2, <1>3, DroppedFacts
  <2>2. session'[i] \in {None, session[i]} BY <1>2, <1>3, SessionFacts
  <2> QED BY <1>1, <1>2, <1>5, <1>6, <2>1, <2>2, FailsStep
<1>7. CASE /\ Temporary(i) /\ text' = [text EXCEPT ![d] = holds]
           /\ request' = [Replacing(d, holds) EXCEPT ![s] = c] /\ put' = put \cup {s}
  <2>1. session[i] # None /\ session[i] \in Session /\ d \in Dirs /\ i \in temps[d]
    <3>1. session[i] # None /\ session[i] \in Session BY <1>3, <1>7, SessionFacts DEF Temporary
    <3> QED BY <1>7, <3>1, SessionFacts DEF Temporary, Session
  <2>2. d = Target /\ Here = Target /\ Target \in chosen
    <3>1. d = Target BY <1>4, <2>1
    <3>2. Here = d BY <1>4, <2>1 DEF Here, Folder
    <3>3. d \in chosen BY <2>1, SessionFacts DEF TempInv
    <3> QED BY <3>1, <3>2, <3>3
  <2>3. holds = WholeText(request[s].what) /\ holds \in Wholes BY <1>4, <2>1 DEF Wholes
  <2>4. holds \in TextsWritten /\ holds \in Seq(Nat) BY <2>3, TextFacts DEF TextsWritten
  <2>5. text' = [text EXCEPT ![Target] = holds] /\ request' = [Replacing(Target, holds) EXCEPT ![s] = c]
    BY <1>7, <2>2
  <2>6. /\ c \in Request /\ c.pc \in {"size", "idle"} /\ c.outcome \in {"none", "ok"}
        /\ c.pc = "size" => /\ c.outcome = "none" /\ c.caller = "checks" /\ c.got = request[s].got
                            /\ c.replaced = request[s].replaced
    <3>1. CASE request[s].caller = "checks"
      <4>1. [request[s] EXCEPT !.pc = "size"] \in Request BY <1>3, RequestFields DEF Points
      <4>2. c = [request[s] EXCEPT !.pc = "size"] BY <3>1
      <4> QED BY <1>3, <3>1, <4>1, <4>2 DEF Request
    <3>2. CASE request[s].caller # "checks"
      <4>1. c = [Idle EXCEPT !.outcome = "ok"] BY <3>2
      <4> QED BY <4>1, IdleFacts DEF Idle
    <3> QED BY <3>1, <3>2
  <2> HIDE DEF c, holds
  <2>7. \A r \in Slots : /\ Replacing(Target, holds)[r] \in Request
                         /\ \/ Replacing(Target, holds)[r] = request[r]
                            \/ /\ request[r].pc = "read"
                               /\ Replacing(Target, holds)[r] = [request[r] EXCEPT !.replaced = TRUE]
                         /\ request[r].pc = "read" => OneText(Replacing(Target, holds)[r], holds)
    BY <1>3, <2>1, <2>2, <2>4, ReplacingFacts
  <2>8. /\ DOMAIN Replacing(Target, holds) = Slots
        /\ Replacing(Target, holds) = [r \in Slots |-> Replacing(Target, holds)[r]]
    BY DEF Replacing
  <2>9. /\ request' \in [Slots -> Request] /\ request'[s] = c
        /\ \A r \in Slots \ {s} : request'[r] = Replacing(Target, holds)[r]
    BY <2>5, <2>6, <2>7, <2>8
  <2>10. text' \in [Dirs -> TextsWritten \cup {None}] /\ TextStep /\ text'[Target] = holds
    BY <2>1, <2>2, <2>4, <2>5, SessionFacts DEF TextStep
  <2>11. put' \subseteq Slots /\ s \in put' /\ \A r \in Slots \ {s} : r \in put' <=> r \in put
    BY <1>7, SessionFacts
  <2>12. OthersKept(s) BY <2>7, <2>9, <2>10, <2>11 DEF OthersKept
  <2>13. SameId(s) BY <2>6, <2>9 DEF SameId, Writes
  <2>14. FilesTypeOK' BY <1>2, <1>5, <2>9, <2>10, <2>11 DEF AccessInv, FilesTypeOK, CallStep
  <2>15. WriteInv(s)' BY <2>6, <2>9 DEF WriteInv, Writes
  <2>16. ReadInv(s)' /\ Told(s)' /\ Open(s)'
    <3>1. request[s].got = <<>> /\ request[s].replaced = FALSE BY <1>1, <1>3 DEF WriteInv
    <3> QED BY <1>2, <1>3, <2>6, <2>9, <2>11, <3>1 DEF ReadInv, Told, Open
  <2>17. ids <= ids' BY <1>2, <1>3
  <2> QED BY <1>2, <1>5, <2>10, <2>12, <2>13, <2>14, <2>15, <2>16, <2>17, AloneStep
<1> QED BY <1>2, <1>6, <1>7

\* A call that reads leaves everything but its own record as it is.
LEMMA ReaderEnds ==
    ASSUME NativeAssumption, AccessInv, NEW s \in Slots, request[s].pc \in {"size", "read"}, CallStep,
           UNCHANGED <<text, temps, session, ids, put>>, Unread(s)
    PROVE  AccessKept
<1>1. /\ session' \in [Ids -> Session \cup {None}] /\ temps' \in [Dirs -> SUBSET Ids]
      /\ TempInv' /\ OwnFile(s)
  BY SameSessions DEF CallStep
<1>2. s \in put <=> request[s].caller = "checks" BY UnderWay DEF ReadInv
<1>3. CASE request[s].caller = "checks" /\ Ends(s, "unread") BY <1>1, <1>3, EndsStep
<1>4. CASE request[s].caller # "checks" /\ Ends(s, "failed") BY <1>1, <1>2, <1>4, EndsStep
<1> QED BY <1>3, <1>4 DEF Unread

\* A call has read all of the file.
LEMMA ReaderHasRead ==
    ASSUME NativeAssumption, AccessInv, NEW s \in Slots, request[s].pc \in {"size", "read"}, CallStep,
           UNCHANGED <<text, temps, session, ids, put>>,
           NEW got \in Seq(Nat), request[s].replaced \/ got \in TextsWritten, HasRead(s, got)
    PROVE  AccessKept
<1>1. /\ session' \in [Ids -> Session \cup {None}] /\ temps' \in [Dirs -> SUBSET Ids]
      /\ TempInv' /\ OwnFile(s)
  BY SameSessions DEF CallStep
<1>2. /\ s \in put <=> request[s].caller = "checks"
      /\ request[s] \in Request
  BY UnderWay DEF ReadInv
<1>3. CASE request[s].caller = "checks" /\ Ends(s, "ok") BY <1>1, <1>2, <1>3, EndsStep
<1>4. CASE request[s].caller = "checks" /\ Ends(s, "unread") BY <1>1, <1>4, EndsStep
<1>5. CASE Become(s, [Idle EXCEPT !.got = got, !.replaced = request[s].replaced, !.outcome = "read"])
  <2> DEFINE r == request[s].replaced
             c == [Idle EXCEPT !.got = got, !.replaced = r, !.outcome = "read"]
  <2>1. r \in BOOLEAN BY <1>2 DEF Request
  <2>2. c \in Request BY <2>1, FoundFacts
  <2>3. c.pc = "idle" /\ c.outcome = "read" /\ c.got = got /\ c.replaced = r BY DEF Idle
  <2>4. Become(s, c) BY <1>5
  <2> HIDE DEF c
  <2>5. request'[s] = c BY <2>2, <2>4, BecomeFacts
  <2>6. WriteInv(s)' /\ ReadInv(s)' /\ Open(s)' BY <2>3, <2>5 DEF WriteInv, ReadInv, Open, Writes
  <2>7. c.replaced \/ c.got \in TextsWritten BY <2>3
  <2>8. Told(s)' BY <2>3, <2>5, <2>7 DEF Told
  <2> QED BY <1>1, <2>2, <2>3, <2>4, <2>6, <2>8, StillStep DEF Writes
<1>6. \/ request[s].caller = "checks" /\ (Ends(s, "ok") \/ Ends(s, "unread"))
      \/ Become(s, [Idle EXCEPT !.got = got, !.replaced = request[s].replaced, !.outcome = "read"])
  <2>1. CASE got = WholeText(request[s].what) BY <2>1 DEF HasRead
  <2>2. CASE got # WholeText(request[s].what) BY <2>2 DEF HasRead
  <2> QED BY <2>1, <2>2
<1> QED BY <1>3, <1>4, <1>5, <1>6

\* A call that reads on.
LEMMA ReaderGoesOn ==
    ASSUME NativeAssumption, AccessInv, NEW s \in Slots, request[s].pc \in {"size", "read"}, CallStep,
           UNCHANGED <<text, temps, session, ids, put>>,
           NEW c \in Request, Become(s, c), c.pc = "read", c.caller = request[s].caller,
           c.outcome = "none", Len(c.got) < c.size, OneText(c, text[Target])
    PROVE  AccessKept
<1>1. /\ session' \in [Ids -> Session \cup {None}] /\ temps' \in [Dirs -> SUBSET Ids]
      /\ TempInv' /\ OwnFile(s)
  BY SameSessions DEF CallStep
<1>2. ReadInv(s) /\ Open(s) BY UnderWay DEF AccessInv, CallInv
<1>3. request'[s] = c BY BecomeFacts
<1>4. grant' = grant /\ project' = project /\ Target' = Target BY DEF CallStep, Target
<1>5. WriteInv(s)' BY <1>3 DEF WriteInv, Writes
<1>6. OneText(request'[s], text'[Target']) BY <1>3, <1>4
<1>7. ReadInv(s)' BY <1>2, <1>3, <1>4, <1>6 DEF ReadInv, OneText
<1>8. Told(s)' /\ Open(s)' BY <1>2, <1>3, <1>4 DEF Told, Open
<1> QED BY <1>1, <1>5, <1>7, <1>8, StillStep DEF Writes

\* The file of the project.
LEMMA HereFacts ==
    ASSUME NativeAssumption, AccessInv, project \in Places, Can, text[Here] # None
    PROVE  /\ Here = Target /\ text[Target] = text[Here] /\ text[Here] \in TextsWritten
           /\ text[Here] \in Seq(Nat)
<1>1. Here = Target /\ Target \in Dirs BY CanFacts
<1>2. text[Here] \in TextsWritten BY <1>1, SessionFacts
<1> QED BY <1>1, <1>2, TextFacts

\* The size of the file, and its pieces.
LEMMA GetSizeStep ==
    ASSUME NativeAssumption, AccessInv, NEW s \in Slots, GetSize(s)
    PROVE  AccessKept
<1>1. /\ request[s].pc = "size" /\ CallStep /\ UNCHANGED <<text, temps, session, ids, put>>
      /\ \/ Unread(s)
         \/ /\ Can /\ text[Here] # None
            /\ \/ text[Here] = <<>> /\ HasRead(s, <<>>)
               \/ /\ text[Here] # <<>>
                  /\ Become(s, [request[s] EXCEPT !.pc = "read", !.size = Len(text[Here])])
  BY DEF GetSize, At
<1>2. /\ request[s] \in Request /\ ReadInv(s) /\ request[s].outcome = "none" /\ project \in Places
  BY <1>1, UnderWay
<1>3. CASE Unread(s) BY <1>1, <1>3, ReaderEnds
<1>4. CASE HasRead(s, <<>>)
  <2>1. <<>> \in Seq(Nat) /\ <<>> \in TextsWritten BY DEF TextsWritten
  <2> QED BY <1>1, <1>4, <2>1, ReaderHasRead
<1>5. CASE /\ Can /\ text[Here] # None /\ text[Here] # <<>>
           /\ Become(s, [request[s] EXCEPT !.pc = "read", !.size = Len(text[Here])])
  <2>1. /\ Here = Target /\ text[Target] = text[Here] /\ text[Here] \in Seq(Nat)
    BY <1>2, <1>5, HereFacts
  <2> DEFINE n == Len(text[Here])
             c == [request[s] EXCEPT !.pc = "read", !.size = n]
  <2>2. n \in Nat /\ n > 0 BY <1>5, <2>1
  <2>3. c \in Request BY <1>2, <2>2, RequestFields DEF Points
  <2>4. /\ c.pc = "read" /\ c.size = n /\ c.caller = request[s].caller /\ c.outcome = "none"
        /\ c.got = request[s].got
    BY <1>2 DEF Request
  <2>5. request[s].got = <<>> BY <1>1, <1>2 DEF ReadInv
  <2>6. Len(c.got) = 0 BY <2>4, <2>5
  <2>7. Become(s, c) BY <1>5
  <2>8. text[Target] # None => Len(text[Target]) = c.size BY <2>1, <2>4
  <2> HIDE DEF c, n
  <2>9. OneText(c, text[Target]) BY <2>6, <2>8 DEF OneText
  <2>10. Len(c.got) < c.size BY <2>2, <2>4, <2>6
  <2> QED BY <1>1, <2>3, <2>4, <2>7, <2>9, <2>10, ReaderGoesOn
<1> QED BY <1>1, <1>3, <1>4, <1>5

LEMMA ReadPieceStep ==
    ASSUME NativeAssumption, AccessInv, NEW s \in Slots, ReadPiece(s)
    PROVE  AccessKept
<1> DEFINE t == text[Here]
           i == Len(request[s].got) + 1
           got == Append(request[s].got, t[i])
           c == [request[s] EXCEPT !.got = got]
<1>1. /\ request[s].pc = "read" /\ CallStep /\ UNCHANGED <<text, temps, session, ids, put>>
      /\ \/ Unread(s)
         \/ /\ Can /\ t # None /\ i <= Len(t)
            /\ \/ i = request[s].size /\ HasRead(s, got)
               \/ i # request[s].size /\ Become(s, c)
  BY DEF ReadPiece, At, InFull
<1>2. /\ request[s] \in Request /\ ReadInv(s) /\ request[s].outcome = "none" /\ project \in Places
  BY <1>1, UnderWay
<1>3. CASE Unread(s) BY <1>1, <1>3, ReaderEnds
<1>4. CASE Can /\ t # None /\ i <= Len(t)
  <2>1. /\ Here = Target /\ text[Target] = t /\ t \in TextsWritten /\ t \in Seq(Nat)
    BY <1>2, <1>4, HereFacts
  <2>2. request[s].got \in Seq(Nat) /\ request[s].size \in Nat BY <1>2 DEF Request
  <2>3. Len(request[s].got) < request[s].size /\ OneText(request[s], text[Target])
    BY <1>1, <1>2 DEF ReadInv
  <2> DEFINE old == request[s].got
  <2>4. i \in 1 .. Len(t) /\ i <= request[s].size /\ i = Len(old) + 1
    BY <1>4, <2>1, <2>2, <2>3
  <2>5. t[i] \in Nat BY <2>1, <2>4
  <2>6. /\ got \in Seq(Nat) /\ Len(got) = i /\ \A k \in 1 .. Len(old) : got[k] = old[k]
        /\ got[i] = t[i]
    BY <2>2, <2>5
  <2>7. \/ request[s].replaced \/ Len(t) < request[s].size
        \/ Len(t) = request[s].size /\ \A k \in 1 .. i : got[k] = t[k]
    <3>1. \/ request[s].replaced \/ Len(t) < request[s].size
          \/ Len(t) = request[s].size /\ \A k \in 1 .. Len(old) : old[k] = t[k]
      BY <1>4, <2>1, <2>3 DEF OneText
    <3>2. CASE Len(t) = request[s].size /\ \A k \in 1 .. Len(old) : old[k] = t[k]
      <4>1. \A k \in 1 .. i : k = i \/ k \in 1 .. Len(old) BY <2>2
      <4> HIDE DEF got, t, i
      <4> QED BY <2>6, <3>2, <4>1
    <3> QED BY <3>1, <3>2
  <2>8. CASE i = request[s].size /\ HasRead(s, got)
    <3>1. ~(Len(t) < request[s].size) BY <1>4, <2>1, <2>2, <2>8
    <3>2. ASSUME Len(t) = request[s].size, \A k \in 1 .. i : got[k] = t[k]
          PROVE  got \in TextsWritten
      <4> HIDE DEF got, t, i
      <4>1. Len(got) = i /\ Len(t) = i /\ \A k \in 1 .. Len(got) : got[k] = t[k] BY <2>6, <2>8, <3>2
      <4>2. got = t BY <2>1, <2>6, <4>1, SeqEqual
      <4> QED BY <2>1, <4>2
    <3> HIDE DEF got, t, i
    <3>3. request[s].replaced \/ got \in TextsWritten BY <2>7, <3>1, <3>2
    <3>4. HasRead(s, got) BY <2>8
    <3> QED BY <1>1, <2>1, <2>6, <3>3, <3>4, ReaderHasRead
  <2>9. CASE i # request[s].size /\ Become(s, c)
    <3>1. c \in Request BY <1>2, <2>6, RequestFields
    <3>2. /\ c.pc = "read" /\ c.size = request[s].size /\ c.caller = request[s].caller /\ c.outcome = "none"
          /\ c.got = got /\ c.replaced = request[s].replaced
      BY <1>1, <1>2 DEF Request
    <3> HIDE DEF c, got, i, t
    <3>3. Become(s, c) BY <2>9 DEF c
    <3>4. OneText(c, text[Target]) BY <2>1, <2>6, <2>7, <3>2 DEF OneText
    <3>5. Len(c.got) < c.size BY <2>2, <2>4, <2>6, <2>9, <3>2 DEF i
    <3> QED BY <1>1, <3>1, <3>2, <3>3, <3>4, <3>5, ReaderGoesOn
  <2> QED BY <1>1, <1>3, <2>8, <2>9
<1> QED BY <1>1, <1>3, <1>4

\* The two ways to begin.
LEMMA WriteStep ==
    ASSUME NativeAssumption, AccessInv, NEW s \in Slots, NEW n \in Lengths, NEW caller \in Callers,
           Write(s, n, caller)
    PROVE  AccessKept
<1> DEFINE c == [Idle EXCEPT !.caller = caller, !.what = n, !.id = ids + 1]
           absent == [c EXCEPT !.pc = "create"]
<1>1. Begins(s, "begin", c, absent) BY DEF Write
<1>2. n \in Nat /\ ids + 1 \in Nat /\ caller \in {"writes", "checks", "reads"}
  BY DEF NativeAssumption, AccessInv, FilesTypeOK, Callers
<1>3. absent \in Request BY <1>2, NewRequests DEF Points
<1>6. c \in Request
  <2>1. <<>> \in Seq(Nat) OBVIOUS
  <2> QED BY <1>2, <2>1 DEF Idle, Request, Points
<1>7. /\ c.outcome = "none" /\ c.replaced = FALSE /\ c.got = <<>> /\ c.sent = 0 /\ c.id = ids + 1
      /\ c.what = n /\ c.caller = caller
  BY DEF Idle
<1>8. absent = [c EXCEPT !.pc = "create"] OBVIOUS
<1> HIDE DEF c, absent
<1> QED BY <1>1, <1>3, <1>6, <1>7, <1>8, BeginsStep

LEMMA ReadTextStep ==
    ASSUME NativeAssumption, AccessInv, NEW s \in Slots, ReadText(s)
    PROVE  AccessKept
<1> DEFINE c == [Idle EXCEPT !.caller = "reads"]
           absent == [Idle EXCEPT !.outcome = "missing"]
<1>1. Begins(s, "size", c, absent) BY DEF ReadText
<1>2. absent \in Request BY IdleFacts
<1>3. c \in Request
  <2>1. <<>> \in Seq(Nat) OBVIOUS
  <2> QED BY <2>1 DEF Idle, Request, Points
<1>4. c.outcome = "none" /\ c.replaced = FALSE /\ c.got = <<>> /\ c.sent = 0 /\ c.caller = "reads"
  BY DEF Idle
<1>5. absent = [Idle EXCEPT !.outcome = "missing"] OBVIOUS
<1> HIDE DEF c, absent
<1> QED BY <1>1, <1>2, <1>3, <1>4, <1>5, BeginsStep

\* Every command of a call, every step, and the steps of nobody.
LEMMA CallOfStep ==
    ASSUME NativeAssumption, AccessInv, NEW s \in Slots, CallOf(s)
    PROVE  AccessKept
<1>1. CASE \E n \in Lengths, caller \in Callers : Write(s, n, caller) BY <1>1, WriteStep
<1>2. CASE ReadText(s) BY <1>2, ReadTextStep
<1>3. CASE CreateFile(s) BY <1>3, CreateFileStep
<1>4. CASE BeginWrite(s) BY <1>4, BeginWriteStep
<1>5. CASE Send(s) BY <1>5, SendStep
<1>6. CASE Commit(s) BY <1>6, CommitStep
<1>7. CASE Abort(s) BY <1>7, AbortStep
<1>8. CASE GetSize(s) BY <1>8, GetSizeStep
<1>9. CASE ReadPiece(s) BY <1>9, ReadPieceStep
<1> QED BY <1>1, <1>2, <1>3, <1>4, <1>5, <1>6, <1>7, <1>8, <1>9 DEF CallOf

LEMMA FilesStep ==
    ASSUME NativeAssumption, AccessInv, FilesNext
    PROVE  AccessKept
<1>1. ASSUME NEW p \in Places, Pick(p) PROVE AccessKept BY <1>1, PickStep
<1>2. ASSUME NEW p \in Places, OpenDocument(p) PROVE AccessKept BY <1>2, DocumentStep
<1>3. ASSUME NEW p \in Places, Reauthorize(p) PROVE AccessKept BY <1>3, ReauthorizeStep
<1>4. ASSUME NEW p \in Places, MovesAway(p) PROVE AccessKept
  <2>1. Takes(p, None) /\ None \in Dirs \cup {None} BY <1>4 DEF MovesAway
  <2> QED BY <2>1, TakesStep
<1>5. ASSUME NEW p \in Places, NEW d \in Dirs, MovesIn(p, d)
      PROVE  AccessKept BY <1>5, TakesStep DEF MovesIn
<1>6. ASSUME NEW d \in Dirs, OpenRecent(d) PROVE AccessKept BY <1>6, OpenRecentStep
<1>7. CASE NextDocument BY <1>7, NextDocumentStep
<1>8. CASE Restart BY <1>8, RestartStep
<1>9. ASSUME NEW s \in Slots, CallOf(s) PROVE AccessKept BY <1>9, CallOfStep
<1> QED BY <1>1, <1>2, <1>3, <1>4, <1>5, <1>6, <1>7, <1>8, <1>9 DEF FilesNext

LEMMA FilesStutter ==
    ASSUME AccessInv, UNCHANGED filesVars
    PROVE  AccessKept
<1>1. UNCHANGED <<text, temps, grant, session, request, project, ids, chosen, put>>
      /\ UNCHANGED <<place, registry, waiting, recent>>
  BY DEF filesVars
<1>2. FilesTypeOK' /\ GrantInv' BY <1>1 DEF AccessInv, FilesTypeOK, GrantInv, Granted
<1> QED BY <1>1, <1>2, OutsideStep

\* What a call tells its caller follows from the invariant after the step.
LEMMA AnswersHonest ==
    ASSUME AccessKept
    PROVE  /\ \A d \in Dirs : text'[d] # text[d] => d \in chosen /\ text'[d] \in Wholes \cup {<<>>}
           /\ \A s \in Slots : Honest(s, request'[s])
<1>1. \A d \in Dirs : text'[d] # text[d] => d \in chosen /\ text'[d] \in Wholes \cup {<<>>}
  BY DEF AccessKept, TextStep, TextsWritten
<1>2. \A s \in Slots : Told(s)' BY DEF AccessKept, AccessInv, CallInv
<1>3. \A s \in Slots : Honest(s, request'[s]) BY <1>2 DEF Told, Honest, TextsWritten
<1> QED BY <1>1, <1>3

\* The state of the shell's file access is well-typed: grants, sessions, temporary
\* files and the calls of the page (Grants, Writes, desktopFs.ts).
THEOREM AccessTypeCorrect == ASSUME NativeAssumption PROVE FilesSpec => []FilesTypeOK
<1>1. FilesInit => AccessInv BY FilesStartInv
<1>2. AccessInv /\ [FilesNext]_filesVars => AccessInv' BY FilesStep, FilesStutter DEF AccessKept
<1>3. AccessInv => FilesTypeOK BY DEF AccessInv
<1> QED BY <1>1, <1>2, <1>3, PTL DEF FilesSpec

\* What the page asks of a file is what happens to it (NativeWritable, getFile,
\* grant_path, Writes::commit): for any folders, places, texts and calls, any
\* number of calls at once and of failures, moves and restarts.
THEOREM AccessTrue == ASSUME NativeAssumption PROVE FilesSpec => TrueAccess
<1> DEFINE Answers ==
             /\ \A d \in Dirs : text'[d] # text[d] => d \in chosen /\ text'[d] \in Wholes \cup {<<>>}
             /\ \A s \in Slots : Honest(s, request'[s])
<1>1. FilesInit => AccessInv BY FilesStartInv
<1>2. AccessInv /\ [FilesNext]_filesVars => AccessInv' BY FilesStep, FilesStutter DEF AccessKept
<1>3. AccessInv /\ [FilesNext]_filesVars => Answers BY FilesStep, FilesStutter, AnswersHonest
<1>4. TrueAccess <=> [][Answers]_filesVars BY DEF TrueAccess
<1> QED BY <1>1, <1>2, <1>3, <1>4, PTL DEF FilesSpec

-----------------------------------------------------------------------------
(* Desktop shell and tunnel.                                                 *)

(* The inductive invariants.                                                 *)

\* The records have their fields; the fields that count time are left open.
ShapeInv ==
  /\ DOMAIN tunnel = DOMAIN Off /\ tunnel.child \in {Nothing, "starting", "ready", "exited"}
  /\ files \in [ClientFiles -> Int] /\ disabled \subseteq Clients /\ events \in Nat
  /\ setup \in [at : {"none", "check", "write", "lock", "enable", "spawn"}, saves : Int,
                seen : SUBSET Clients]
  /\ DOMAIN deletion = DOMAIN NoDeletion
  /\ deletion.at \in {"none", "asked", "mark", "remove", "restore", "answered"}
  /\ deletion.originals \in [ClientFiles -> Int] /\ deletion.next \in 1..3 /\ deletion.seen \subseteq Clients
  /\ other.at \in {"none", "enable"} /\ DOMAIN other = DOMAIN NoOther
  /\ holder \in {Nothing, "supervisor", "start", "save", "delete"}

\* Who is at work has the lock of the tunnel, and who changes the list of
\* disabled clients the lock file: what was read of the list is still so.
LockInv ==
  /\ setup.at # "none" => holder \in {"supervisor", "start", "save"}
  /\ holder = "delete" => deletion.at # "none"
  /\ setup.at = "enable" => lockFile = "setup" /\ setup.seen = disabled
  /\ deletion.at \in {"mark", "remove", "restore"} => lockFile = "delete"
  /\ deletion.at = "mark" => deletion.seen = disabled
  /\ other.at = "enable" => lockFile = "other" /\ other.seen = disabled

\* A deletion the user still waits for removes the files one by one.
DeletionInv ==
  /\ deletion.at \in {"asked", "mark"} => deletion.next = 1
  /\ deletion.at = "remove" => "chatgpt" \in disabled
  /\ holder = "delete" =>
       /\ deletion.at = "remove" => \A i \in 1..(deletion.next - 1) : files[Order[i]] = 0
       /\ deletion.at = "answered" /\ deletion.answer = "deleted" =>
            files = Absent /\ "chatgpt" \in disabled

\* A configuration that was reported as deleted is not brought back by what is
\* under way, a later deletion that fails among it.
ReportedInv ==
  deleted =>
    /\ DeletedStays
    /\ deletion.at \in {"mark", "remove", "restore"} =>
         deletion.originals = Absent /\ "chatgpt" \in deletion.seen

\* The shell and the page.
ShellShape ==
  /\ close \in [ready : BOOLEAN, pending : BOOLEAN, approved : BOOLEAN]
  /\ shell \in {"run", "destroy", "stop", "between", "exit", "leave", "gone"}
  /\ {window, exits, backend, dirty} \subseteq BOOLEAN
  /\ guard \in {"idle", "asked", "save", "position", "allow", "refuse"}

\* What is typed is saved before the page lets the program go.
TypedInv ==
  (\/ guard \in {"position", "allow"} \/ close.approved \/ ~close.ready
   \/ ~window \/ shell # "run") => ~dirty

\* Past the last stop nothing starts a child again.
StoppedInv ==
  /\ shell \in {"between", "exit", "leave", "gone"} => ~backend
  /\ shell \in {"leave", "gone"} => /\ tunnel.child = Nothing /\ ~tunnel.enabled
                                    /\ setup.at = "none"

-----------------------------------------------------------------------------
(* The tunnel as a record.                                                   *)

Children == {Nothing, "starting", "ready", "exited"}
IsTunnel(t) == DOMAIN t = DOMAIN Off /\ t.child \in Children

LEMMA OffIsTunnel ==
  /\ IsTunnel(Off) /\ Off.child = Nothing /\ Off.enabled = FALSE
  /\ DOMAIN Off = {"enabled", "child", "failures", "retryIn", "unhealthyFor", "healthyFor", "status"}
BY DEF Off, IsTunnel, Children

\* Looking after a client may end it, and starts none.
LEMMA LookedFacts ==
  ASSUME NEW t, IsTunnel(t)
  PROVE  /\ IsTunnel(Looked(t)) /\ Looked(t).enabled = t.enabled
         /\ t.child = Nothing => Looked(t) = t
<1>1. ASSUME NEW u, IsTunnel(u)
      PROVE  /\ IsTunnel(Failed(u)) /\ Failed(u).enabled = u.enabled /\ Failed(u).child = u.child
  BY <1>1, OffIsTunnel DEF Failed, IsTunnel
<1>2. ASSUME NEW ready
      PROVE  /\ IsTunnel(Watched(t, ready)) /\ Watched(t, ready).enabled = t.enabled
             /\ Watched(t, ready).child = t.child
  BY OffIsTunnel DEF Watched, IsTunnel
<1>3. ASSUME NEW u, IsTunnel(u), NEW child \in Children, NEW status
      PROVE  /\ IsTunnel([u EXCEPT !.child = child, !.status = status])
             /\ [u EXCEPT !.child = child, !.status = status].enabled = u.enabled
             /\ IsTunnel([u EXCEPT !.status = status])
             /\ [u EXCEPT !.status = status].enabled = u.enabled
  BY <1>3, OffIsTunnel DEF IsTunnel
<1>4. Nothing \in Children BY DEF Children
<1>5. CASE t.child = Nothing BY <1>5 DEF Looked
<1>6. CASE t.child = "exited"
  <2> DEFINE u == [t EXCEPT !.child = Nothing, !.status = "retrying"]
  <2>1. IsTunnel(u) /\ u.enabled = t.enabled BY <1>3, <1>4
  <2>2. Looked(t) = Failed(u) /\ t.child # Nothing BY <1>6, NothingAssumption DEF Looked
  <2> HIDE DEF u
  <2> QED BY <1>1, <2>1, <2>2
<1>7. CASE t.child \notin {Nothing, "exited"}
  <2> DEFINE seen == Watched(t, t.child = "ready")
             u == [seen EXCEPT !.child = Nothing, !.status = "retrying"]
  <2>1. IsTunnel(seen) /\ seen.enabled = t.enabled BY <1>2
  <2>2. Looked(t) = IF TooLong(seen) THEN Failed(u)
                    ELSE [seen EXCEPT !.status = IF t.child = "ready" THEN "ready" ELSE "connecting"]
    BY <1>7 DEF Looked
  <2> HIDE DEF seen
  <2>3. IsTunnel(u) /\ u.enabled = seen.enabled BY <1>3, <1>4, <2>1
  <2> HIDE DEF u
  <2>4. IsTunnel(Failed(u)) /\ Failed(u).enabled = u.enabled BY <1>1, <2>3
  <2>5. CASE TooLong(seen) BY <1>7, <2>1, <2>2, <2>3, <2>4, <2>5
  <2>6. CASE ~TooLong(seen)
    <3>1. ASSUME NEW status
          PROVE  /\ IsTunnel([seen EXCEPT !.status = status])
                 /\ [seen EXCEPT !.status = status].enabled = seen.enabled
      BY <1>3, <2>1, <1>4
    <3>2. \E status : Looked(t) = [seen EXCEPT !.status = status] BY <2>2, <2>6
    <3> QED BY <1>7, <2>1, <3>1, <3>2
  <2> QED BY <2>5, <2>6
<1> QED BY <1>5, <1>6, <1>7

-----------------------------------------------------------------------------
(* The steps of the tunnel.                                                  *)

TunnelInv == ShapeInv /\ LockInv /\ DeletionInv /\ ReportedInv

LEMMA TunnelShape == ShapeInv => IsTunnel(tunnel)
BY DEF ShapeInv, IsTunnel, Children

\* Once stopped or deleted, the tunnel has no client and stays without one.
Quiet == tunnel.child = Nothing => tunnel'.child = Nothing

LEMMA SuperviseFacts ==
  ASSUME ShapeInv, NEW who, NEW t, IsTunnel(t), t.child = tunnel.child, Supervise(who, t)
  PROVE  /\ IsTunnel(tunnel') /\ tunnel'.enabled = t.enabled /\ Quiet
         /\ holder = Nothing
         /\ \/ UNCHANGED <<holder, setup>>
            \/ /\ files["setup.json"] # 0 /\ t.enabled /\ holder' = who
               /\ setup' = [at |-> "check", saves |-> files["setup.json"], seen |-> {}]
<1> DEFINE seen == Looked(t)
<1>1. /\ IsTunnel(seen) /\ seen.enabled = t.enabled /\ (t.child = Nothing => seen = t)
  BY LookedFacts
<1>2. tunnel' \in {t, seen, [seen EXCEPT !.status = "unconfigured"]}
  BY DEF Supervise
<1> HIDE DEF seen
<1>3. /\ IsTunnel([seen EXCEPT !.status = "unconfigured"])
      /\ [seen EXCEPT !.status = "unconfigured"].enabled = seen.enabled
      /\ [seen EXCEPT !.status = "unconfigured"].child = seen.child
  BY <1>1, OffIsTunnel DEF IsTunnel
<1>4. IsTunnel(tunnel') /\ tunnel'.enabled = t.enabled /\ Quiet
  BY <1>1, <1>2, <1>3 DEF Quiet
<1>5. /\ holder = Nothing
      /\ \/ UNCHANGED <<holder, setup>>
         \/ /\ files["setup.json"] # 0 /\ t.enabled /\ holder' = who
            /\ setup' = [at |-> "check", saves |-> files["setup.json"], seen |-> {}]
  BY DEF Supervise
<1> QED BY <1>4, <1>5

LEMMA SuperviseKeeps ==
  ASSUME TunnelInv, NEW who \in {"supervisor", "start"}, NEW t, IsTunnel(t),
         t.child = tunnel.child, Supervise(who, t),
         UNCHANGED <<files, disabled, lockFile, deletion, other, deleted, events>>
  PROVE  TunnelInv'
<1>1. /\ IsTunnel(tunnel') /\ Quiet /\ holder = Nothing
      /\ \/ UNCHANGED <<holder, setup>>
         \/ /\ files["setup.json"] # 0 /\ holder' = who
            /\ setup' = [at |-> "check", saves |-> files["setup.json"], seen |-> {}]
  BY SuperviseFacts DEF TunnelInv
<1>2. ShapeInv'
  <2>1. files["setup.json"] \in Int BY DEF TunnelInv, ShapeInv, ClientFiles
  <2>2. /\ setup' \in [at : {"none", "check", "write", "lock", "enable", "spawn"}, saves : Int,
                       seen : SUBSET Clients]
        /\ holder' \in {Nothing, "supervisor", "start", "save", "delete"}
    BY <1>1, <2>1 DEF TunnelInv, ShapeInv
  <2>3. DOMAIN tunnel' = DOMAIN Off /\ tunnel'.child \in Children BY <1>1 DEF IsTunnel
  <2> QED BY <2>2, <2>3 DEF TunnelInv, ShapeInv, Children
<1>3. LockInv'
  BY <1>1, NothingAssumption DEF TunnelInv, ShapeInv, LockInv
<1>4. DeletionInv'
  BY <1>1, NothingAssumption DEF TunnelInv, DeletionInv
<1>5. ReportedInv'
  BY <1>1 DEF TunnelInv, ReportedInv, DeletedStays, Quiet, Absent, ClientFiles
<1> QED BY <1>2, <1>3, <1>4, <1>5 DEF TunnelInv

LEMMA EndsFacts ==
  ASSUME ShapeInv, NEW error, SetupEnds(error)
  PROVE  IsTunnel(tunnel') /\ setup' = NoSetup /\ holder' = Nothing
<1>1. IsTunnel(tunnel) BY TunnelShape
<1>2. CASE tunnel' = tunnel BY <1>1, <1>2 DEF SetupEnds
<1>3. CASE tunnel' = [tunnel EXCEPT !.child = "starting", !.status = "connecting"]
  BY <1>1, <1>3, OffIsTunnel DEF SetupEnds, IsTunnel, Children
<1>4. CASE tunnel' = [Failed(tunnel) EXCEPT !.status = error]
  <2>1. IsTunnel(Failed(tunnel)) BY <1>1, OffIsTunnel DEF Failed, IsTunnel
  <2> QED BY <1>4, <2>1, OffIsTunnel DEF SetupEnds, IsTunnel
<1> QED BY <1>2, <1>3, <1>4 DEF SetupEnds

\* The setup program has the lock of the tunnel: nothing was reported as deleted,
\* and nobody waits for a deletion.
LEMMA SetupKeeps ==
  ASSUME TunnelInv, SetupStep
  PROVE  TunnelInv'
<1>0. /\ ShapeInv /\ LockInv /\ DeletionInv /\ ReportedInv BY DEF TunnelInv
<1>1. setup.at # "none" /\ holder \in {"supervisor", "start", "save"} /\ ~deleted
  BY <1>0 DEF SetupStep, SetupCheck, SetupWrites, SetupLocks, SetupEnables, Spawns, Ready, LockInv,
              ReportedInv, DeletedStays
<1>2. UNCHANGED <<deletion, other, deleted>> /\ events' \in Nat
  BY <1>0 DEF SetupStep, SetupCheck, SetupWrites, SetupLocks, SetupEnables, Spawns, Spend, ShapeInv
<1>3. /\ IsTunnel(tunnel)
      /\ NoSetup \in [at : {"none", "check", "write", "lock", "enable", "spawn"}, saves : Int,
                      seen : SUBSET Clients] /\ NoSetup.at = "none"
  BY <1>0, TunnelShape DEF NoSetup
<1>4. CASE \E error : SetupEnds(error) /\ UNCHANGED <<files, disabled, lockFile>>
  <2>1. IsTunnel(tunnel') /\ setup' = NoSetup /\ holder' = Nothing /\ UNCHANGED <<files, disabled, lockFile>>
    BY <1>0, <1>4, EndsFacts
  <2>2. ShapeInv' BY <1>0, <1>2, <1>3, <2>1 DEF ShapeInv, IsTunnel, Children
  <2>3. LockInv' BY <1>0, <1>2, <1>3, <2>1, NothingAssumption DEF LockInv
  <2>4. DeletionInv' BY <1>0, <1>2, <2>1, NothingAssumption DEF DeletionInv
  <2> QED BY <1>1, <1>2, <2>2, <2>3, <2>4 DEF TunnelInv, ReportedInv
<1>5. CASE SetupCheck
  <2>1. CASE files["runtime.key"] = 0 BY <1>4, <1>5, <2>1 DEF SetupCheck
  <2>2. CASE files["runtime.key"] # 0
    <3>1. /\ setup' = [setup EXCEPT !.at = "write"]
          /\ UNCHANGED <<tunnel, holder, files, disabled, lockFile>>
      BY <1>5, <2>2 DEF SetupCheck
    <3>2. setup'.at = "write" /\ ShapeInv' BY <1>0, <1>2, <3>1 DEF ShapeInv
    <3>3. LockInv' /\ DeletionInv' BY <1>0, <1>1, <1>2, <3>1, <3>2 DEF LockInv, DeletionInv
    <3> QED BY <1>1, <1>2, <3>2, <3>3 DEF TunnelInv, ReportedInv
  <2> QED BY <2>1, <2>2
<1>6. CASE SetupWrites
  <2>1. /\ setup' = [setup EXCEPT !.at = "lock"]
        /\ UNCHANGED <<tunnel, holder, disabled, lockFile>>
        /\ files' = [files EXCEPT !["setup.json"] = setup.saves,
                                  !["runtime.key"] = IF holder = "save" THEN setup.saves ELSE @]
    BY <1>6 DEF SetupWrites
  <2>2. files' \in [ClientFiles -> Int] BY <1>0, <2>1 DEF ShapeInv, ClientFiles
  <2>3. setup'.at = "lock" /\ ShapeInv' BY <1>0, <1>2, <2>1, <2>2 DEF ShapeInv
  <2>4. LockInv' /\ DeletionInv' BY <1>0, <1>1, <1>2, <2>1, <2>3 DEF LockInv, DeletionInv
  <2> QED BY <1>1, <1>2, <2>3, <2>4 DEF TunnelInv, ReportedInv
<1>7. CASE SetupLocks
  <2>1. CASE lockFile # Nothing BY <1>4, <1>7, <2>1 DEF SetupLocks
  <2>2. CASE lockFile = Nothing
    <3>1. /\ setup' = [setup EXCEPT !.at = "enable", !.seen = disabled]
          /\ lockFile' = "setup" /\ UNCHANGED <<tunnel, holder, files, disabled>>
      BY <1>7, <2>2 DEF SetupLocks
    <3>2. disabled \in SUBSET Clients BY <1>0 DEF ShapeInv
    <3>3. setup'.at = "enable" /\ setup'.seen = disabled /\ ShapeInv' BY <1>0, <1>2, <3>1, <3>2 DEF ShapeInv
    <3>4. LockInv' BY <1>0, <1>1, <1>2, <2>2, <3>1, <3>3, NothingAssumption DEF LockInv
    <3>5. DeletionInv' BY <1>0, <1>1, <1>2, <3>1 DEF DeletionInv
    <3> QED BY <1>1, <1>2, <3>3, <3>4, <3>5 DEF TunnelInv, ReportedInv
  <2> QED BY <2>1, <2>2
<1>8. CASE SetupEnables
  <2>0. /\ setup.at = "enable" /\ lockFile = "setup" /\ lockFile' = Nothing
        /\ files' = [files EXCEPT !["client.key"] =
                       IF @ = 0 \/ "chatgpt" \in setup.seen THEN setup.saves ELSE @]
        /\ disabled' = setup.seen \ {"chatgpt"}
    BY <1>0, <1>8 DEF SetupEnables, Ready, LockInv
  <2>1. files' \in [ClientFiles -> Int] /\ disabled' \subseteq Clients BY <1>0, <2>0 DEF ShapeInv, ClientFiles
  <2>2. deletion.at \notin {"mark", "remove", "restore"} /\ other.at # "enable"
    BY <1>0, <2>0 DEF LockInv
  <2>3. CASE SetupEnds(Nothing)
    <3>1. IsTunnel(tunnel') /\ setup' = NoSetup /\ holder' = Nothing BY <1>0, <2>3, EndsFacts
    <3>2. ShapeInv' BY <1>0, <1>2, <1>3, <2>1, <3>1 DEF ShapeInv, IsTunnel, Children
    <3>3. LockInv' BY <1>0, <1>2, <1>3, <2>2, <3>1, NothingAssumption DEF LockInv
    <3>4. DeletionInv' BY <1>0, <1>2, <2>2, <3>1, NothingAssumption DEF DeletionInv
    <3> QED BY <1>1, <1>2, <3>2, <3>3, <3>4 DEF TunnelInv, ReportedInv
  <2>4. CASE setup' = [setup EXCEPT !.at = "spawn"] /\ UNCHANGED <<tunnel, holder>>
    <3>1. setup'.at = "spawn" /\ ShapeInv' BY <1>0, <1>2, <2>1, <2>4 DEF ShapeInv
    <3>2. LockInv' BY <1>0, <1>1, <1>2, <2>2, <2>4, <3>1 DEF LockInv
    <3>3. DeletionInv' BY <1>0, <1>1, <1>2, <2>2, <2>4 DEF DeletionInv
    <3> QED BY <1>1, <1>2, <3>1, <3>2, <3>3 DEF TunnelInv, ReportedInv
  <2> QED BY <1>8, <2>3, <2>4 DEF SetupEnables
<1>9. CASE Spawns
  BY <1>4, <1>9 DEF Spawns
<1> QED BY <1>5, <1>6, <1>7, <1>8, <1>9 DEF SetupStep

\* A deletion changes the files and the list under the lock file.
LEMMA DeleteKeeps ==
  ASSUME TunnelInv, DeleteStep
  PROVE  TunnelInv'
<1>0. /\ ShapeInv /\ LockInv /\ DeletionInv /\ ReportedInv BY DEF TunnelInv
<1>1. UNCHANGED <<tunnel, holder, setup, other, deleted>> /\ events' \in Nat
  BY <1>0 DEF DeleteStep, DeleteRefused, DeleteLocks, DeleteMarks, DeleteRemoves, DeleteRestores,
              Spend, ShapeInv
<1>2. /\ deletion.at \in {"asked", "mark", "remove", "restore"}
      /\ DOMAIN deletion = DOMAIN NoDeletion
      /\ DOMAIN NoDeletion = {"at", "seen", "originals", "next", "answer"}
  BY <1>0 DEF DeleteStep, DeleteRefused, DeleteLocks, DeleteMarks, DeleteRemoves, DeleteRestores,
              ShapeInv, NoDeletion
<1>3. holder = "delete" => setup.at = "none" BY <1>0, NothingAssumption DEF LockInv
<1>4. CASE deletion' = [deletion EXCEPT !.at = "answered", !.answer = "refused"] /\ UNCHANGED <<files, disabled, lockFile>>
  <2>1. deletion'.at = "answered" /\ deletion'.answer = "refused" /\ DOMAIN deletion' = DOMAIN deletion
        /\ deletion'.originals = deletion.originals /\ deletion'.next = deletion.next
        /\ deletion'.seen = deletion.seen
    BY <1>2, <1>4
  <2>2. ShapeInv' BY <1>0, <1>1, <1>4, <2>1 DEF ShapeInv
  <2>3. LockInv' /\ DeletionInv' /\ ReportedInv'
    BY <1>0, <1>1, <1>4, <2>1 DEF LockInv, DeletionInv, ReportedInv, DeletedStays
  <2> QED BY <2>2, <2>3 DEF TunnelInv
<1>5. CASE DeleteLocks
  <2>1. /\ deletion' = [deletion EXCEPT !.at = "mark", !.seen = disabled, !.originals = files]
        /\ deletion.at = "asked" /\ lockFile = Nothing /\ lockFile' = "delete"
        /\ UNCHANGED <<files, disabled>>
    BY <1>5 DEF DeleteLocks
  <2>2. /\ deletion'.at = "mark" /\ deletion'.seen = disabled /\ DOMAIN deletion' = DOMAIN deletion
        /\ deletion'.originals = files /\ deletion'.next = deletion.next
    BY <1>2, <2>1
  <2>3. ShapeInv' BY <1>0, <1>1, <2>1, <2>2 DEF ShapeInv
  <2>4. LockInv' BY <1>0, <1>1, <2>1, <2>2, NothingAssumption DEF LockInv
  <2>5. DeletionInv' /\ ReportedInv'
    BY <1>0, <1>1, <2>1, <2>2 DEF DeletionInv, ReportedInv, DeletedStays
  <2> QED BY <2>3, <2>4, <2>5 DEF TunnelInv
<1>6. CASE DeleteMarks
  <2>0. deletion.at = "mark" /\ files' = files /\ lockFile = "delete" /\ deletion.seen = disabled
    BY <1>0, <1>6 DEF DeleteMarks, LockInv
  <2>1. CASE deletion' = [deletion EXCEPT !.at = "remove"] /\ disabled' = deletion.seen \union {"chatgpt"} /\ UNCHANGED lockFile
    <3>1. /\ deletion'.at = "remove" /\ DOMAIN deletion' = DOMAIN deletion /\ deletion'.seen = deletion.seen
          /\ deletion'.originals = deletion.originals /\ deletion'.next = deletion.next
      BY <1>2, <2>1
    <3>2. disabled' \subseteq Clients BY <1>0, <2>0, <2>1 DEF ShapeInv, Clients
    <3>3. ShapeInv' BY <1>0, <1>1, <2>0, <3>1, <3>2 DEF ShapeInv
    <3>4. LockInv' BY <1>0, <1>1, <2>0, <2>1, <3>1 DEF LockInv
    <3>5. ASSUME holder = "delete" PROVE \A i \in 1..(deletion'.next - 1) : files'[Order[i]] = 0
      <4>1. deletion.next = 1 BY <1>0, <2>0, <3>5 DEF DeletionInv
      <4> QED BY <3>1, <4>1
    <3>6. DeletionInv' BY <1>1, <2>1, <3>1, <3>5 DEF DeletionInv
    <3>7. ReportedInv' BY <1>0, <1>1, <2>0, <2>1, <3>1 DEF ReportedInv, DeletedStays
    <3> QED BY <3>3, <3>4, <3>6, <3>7 DEF TunnelInv
  <2>2. CASE deletion' = [deletion EXCEPT !.at = "answered", !.answer = "failed"] /\ UNCHANGED disabled
    <3>1. deletion'.at = "answered" /\ deletion'.answer = "failed" /\ DOMAIN deletion' = DOMAIN deletion
          /\ deletion'.originals = deletion.originals /\ deletion'.next = deletion.next
          /\ deletion'.seen = deletion.seen
      BY <1>2, <2>2
    <3>2. ShapeInv' BY <1>0, <1>1, <2>0, <2>2, <3>1 DEF ShapeInv
    <3>3. LockInv' BY <1>0, <1>1, <2>0, <2>2, <3>1 DEF LockInv
    <3>4. DeletionInv' /\ ReportedInv'
      BY <1>0, <1>1, <2>0, <2>2, <3>1 DEF DeletionInv, ReportedInv, DeletedStays
    <3> QED BY <3>2, <3>3, <3>4 DEF TunnelInv
  <2> QED BY <1>6, <2>1, <2>2 DEF DeleteMarks
<1>7. CASE DeleteRemoves
  <2> DEFINE f == Order[deletion.next]
             last == deletion.next = 3
  <2>0. /\ deletion.at = "remove" /\ lockFile = "delete" /\ "chatgpt" \in disabled
        /\ deletion.next \in 1..3 /\ Len(Order) = 3 /\ disabled' = disabled
        /\ Order[1] = "setup.json" /\ Order[2] = "runtime.key" /\ Order[3] = "client.key"
    BY <1>0, <1>7 DEF DeleteRemoves, LockInv, DeletionInv, ShapeInv, Order
  <2>1. f \in ClientFiles BY <2>0 DEF ClientFiles
  <2>2. CASE deletion' = [deletion EXCEPT !.at = "restore"] /\ UNCHANGED <<files, lockFile>>
    <3>1. /\ deletion'.at = "restore" /\ DOMAIN deletion' = DOMAIN deletion /\ deletion'.seen = deletion.seen
          /\ deletion'.originals = deletion.originals /\ deletion'.next = deletion.next
      BY <1>2, <2>2
    <3>2. ShapeInv' BY <1>0, <1>1, <2>0, <2>2, <3>1 DEF ShapeInv
    <3>3. LockInv' BY <1>0, <1>1, <2>0, <2>2, <3>1 DEF LockInv
    <3>4. DeletionInv' BY <1>1, <2>0, <3>1 DEF DeletionInv
    <3>5. ReportedInv' BY <1>0, <1>1, <2>0, <2>2, <3>1 DEF ReportedInv, DeletedStays
    <3> QED BY <3>2, <3>3, <3>4, <3>5 DEF TunnelInv
  <2>3. CASE /\ files' = [files EXCEPT ![f] = 0]
             /\ deletion' = IF last THEN [deletion EXCEPT !.at = "answered", !.answer = "deleted"]
                            ELSE [deletion EXCEPT !.next = @ + 1]
             /\ lockFile' = IF last THEN Nothing ELSE lockFile
    <3>1. /\ DOMAIN deletion' = DOMAIN deletion /\ deletion'.originals = deletion.originals
          /\ deletion'.seen = deletion.seen
          /\ last => deletion'.at = "answered" /\ deletion'.next = 3
          /\ ~last => deletion'.at = "remove" /\ deletion'.next = deletion.next + 1
      BY <1>2, <2>0, <2>3
    <3>2. files' \in [ClientFiles -> Int] /\ \A g \in ClientFiles : files'[g] = IF g = f THEN 0 ELSE files[g]
      BY <1>0, <2>1, <2>3 DEF ShapeInv
    <3>3. deletion'.next \in 1..3 /\ deletion'.at \in {"remove", "answered"} BY <2>0, <3>1
    <3>4. ShapeInv' BY <1>0, <1>1, <2>0, <3>1, <3>2, <3>3 DEF ShapeInv
    <3>5. LockInv' BY <1>0, <1>1, <2>0, <2>3, <3>1 DEF LockInv
    <3>6. ASSUME holder = "delete"
          PROVE  \A i \in 1..(IF last THEN 3 ELSE deletion'.next - 1) : files'[Order[i]] = 0
      <4> SUFFICES ASSUME NEW i \in 1..(IF last THEN 3 ELSE deletion'.next - 1)
                   PROVE  files'[Order[i]] = 0
        OBVIOUS
      <4>1. i \in 1..3 /\ (i \in 1..(deletion.next - 1) \/ i = deletion.next) BY <2>0, <3>1
      <4>2. Order[i] \in ClientFiles BY <2>0, <4>1 DEF ClientFiles
      <4>3. CASE i = deletion.next BY <2>1, <3>2, <4>3
      <4>4. CASE i \in 1..(deletion.next - 1)
        <5>1. files[Order[i]] = 0 BY <1>0, <2>0, <3>6, <4>4 DEF DeletionInv
        <5> QED BY <3>2, <4>2, <5>1
      <4> QED BY <4>1, <4>3, <4>4
    <3>7. ASSUME holder = "delete", last PROVE files' = Absent
      <4>1. \A i \in 1..3 : files'[Order[i]] = 0 BY <3>6, <3>7
      <4>2. files'["setup.json"] = 0 /\ files'["runtime.key"] = 0 /\ files'["client.key"] = 0
        BY <2>0, <4>1
      <4>3. \A g \in ClientFiles : files'[g] = Absent[g] BY <4>2 DEF ClientFiles, Absent
      <4> QED BY <3>2, <4>3 DEF Absent
    <3>8. DeletionInv'
      <4>1. CASE last BY <1>1, <2>0, <3>1, <3>7, <4>1 DEF DeletionInv
      <4>2. CASE ~last BY <1>1, <2>0, <3>1, <3>6, <4>2 DEF DeletionInv
      <4> QED BY <4>1, <4>2
    <3>9. ASSUME deleted PROVE files' = Absent
      <4>1. files = Absent BY <1>0, <3>9 DEF ReportedInv, DeletedStays
      <4>2. \A g \in ClientFiles : files'[g] = Absent[g] BY <3>2, <4>1 DEF Absent
      <4> QED BY <3>2, <4>2 DEF Absent
    <3>10. ReportedInv'
      BY <1>0, <1>1, <2>0, <3>1, <3>9 DEF ReportedInv, DeletedStays
    <3> QED BY <3>4, <3>5, <3>8, <3>10 DEF TunnelInv
  <2> QED BY <1>7, <2>0, <2>2, <2>3 DEF DeleteRemoves
<1>8. CASE DeleteRestores
  <2>0. /\ deletion.at = "restore" /\ lockFile = "delete" /\ lockFile' = Nothing
        /\ deletion' = [deletion EXCEPT !.at = "answered", !.answer = "failed"]
        /\ \/ files' = Restored /\ disabled' = Unmarked(Restored)
           \/ UNCHANGED <<files, disabled>>
    BY <1>0, <1>8 DEF DeleteRestores, LockInv
  <2>1. /\ deletion'.at = "answered" /\ deletion'.answer = "failed" /\ DOMAIN deletion' = DOMAIN deletion
        /\ deletion'.originals = deletion.originals /\ deletion'.next = deletion.next
        /\ deletion'.seen = deletion.seen
    BY <1>2, <2>0
  <2>2. Restored \in [ClientFiles -> Int] BY <1>0 DEF Restored, ShapeInv
  <2>3. Unmarked(Restored) \in SUBSET Clients BY <1>0, <2>0 DEF Unmarked, ShapeInv
  <2>4. ShapeInv' BY <1>0, <1>1, <2>0, <2>1, <2>2, <2>3 DEF ShapeInv
  <2>5. setup.at # "enable" /\ other.at # "enable" BY <1>0, <2>0 DEF LockInv
  <2>6. LockInv' BY <1>0, <1>1, <2>0, <2>1, <2>5 DEF LockInv
  <2>7. DeletionInv' BY <1>1, <2>1 DEF DeletionInv
  <2>8. ASSUME deleted PROVE files' = Absent /\ "chatgpt" \in disabled'
    <3>1. /\ files = Absent /\ "chatgpt" \in disabled /\ deletion.originals = Absent
          /\ "chatgpt" \in deletion.seen
      BY <1>0, <2>0, <2>8 DEF ReportedInv, DeletedStays
    <3>2. Restored = Absent
      <4>1. \A g \in ClientFiles : Restored[g] = Absent[g] BY <3>1 DEF Restored, Absent
      <4> QED BY <4>1 DEF Restored, Absent
    <3>3. "chatgpt" \in Unmarked(Restored) BY <3>1 DEF Unmarked
    <3> QED BY <2>0, <3>1, <3>2, <3>3
  <2>9. ReportedInv' BY <1>0, <1>1, <2>1, <2>8 DEF ReportedInv, DeletedStays
  <2> QED BY <2>4, <2>6, <2>7, <2>9 DEF TunnelInv
<1>9. CASE DeleteRefused
  BY <1>4, <1>9 DEF DeleteRefused
<1> QED BY <1>5, <1>6, <1>7, <1>8, <1>9 DEF DeleteStep

LEMMA OtherSteps ==
  ASSUME TunnelInv, TunnelNext, ~SetupStep, ~DeleteStep
  PROVE  TunnelInv'
<1>0. /\ ShapeInv /\ LockInv /\ DeletionInv /\ ReportedInv /\ IsTunnel(tunnel)
  BY TunnelShape DEF TunnelInv
<1>1. CASE SupervisorLooks
  BY <1>0, <1>1, SuperviseKeeps DEF SupervisorLooks
<1>2. CASE TunnelStart
  <2> DEFINE t == [tunnel EXCEPT !.enabled = TRUE]
  <2>1. IsTunnel(t) /\ t.child = tunnel.child BY <1>0, OffIsTunnel DEF IsTunnel
  <2>2. Supervise("start", t) BY <1>2 DEF TunnelStart
  <2> HIDE DEF t
  <2> QED BY <1>2, <2>1, <2>2, SuperviseKeeps DEF TunnelStart
<1>3. CASE TunnelStop
  <2>1. tunnel' = Off /\ UNCHANGED <<files, disabled, holder, setup, deletion, other, lockFile, deleted, events>>
    BY <1>3 DEF TunnelStop, Stopped
  <2>2. ShapeInv' BY <1>0, <2>1, OffIsTunnel DEF ShapeInv, IsTunnel
  <2> QED BY <1>0, <2>1, <2>2, OffIsTunnel DEF TunnelInv, LockInv, DeletionInv, ReportedInv, DeletedStays
<1>4. CASE SaveConfiguration
  <2>1. /\ holder = Nothing /\ holder' = "save" /\ ~deleted' /\ events' = events + 1
        /\ setup' = [at |-> "write", saves |-> events + 2, seen |-> {}]
        /\ UNCHANGED <<tunnel, files, disabled, deletion, other, lockFile>>
    BY <1>4 DEF SaveConfiguration, Spend
  <2>2. /\ setup' \in [at : {"none", "check", "write", "lock", "enable", "spawn"}, saves : Int,
                       seen : SUBSET Clients] /\ setup'.at = "write" /\ events' \in Nat
    BY <1>0, <2>1 DEF ShapeInv
  <2>3. ShapeInv' BY <1>0, <2>1, <2>2 DEF ShapeInv
  <2>4. LockInv' BY <1>0, <2>1, <2>2, NothingAssumption DEF LockInv
  <2>5. DeletionInv' BY <1>0, <2>1 DEF DeletionInv
  <2> QED BY <2>1, <2>3, <2>4, <2>5 DEF TunnelInv, ReportedInv
<1>5. CASE DeleteAsked
  <2>1. /\ holder = Nothing /\ holder' = "delete" /\ deletion.at = "none" /\ events' = events + 1
        /\ deletion' = [NoDeletion EXCEPT !.at = "asked"]
        /\ UNCHANGED <<tunnel, files, disabled, setup, other, lockFile, deleted>>
    BY <1>5 DEF DeleteAsked, Spend
  <2>2. /\ DOMAIN deletion' = DOMAIN NoDeletion /\ deletion'.at = "asked" /\ deletion'.next = 1
        /\ deletion'.originals \in [ClientFiles -> Int] /\ deletion'.seen = {}
    BY <2>1 DEF NoDeletion, Absent
  <2>3. setup.at = "none" BY <1>0, <2>1, NothingAssumption DEF LockInv, ShapeInv
  <2>4. events' \in Nat BY <1>0, <2>1 DEF ShapeInv
  <2>5. ShapeInv' BY <1>0, <2>1, <2>2, <2>4 DEF ShapeInv
  <2>6. LockInv' BY <1>0, <2>1, <2>2, <2>3 DEF LockInv
  <2>7. DeletionInv' BY <1>0, <2>1, <2>2 DEF DeletionInv
  <2>8. ReportedInv' BY <1>0, <2>1, <2>2 DEF ReportedInv, DeletedStays
  <2> QED BY <2>5, <2>6, <2>7, <2>8 DEF TunnelInv
<1>6. CASE DeleteAnswered
  <2>1. /\ deletion' = NoDeletion /\ deletion.at = "answered"
        /\ UNCHANGED <<files, disabled, setup, other, lockFile, events>>
        /\ holder' = IF holder = "delete" THEN Nothing ELSE holder
        /\ \/ /\ holder = "delete" /\ deletion.answer = "deleted"
              /\ tunnel' = Off /\ deleted' = TRUE
           \/ UNCHANGED <<tunnel, deleted>>
    BY <1>6 DEF DeleteAnswered, Stopped
  <2>2. /\ NoDeletion.at = "none" /\ NoDeletion.next = 1 /\ NoDeletion.originals \in [ClientFiles -> Int]
        /\ NoDeletion.seen = {}
    BY DEF NoDeletion, Absent
  <2>3. IsTunnel(tunnel') BY <1>0, <2>1, OffIsTunnel
  <2>4. ShapeInv' BY <1>0, <2>1, <2>2, <2>3 DEF ShapeInv, IsTunnel, Children
  <2>5. LockInv' BY <1>0, <2>1, <2>2, NothingAssumption DEF LockInv
  <2>6. DeletionInv' BY <2>1, <2>2, NothingAssumption DEF DeletionInv
  <2>7. CASE holder = "delete" /\ deletion.answer = "deleted" /\ tunnel' = Off
    <3>1. setup.at = "none" BY <1>0, <2>7 DEF LockInv, ShapeInv
    <3>2. files = Absent /\ "chatgpt" \in disabled BY <1>0, <2>1, <2>7 DEF DeletionInv
    <3>3. tunnel'.child = Nothing BY <2>7, OffIsTunnel
    <3>4. ReportedInv' BY <2>1, <2>2, <3>1, <3>2, <3>3 DEF ReportedInv, DeletedStays
    <3> QED BY <2>4, <2>5, <2>6, <3>4 DEF TunnelInv
  <2>8. CASE UNCHANGED <<tunnel, deleted>>
    <3>1. ReportedInv' BY <1>0, <2>1, <2>2, <2>8 DEF ReportedInv, DeletedStays
    <3> QED BY <2>4, <2>5, <2>6, <3>1 DEF TunnelInv
  <2> QED BY <2>1, <2>7, <2>8
<1>7. CASE DeleteTimesOut
  <2>1. /\ holder = "delete" /\ holder' = Nothing
        /\ UNCHANGED <<tunnel, files, disabled, setup, deletion, other, lockFile, deleted, events>>
    BY <1>7 DEF DeleteTimesOut
  <2> QED BY <1>0, <2>1, NothingAssumption
          DEF TunnelInv, ShapeInv, LockInv, DeletionInv, ReportedInv, DeletedStays
<1>8. CASE OtherLocks
  <2>1. /\ other.at = "none" /\ lockFile = Nothing /\ lockFile' = "other" /\ events' = events + 1
        /\ other' = [at |-> "enable", seen |-> disabled]
        /\ UNCHANGED <<tunnel, holder, files, disabled, setup, deletion, deleted>>
    BY <1>8 DEF OtherLocks, Spend
  <2>2. other'.at = "enable" /\ other'.seen = disabled /\ DOMAIN other' = DOMAIN NoOther /\ events' \in Nat
    BY <1>0, <2>1 DEF ShapeInv, NoOther
  <2>3. ShapeInv' BY <1>0, <2>1, <2>2 DEF ShapeInv
  <2>4. LockInv' BY <1>0, <2>1, <2>2, NothingAssumption DEF LockInv
  <2> QED BY <1>0, <2>1, <2>3, <2>4 DEF TunnelInv, DeletionInv, ReportedInv, DeletedStays
<1>9. CASE OtherEnables
  <2>1. /\ other.at = "enable" /\ disabled' = other.seen \ {"claude"} /\ lockFile' = Nothing
        /\ other' = NoOther
        /\ UNCHANGED <<tunnel, holder, files, setup, deletion, deleted, events>>
    BY <1>9 DEF OtherEnables
  <2>2. lockFile = "other" /\ disabled' = disabled \ {"claude"} BY <1>0, <2>1 DEF LockInv
  <2>3. "chatgpt" \in disabled' <=> "chatgpt" \in disabled BY <2>2
  <2>4. NoOther.at = "none" BY DEF NoOther
  <2>5. ShapeInv' BY <1>0, <2>1, <2>2, <2>4 DEF ShapeInv
  <2>6. LockInv' BY <1>0, <2>1, <2>2, <2>4 DEF LockInv
  <2>7. DeletionInv' /\ ReportedInv'
    BY <1>0, <2>1, <2>3 DEF DeletionInv, ReportedInv, DeletedStays
  <2> QED BY <2>5, <2>6, <2>7 DEF TunnelInv
<1>10. ASSUME IsTunnel(tunnel'), Quiet, events' \in Nat,
              UNCHANGED <<files, disabled, holder, setup, deletion, other, lockFile, deleted>>
       PROVE  TunnelInv'
  <2>1. ShapeInv' BY <1>0, <1>10 DEF ShapeInv, IsTunnel, Children
  <2> QED BY <1>0, <1>10, <2>1 DEF TunnelInv, LockInv, DeletionInv, ReportedInv, DeletedStays, Quiet
<1>11. CASE Tick \/ ClientConnects \/ ClientSuffers
  <2>1. IsTunnel(tunnel') /\ Quiet
    <3>1. CASE Tick BY <1>0, <3>1, OffIsTunnel DEF Tick, IsTunnel, Quiet
    <3>2. CASE ClientConnects
      <4>1. tunnel.child = "starting" /\ tunnel' = [tunnel EXCEPT !.child = "ready"]
        BY <3>2 DEF ClientConnects
      <4> QED BY <1>0, <4>1, OffIsTunnel, NothingAssumption DEF IsTunnel, Children, Quiet
    <3>3. CASE ClientSuffers
      <4>1. PICK now \in {"starting", "exited"} : tunnel' = [tunnel EXCEPT !.child = now]
        BY <3>3 DEF ClientSuffers
      <4>2. tunnel.child \in {"starting", "ready"} BY <3>3 DEF ClientSuffers
      <4> QED BY <1>0, <4>1, <4>2, OffIsTunnel, NothingAssumption DEF IsTunnel, Children, Quiet
    <3> QED BY <1>11, <3>1, <3>2, <3>3
  <2>2. events' \in Nat /\ UNCHANGED <<files, disabled, holder, setup, deletion, other, lockFile, deleted>>
    BY <1>0, <1>11 DEF Tick, ClientConnects, ClientSuffers, ShapeInv
  <2> QED BY <1>10, <2>1, <2>2
<1>12. CASE NetworkFails \/ NetworkReturns
  <2>1. IsTunnel(tunnel') /\ Quiet /\ events' \in Nat
        /\ UNCHANGED <<files, disabled, holder, setup, deletion, other, lockFile, deleted>>
    BY <1>0, <1>12 DEF NetworkFails, NetworkReturns, Spend, ShapeInv, Quiet
  <2> QED BY <1>10, <2>1
<1> QED BY <1>1, <1>2, <1>3, <1>4, <1>5, <1>6, <1>7, <1>8, <1>9, <1>11, <1>12 DEF TunnelNext

-----------------------------------------------------------------------------
(* The steps of the shell.                                                   *)

LEMMA TunnelStays ==
  ASSUME TunnelInv, Alone
  PROVE  TunnelInv'
BY DEF Alone, TunnelRest, TunnelInv, ShapeInv, LockInv, DeletionInv, ReportedInv, DeletedStays

LEMMA SpendStays ==
  ASSUME TunnelInv, Spend, UNCHANGED TunnelRest
  PROVE  TunnelInv'
<1>1. events' \in Nat BY DEF Spend, TunnelInv, ShapeInv
<1> QED BY <1>1 DEF TunnelRest, TunnelInv, ShapeInv, LockInv, DeletionInv, ReportedInv, DeletedStays

LEMMA StopKeeps ==
  ASSUME TunnelInv, StopBackend
  PROVE  TunnelInv'
<1>1. /\ tunnel' = Off
      /\ UNCHANGED <<files, disabled, holder, setup, deletion, other, lockFile, deleted, events>>
  BY DEF StopBackend, Stopped
<1>2. ShapeInv' BY <1>1, OffIsTunnel DEF TunnelInv, ShapeInv, IsTunnel
<1> QED BY <1>1, <1>2, OffIsTunnel DEF TunnelInv, LockInv, DeletionInv, ReportedInv, DeletedStays

LEMMA TunnelKept ==
  ASSUME TunnelInv, [DesktopNext]_desktopVars
  PROVE  TunnelInv'
<1>1. CASE TunnelNext
  BY <1>1, SetupKeeps, DeleteKeeps, OtherSteps
<1>2. CASE Alone BY <1>2, TunnelStays
<1>3. CASE CloseRequested \/ Quit
  BY <1>3, SpendStays DEF CloseRequested, Quit
<1>4. CASE StopBackend BY <1>4, StopKeeps
<1>5. CASE UNCHANGED desktopVars
  BY <1>5, TunnelStays DEF desktopVars, tunnelVars, Alone, TunnelRest
<1>6. Commands \/ Others => TunnelNext
  BY DEF Commands, Others, TunnelNext
<1>7. CASE DesktopNext
  <2>1. CASE PageReady \/ Edit \/ Autosave \/ ExitRequested \/ Exit \/ Gone \/ Guard
    BY <1>2, <2>1 DEF PageReady, Edit, Autosave, ExitRequested, Exit, Gone,
                      Guard, GuardStarts, GuardSaves, GuardKeepsPosition, Finish
  <2>2. CASE Commands \/ Beside(Others)
    BY <1>1, <1>6, <2>2 DEF Beside
  <2> QED BY <1>3, <1>4, <1>7, <2>1, <2>2 DEF DesktopNext, Leaving
<1> QED BY <1>5, <1>7

LEMMA AskFacts ==
  ASSUME ShellShape, Ask
  PROVE  /\ close' \in [ready : BOOLEAN, pending : BOOLEAN, approved : BOOLEAN]
         /\ close'.ready = close.ready /\ close'.approved = close.approved
         /\ guard' \in {guard, "asked"}
BY DEF Ask, ShellShape

LEMMA ShellKept ==
  ASSUME ShellShape, [DesktopNext]_desktopVars
  PROVE  ShellShape'
<1>1. CASE PageReady
  BY <1>1 DEF PageReady, ShellShape
<1>2. CASE Edit \/ Autosave \/ Exit \/ Gone \/ GuardStarts \/ GuardSaves \/ GuardKeepsPosition
  BY <1>2 DEF Edit, Autosave, Exit, Gone, GuardStarts, GuardSaves, GuardKeepsPosition, ShellShape
<1>3. CASE Finish
  <2>1. close' \in [ready : BOOLEAN, pending : BOOLEAN, approved : BOOLEAN]
    BY <1>3 DEF Finish, ShellShape
  <2> QED BY <1>3, <2>1 DEF Finish, ShellShape
<1>4. CASE CloseRequested
  BY <1>4, AskFacts DEF CloseRequested, ShellShape
<1>5. CASE Quit
  BY <1>5, AskFacts DEF Quit, Held, ShellShape
<1>6. CASE ExitRequested
  BY <1>6, AskFacts DEF ExitRequested, ShellShape
<1>7. CASE StopBackend
  <2>1. shell' \in {"run", "between", "leave"} BY <1>7 DEF StopBackend
  <2> QED BY <1>7, <2>1 DEF StopBackend, ShellShape
<1>8. CASE UNCHANGED closeVars
  BY <1>8 DEF closeVars, ShellShape
<1> QED BY <1>1, <1>2, <1>3, <1>4, <1>5, <1>6, <1>7, <1>8 DEF DesktopNext, Leaving, Guard, Beside, desktopVars

LEMMA TypedKept ==
  ASSUME ShellShape, TypedInv, [DesktopNext]_desktopVars, LateEdits = FALSE
  PROVE  TypedInv'
<1>1. CASE PageReady
  <2>1. shell = "run" /\ ~dirty /\ close'.approved = close.approved
        /\ UNCHANGED <<shell, window, guard, dirty>>
    BY <1>1 DEF PageReady, TypedInv, ShellShape
  <2> QED BY <2>1 DEF TypedInv
<1>2. CASE Edit
  BY <1>2 DEF Edit, TypedInv
<1>3. CASE Autosave \/ Exit \/ Gone \/ GuardStarts \/ GuardSaves \/ GuardKeepsPosition
  BY <1>3 DEF Autosave, Exit, Gone, GuardStarts, GuardSaves, GuardKeepsPosition, TypedInv
<1>4. CASE Finish
  <2>1. /\ guard' = "idle" /\ UNCHANGED <<shell, window, dirty>>
        /\ close'.ready = close.ready
        /\ close'.approved => close.approved \/ guard = "allow"
    BY <1>4 DEF Finish, ShellShape
  <2> QED BY <2>1 DEF TypedInv
<1>5. CASE CloseRequested
  <2>1. /\ close'.ready = close.ready /\ close'.approved = close.approved /\ guard' \in {guard, "asked"}
        /\ window /\ dirty' = dirty
    BY <1>5, AskFacts DEF CloseRequested
  <2>2. CASE Held BY <1>5, <2>1, <2>2 DEF CloseRequested, TypedInv
  <2>3. CASE ~Held
    <3>1. ~dirty BY <2>1, <2>3 DEF Held, TypedInv
    <3> QED BY <2>1, <3>1 DEF TypedInv
  <2> QED BY <2>2, <2>3
<1>6. CASE Quit
  <2>1. /\ close'.ready = close.ready /\ close'.approved = close.approved /\ guard' \in {guard, "asked"}
        /\ UNCHANGED <<window, shell, dirty>>
    BY <1>6, AskFacts DEF Quit
  <2> QED BY <2>1 DEF TypedInv
<1>7. CASE ExitRequested
  <2>1. /\ close'.ready = close.ready /\ close'.approved = close.approved /\ guard' \in {guard, "asked"}
        /\ UNCHANGED <<window, dirty>>
    BY <1>7, AskFacts DEF ExitRequested
  <2>2. CASE Held BY <1>7, <2>1, <2>2 DEF ExitRequested, TypedInv
  <2>3. CASE ~Held
    <3>1. ~dirty BY <2>3 DEF Held, TypedInv
    <3> QED BY <2>1, <3>1 DEF TypedInv
  <2> QED BY <2>2, <2>3
<1>8. CASE StopBackend
  BY <1>8 DEF StopBackend, TypedInv
<1>9. CASE UNCHANGED closeVars
  BY <1>9 DEF closeVars, TypedInv
<1> QED BY <1>1, <1>2, <1>3, <1>4, <1>5, <1>6, <1>7, <1>8, <1>9 DEF DesktopNext, Leaving, Guard, Beside, desktopVars

\* Without the window nothing turns a stopped tunnel on.
StaysOff == /\ tunnel.child = Nothing /\ ~tunnel.enabled /\ setup.at = "none"

LEMMA OffStays ==
  ASSUME ShapeInv, StaysOff, Others
  PROVE  StaysOff'
<1>0. ~SupervisorLooks /\ ~SetupStep /\ ~Tick /\ ~NetworkFails /\ ~ClientConnects /\ ~ClientSuffers
  <2>1. ~SupervisorLooks /\ ~Tick /\ ~NetworkFails BY DEF StaysOff, SupervisorLooks, Tick, NetworkFails
  <2>2. ~SetupStep
    BY DEF StaysOff, SetupStep, SetupCheck, SetupWrites, SetupLocks, SetupEnables, Spawns, Ready
  <2>3. ~ClientConnects /\ ~ClientSuffers
    BY NothingAssumption DEF StaysOff, ClientConnects, ClientSuffers
  <2> QED BY <2>1, <2>2, <2>3
<1>1. CASE DeleteAnswered
  <2>1. UNCHANGED setup /\ (tunnel' = Off \/ UNCHANGED tunnel)
    BY <1>1 DEF DeleteAnswered, Stopped
  <2> QED BY <2>1, OffIsTunnel DEF StaysOff
<1>2. CASE DeleteAsked \/ DeleteStep \/ DeleteTimesOut \/ OtherLocks \/ OtherEnables \/ NetworkReturns
  BY <1>2 DEF DeleteAsked, DeleteStep, DeleteRefused, DeleteLocks, DeleteMarks, DeleteRemoves,
              DeleteRestores, DeleteTimesOut, OtherLocks, OtherEnables, NetworkReturns, StaysOff
<1> QED BY <1>0, <1>1, <1>2 DEF Others

LEMMA StoppedKept ==
  ASSUME TunnelInv, ShellShape, StoppedInv, [DesktopNext]_desktopVars
  PROVE  StoppedInv'
<1>0. ShapeInv BY DEF TunnelInv
<1>1. CASE StopBackend
  <2>1. holder = Nothing /\ tunnel' = Off /\ backend' = FALSE /\ UNCHANGED setup
    BY <1>1 DEF StopBackend, Stopped
  <2>2. setup.at = "none" BY <2>1, NothingAssumption DEF TunnelInv, LockInv
  <2> QED BY <2>1, <2>2, OffIsTunnel DEF StoppedInv
<1>2. CASE Exit
  BY <1>2 DEF Exit, StoppedInv
<1>3. CASE Gone
  BY <1>3 DEF Gone, StoppedInv, Alone, TunnelRest
<1>4. CASE PageReady \/ Edit \/ Autosave \/ Guard
  BY <1>4 DEF PageReady, Edit, Autosave, Guard, GuardStarts, GuardSaves, GuardKeepsPosition, Finish,
              StoppedInv, Alone, TunnelRest
<1>5. CASE CloseRequested \/ Quit \/ ExitRequested
  BY <1>5 DEF CloseRequested, Quit, ExitRequested, StoppedInv, TunnelRest
<1>6. CASE Commands /\ shell \in {"run", "between"} /\ UNCHANGED closeVars
  BY <1>6 DEF closeVars, StoppedInv
<1>7. CASE Beside(Others)
  <2>1. Others /\ UNCHANGED <<shell, backend>> BY <1>7 DEF Beside, closeVars
  <2>2. CASE shell \in {"leave", "gone"}
    <3>1. StaysOff BY <2>2 DEF StoppedInv, StaysOff
    <3>2. StaysOff' BY <1>0, <2>1, <3>1, OffStays
    <3> QED BY <2>1, <3>2 DEF StoppedInv, StaysOff
  <2>3. CASE shell \notin {"leave", "gone"} BY <2>1, <2>3 DEF StoppedInv
  <2> QED BY <2>2, <2>3
<1>8. CASE UNCHANGED desktopVars
  BY <1>8 DEF desktopVars, tunnelVars, closeVars, StoppedInv
<1> QED BY <1>1, <1>2, <1>3, <1>4, <1>5, <1>6, <1>7, <1>8 DEF DesktopNext, Leaving

-----------------------------------------------------------------------------
(* The theorems.                                                             *)

LEMMA DesktopStartInv == DesktopInit => TunnelInv /\ ShellShape /\ TypedInv /\ StoppedInv
<1> SUFFICES ASSUME DesktopInit PROVE TunnelInv /\ ShellShape /\ TypedInv /\ StoppedInv
  OBVIOUS
<1>1. TunnelInit BY DEF DesktopInit
<1>2. /\ tunnel = Off /\ holder = Nothing /\ files \in {Absent, [f \in ClientFiles |-> 1]} /\ disabled = {"claude"}
      /\ setup = NoSetup /\ deletion = NoDeletion /\ other = NoOther /\ deleted = FALSE /\ events = 0
  BY <1>1 DEF TunnelInit
<1>3. /\ NoSetup \in [at : {"none", "check", "write", "lock", "enable", "spawn"}, saves : Int,
                      seen : SUBSET Clients]
      /\ NoSetup.at = "none" /\ NoOther.at = "none" /\ NoDeletion.at = "none" /\ NoDeletion.next = 1
      /\ NoDeletion.originals \in [ClientFiles -> Int] /\ NoDeletion.seen = {}
  BY DEF NoSetup, NoOther, NoDeletion, Absent
<1>4. files \in [ClientFiles -> Int] BY <1>2 DEF Absent
<1>5. ShapeInv BY <1>2, <1>3, <1>4, OffIsTunnel DEF ShapeInv, IsTunnel, Clients
<1>6. LockInv /\ DeletionInv /\ ReportedInv BY <1>2, <1>3, NothingAssumption DEF LockInv, DeletionInv, ReportedInv
<1>7. ShellShape /\ TypedInv /\ StoppedInv BY DEF DesktopInit, ShellShape, TypedInv, StoppedInv
<1> QED BY <1>5, <1>6, <1>7 DEF TunnelInv

\* Once the user was told that the configuration is deleted, no file and no client
\* of it come back before a new save, whatever else was under way.
THEOREM NothingRevived == DesktopSpec => []DeletedStays
<1>1. TunnelInv => DeletedStays BY DEF TunnelInv, ReportedInv, DeletedStays
<1> QED BY DesktopStartInv, TunnelKept, <1>1, PTL DEF DesktopSpec

\* When the process is gone nothing typed is lost and no child runs, provided
\* nobody types between the answer of the page's guard and the exit.
THEOREM LeavesNothing == ASSUME LateEdits = FALSE PROVE DesktopSpec => []LeavesWell
<1>1. TypedInv /\ StoppedInv => LeavesWell BY DEF TypedInv, StoppedInv, LeavesWell
<1>2. ShellShape /\ TypedInv /\ [DesktopNext]_desktopVars => TypedInv' BY TypedKept
<1> QED BY DesktopStartInv, TunnelKept, ShellKept, <1>2, StoppedKept, <1>1, PTL DEF DesktopSpec

\* No child is left behind in any case.
THEOREM ChildrenEnd == DesktopSpec => [](shell = "gone" => ~backend /\ tunnel.child = Nothing)
<1>1. StoppedInv => (shell = "gone" => ~backend /\ tunnel.child = Nothing) BY DEF StoppedInv
<1> QED BY DesktopStartInv, TunnelKept, ShellKept, StoppedKept, <1>1, PTL DEF DesktopSpec
=============================================================================
