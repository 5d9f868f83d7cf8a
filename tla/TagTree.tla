------------------------------ MODULE TagTree ------------------------------
(* The tags of a project and what an operation makes of them and of the     *)
(* versions that use them: frontend/src/lib/tags.ts, tagCollections.ts and  *)
(* tagBatch.ts.  A library maps the ids of its tags to a name and a parent; *)
(* a row is what one version keeps of tags: the ids it admits and those of  *)
(* each of its segments.  An operation that throws yields None.  The order  *)
(* of siblings and the retired groups are left out.                         *)
EXTENDS Naturals, Sequences, SequencesExt

CONSTANT None

Root == 0
Tag(name, parent) == [name |-> name, parent |-> parent]

-----------------------------------------------------------------------------
(* The tree.                                                                *)
Above(lib) == LET up[t \in DOMAIN lib] ==
                      IF lib[t].parent = Root THEN {} ELSE {lib[t].parent} \cup up[lib[t].parent]
              IN up
Branch(lib, t) == {s \in DOMAIN lib : s = t \/ t \in Above(lib)[s]}
Named(lib, name) == {t \in DOMAIN lib : lib[t].name = name}
Without(lib, ts) == [t \in DOMAIN lib \ ts |-> lib[t]]
WithTag(lib, t, tag) == [s \in DOMAIN lib \cup {t} |-> IF s \in DOMAIN lib THEN lib[s] ELSE tag]

\* isTagLibrary(): parents exist, and no two tags have one path.
IsLibrary(lib) ==
    /\ \A t \in DOMAIN lib : lib[t].parent \in DOMAIN lib \cup {Root}
    /\ IsInjective(lib)

\* assertTagNameChange(): duplicates of earlier versions stay, new ones do not appear.
MayBecome(lib, next) == \A t \in DOMAIN next :
    LET ids == Named(next, next[t].name) IN ids = {t} \/ ids \subseteq Named(lib, next[t].name)

\* setTagPath(): the tag of a path, with what is missing of it made.  Ids from
\* fresh on were never used.
Made(lib, path, fresh) ==
    LET at[i \in 0..Len(path)] ==
          IF i = 0 THEN [lib |-> lib, tag |-> Root]
          ELSE LET was == at[i - 1]
                   new == Tag(path[i], was.tag)
                   found == {t \in DOMAIN was.lib : was.lib[t] = new}
               IN IF found # {} THEN [was EXCEPT !.tag = CHOOSE t \in found : TRUE]
                  ELSE [lib |-> WithTag(was.lib, fresh + i, new), tag |-> fresh + i]
        made == at[Len(path)]
    IN IF MayBecome(lib, made.lib) THEN made ELSE None

\* resolveTagInput(): one name finds the tag of this name wherever it is.
Resolved(lib, path, fresh) ==
    LET same == Named(lib, path[1]) IN
    IF Len(path) = 1 /\ Cardinality(same) > 1 THEN None
    ELSE IF Len(path) = 1 /\ same # {} THEN [lib |-> lib, tag |-> CHOOSE t \in same : TRUE]
    ELSE Made(lib, path, fresh)

-----------------------------------------------------------------------------
(* What a version keeps of tags.                                            *)
\* withAncestors()
Closed(lib, ids) == ids \cup UNION {Above(lib)[t] : t \in ids}

\* validateTagCollection(): with a tag all that is above it is there, that is with
\* each of them its parent.
IsCollection(lib, ids) ==
    /\ ids \subseteq DOMAIN lib
    /\ \A t \in ids : lib[t].parent \in ids \cup {Root}
    /\ \A s, t \in ids : lib[s].name = lib[t].name => s = t

\* admitTags()
Admitted(lib, row, ts) ==
    LET ids == Closed(lib, row.ids \cup ts) IN
    IF row.ids \cup ts \subseteq DOMAIN lib /\ IsCollection(lib, ids) THEN [row EXCEPT !.ids = ids] ELSE None

Only(row, ts) == [ids |-> row.ids \cap ts, segs |-> [s \in DOMAIN row.segs |-> row.segs[s] \cap ts]]

\* Each id of a row becomes another.
Mapped(row, f) == [ids |-> {f[t] : t \in row.ids}, segs |-> [s \in DOMAIN row.segs |-> {f[t] : t \in row.segs[s]}]]

Outcome(lib, rows) ==
    IF IsLibrary(lib) /\ \A v \in DOMAIN rows : rows[v] # None /\ IsCollection(lib, rows[v].ids)
    THEN [lib |-> lib, rows |-> rows] ELSE None

-----------------------------------------------------------------------------
(* The operations: of a library and the rows of the versions that are read. *)
\* A tag is admitted by version v, and given to its segment s unless that is 0.
Give(rows, v, s, made) ==
    IF made = None THEN None
    ELSE LET row == Admitted(made.lib, rows[v], {made.tag}) IN
         IF row = None THEN None
         ELSE Outcome(made.lib, [rows EXCEPT ![v] =
                  IF s \in DOMAIN row.segs THEN [row EXCEPT !.segs[s] = @ \cup {made.tag}] ELSE row])

Unassign(lib, rows, v, s, t) == Outcome(lib, [rows EXCEPT ![v].segs[s] = @ \ {t}])

\* removeVersionTagBranch()
DropBranch(lib, rows, v, t) == Outcome(lib, [rows EXCEPT ![v] = Only(@, DOMAIN lib \ Branch(lib, t))])

\* The project's library becomes another one, and what it lacks is gone everywhere.
Become(lib, next, rows) ==
    IF ~MayBecome(lib, next) THEN None
    ELSE Outcome(next, [v \in DOMAIN rows |->
             LET row == Only(rows[v], DOMAIN next) IN [row EXCEPT !.ids = Closed(next, @)]])

\* The place of each tag of a branch when the branch gets a name below a parent:
\* a tag outside of the branch that has the place already takes it over.
Placed(lib, t, parent, name) ==
    LET place[u \in Branch(lib, t)] ==
            LET new == IF u = t THEN Tag(name, parent) ELSE Tag(lib[u].name, place[lib[u].parent].id)
                there == {m \in DOMAIN lib \ Branch(lib, t) : lib[m] = new}
            IN [id |-> IF there = {} THEN u ELSE CHOOSE m \in there : TRUE, tag |-> new]
    IN place

\* changeSharedTag(): tags that become one must be meant to.
Displaced(lib, base, rows, place, merge) ==
    LET to == [u \in DOMAIN base |-> IF u \in DOMAIN place THEN place[u].id ELSE u]
        next == [u \in {to[x] : x \in DOMAIN base} |-> IF u \in DOMAIN place THEN place[u].tag ELSE base[u]]
        moved == [v \in DOMAIN rows |-> LET row == Mapped(rows[v], to) IN [row EXCEPT !.ids = Closed(next, @)]]
    IN IF MayBecome(lib, next) /\ ((\E u \in DOMAIN place : to[u] # u) => merge) THEN Outcome(next, moved) ELSE None
Moved(lib, base, rows, t, parent, name, merge) == Displaced(lib, base, rows, Placed(base, t, parent, name), merge)

\* A name that another tag has, below whatever parent, stands for that tag.
Share(lib, rows, t, path, merge, fresh) ==
    LET above == IF Len(path) = 1 THEN [lib |-> lib, tag |-> Root] ELSE Made(lib, Front(path), fresh)
        same == Named(lib, Last(path)) \ Branch(lib, t)
    IN IF above = None THEN None
       ELSE IF above.tag \in Branch(above.lib, t) THEN None
       ELSE IF same = {} \/ \E u \in same : lib[u].parent = above.tag
            THEN Moved(lib, above.lib, rows, t, above.tag, Last(path), merge)
       ELSE IF Cardinality(same) > 1 THEN None
       ELSE Moved(lib, lib, rows, t, lib[CHOOSE u \in same : TRUE].parent, Last(path), merge)

\* applyTagBatch() and the commands of useProjectTags.
Apply(lib, rows, v, c, fresh) ==
    CASE c.act = "create" -> Give(rows, v, c.seg, Made(lib, c.path, fresh))
      [] c.act = "add" -> Give(rows, v, c.seg, Resolved(lib, c.path, fresh))
      [] c.act = "become" -> Become(lib, c.lib, rows)
      [] c.act \in {"assign", "unassign", "drop", "share", "delete"} ->
           IF c.tag \notin DOMAIN lib THEN None
           ELSE CASE c.act = "assign" -> Give(rows, v, c.seg, [lib |-> lib, tag |-> c.tag])
                  [] c.act = "unassign" -> Unassign(lib, rows, v, c.seg, c.tag)
                  [] c.act = "drop" -> DropBranch(lib, rows, v, c.tag)
                  [] c.act = "share" -> Share(lib, rows, c.tag, c.path, c.merge, fresh)
                  [] c.act = "delete" -> Become(lib, Without(lib, Branch(lib, c.tag)), rows)

\* tagBatchScope() and the scopes the commands give: a shared change reads and
\* writes every version, the others the one they are made in.
IsShared(c) == c.act \in {"share", "delete", "become"}
=============================================================================
