------------------------------- MODULE Editor -------------------------------
(* Editing one manuscript: the draft of a text area (SegmentTextArea.tsx),    *)
(* the operations of hooks/useEditor.ts and useFindReplace.ts, the undo       *)
(* history (useTranscriptHistory.ts) and the lock an AI edit holds.           *)
(*                                                                           *)
(* A keystroke changes a draft; 400 ms later, when the area loses the focus   *)
(* or before any other operation of the user, the draft becomes an edit of    *)
(* the manuscript.  An AI reads the manuscript after a flush, later locks the *)
(* editor, replaces texts, and lets go.  One text area has a draft at a time: *)
(* the focus leaves it first.                                                 *)
EXTENDS Segments

CONSTANTS Firsts,        \* the manuscripts to begin with
          Speakers,
          Pieces,        \* the texts that can be typed, and the replacements
          AITexts,
          Ops,           \* the operations the user is given
          MaxSteps,      \* operations and keystrokes
          Areas,         \* the segments the user types in
          MaxLetters,    \* letters of a segment when the user types
          MaxErased,     \* letters one keystroke replaces
          MaxHistory,
          None

VARIABLES doc,           \* the history: segs (present), past, future and key
          draft,         \* of the area that has one: seg, text, heard, edits
          prompt,        \* the two segments a merge is to be confirmed for
          lease,         \* of an AI: "none", "reading" or "held"
          steps
vars == <<doc, draft, prompt, lease, steps>>

Init == /\ \E segs \in Firsts : doc = [segs |-> segs, past |-> <<>>, future |-> <<>>, key |-> None]
        /\ draft = None /\ prompt = None /\ lease = "none" /\ steps = 0

Ids == {doc.segs[i].id : i \in DOMAIN doc.segs}
Fresh == 10 + steps
Step == /\ steps < MaxSteps /\ steps' = steps + 1

\* commit: a new present; what follows quickly under the same key is one entry.
Commit(h, segs, key, quick) ==
    [segs |-> segs, future |-> <<>>, key |-> key,
     past |-> IF quick /\ key # None /\ key = h.key THEN h.past
              ELSE LET all == Append(h.past, h.segs)
                   IN SubSeq(all, Max({1, Len(all) - MaxHistory + 1}), Len(all))]

\* The history once the draft is an edit; an emptied segment is removed.  What
\* cancels out is no edit (and its keystrokes are forgotten here).
Flushed(quick) ==
    IF draft = None \/ draft.text = SegmentAt(doc.segs, draft.seg).text THEN doc
    ELSE IF draft.text = <<>>
    THEN Commit(doc, RemoveSegmentAndMerge(doc.segs, draft.seg), None, quick)
    ELSE Commit(doc, Update(doc.segs, draft.seg, LAMBDA s : WithText(s, draft.text, draft.edits, draft.heard)),
                <<"text", draft.seg>>, quick)

\* Any operation of the user but typing: the focus has left the draft (base is
\* the history with it), no dialog is open and no AI holds the editor.
Operate(op) == /\ op \in Ops /\ prompt = None /\ lease # "held"
               /\ Step /\ draft' = None /\ UNCHANGED lease
Edit(op, base, segs, key, quick) == /\ Operate(op) /\ UNCHANGED prompt
                                    /\ doc' = Commit(base, segs, key, quick)

-----------------------------------------------------------------------------
(* The draft.                                                                 *)

Type(id, from, to, piece, placed) ==
    LET s == SegmentAt(doc.segs, id)
        before == IF draft = None THEN s.text ELSE draft.text
        heard == IF draft = None THEN s.heard ELSE draft.heard
        text == Spliced(before, from, to, piece)
        edit == [before |-> before, text |-> text, from |-> IF placed THEN from ELSE -1,
                 to |-> IF placed THEN to ELSE -1]
    IN /\ "type" \in Ops /\ prompt = None /\ lease # "held" /\ Step
       /\ (draft # None => draft.seg = id)
       /\ from <= to /\ to - from <= MaxErased /\ to <= Len(before) /\ text # before /\ Len(text) <= MaxLetters
       /\ draft' = [seg |-> id, text |-> text,
                    heard |-> IF placed THEN Spliced(heard, from, to, Typed(Len(piece)))
                              ELSE Typed(Len(text)),
                    edits |-> Append(IF draft = None THEN <<>> ELSE draft.edits, edit)]
       /\ UNCHANGED <<doc, prompt, lease>>

\* The timer of scheduleCommit, or the focus leaving the area.
CommitDraft(quick) == /\ draft # None /\ lease # "held"
                      /\ doc' = Flushed(quick)
                      /\ draft' = None /\ UNCHANGED <<prompt, lease, steps>>

-----------------------------------------------------------------------------
(* Operations on segments.                                                    *)

Split(base, id, k) ==
    /\ Has(base.segs, id) /\ Splittable(SegmentAt(base.segs, id).text, k)
    /\ Edit("split", base, SplitSegmentAt(base.segs, id, k, Fresh), None, FALSE)

\* mergeWithNext sees the manuscript of the last rendering: the draft of this
\* very event is not in it.  Speakers that differ are to be confirmed.
Merge(base, id) ==
    LET same == /\ HasNext(base.segs, id) /\ NextOf(base.segs, id).id = NextOf(doc.segs, id).id
                /\ SegmentAt(base.segs, id).speaker = NextOf(base.segs, id).speaker
    IN /\ HasNext(doc.segs, id) /\ Operate("merge")
       /\ IF SegmentAt(doc.segs, id).speaker = NextOf(doc.segs, id).speaker
          THEN /\ doc' = Commit(base, IF same THEN MergeSegmentWithNext(base.segs, id) ELSE base.segs, None, FALSE)
               /\ UNCHANGED prompt
          ELSE /\ doc' = base
               /\ prompt' = [current |-> SegmentAt(doc.segs, id), next |-> NextOf(doc.segs, id)]

\* canMergeSegments: the very segments of the question still stand together.
Unchanged(segs) == \E i \in 1 .. Len(segs) - 1 : /\ segs[i] = prompt.current
                                                 /\ segs[i + 1] = prompt.next
ConfirmMerge == /\ prompt # None /\ lease # "held" /\ Unchanged(doc.segs)
                /\ doc' = Commit(doc, MergeSegmentWithNext(doc.segs, prompt.current.id), None, FALSE)
                /\ prompt' = None /\ UNCHANGED <<draft, lease, steps>>
Cancel == /\ prompt # None /\ prompt' = None /\ UNCHANGED <<doc, draft, lease, steps>>

Mark(base, id, from, to) ==
    LET Toggle(s) == Toggled(s, from, to, Fresh)
    IN /\ Has(base.segs, id) /\ from < to /\ to <= Len(SegmentAt(base.segs, id).text)
       /\ \E quick \in BOOLEAN :
             Edit("mark", base, Update(base.segs, id, Toggle), <<"mark", id>>, quick)

Assign(base, id, speaker) ==
    LET Speak(s) == [s EXCEPT !.speaker = speaker]
    IN /\ Has(base.segs, id) /\ SegmentAt(base.segs, id).speaker # speaker
       /\ Edit("assign", base, Update(base.segs, id, Speak), None, FALSE)

MergeSpeaker(base, source, target) ==
    LET Respoken(s) == IF s.speaker = source THEN [s EXCEPT !.speaker = target] ELSE s
    IN /\ source # target
       /\ Edit("mergeSpeaker", base, [i \in DOMAIN base.segs |-> Respoken(base.segs[i])], None, FALSE)

Delete(base, id) == /\ Has(base.segs, id)
                    /\ Edit("delete", base, RemoveSegmentAndMerge(base.segs, id), None, FALSE)

ReplaceOne(base, id, k, query, by) ==
    /\ Has(base.segs, id) /\ k \in Occurrences(query, SegmentAt(base.segs, id).text)
    /\ Edit("replace", base, Update(base.segs, id, LAMBDA s : Replaced(s, k, query, by)), None, FALSE)
ReplaceEvery(base, query, by) ==
    /\ \E i \in DOMAIN base.segs : Occurrences(query, base.segs[i].text) # {}
    /\ Edit("replaceAll", base, [i \in DOMAIN base.segs |-> ReplacedAll(base.segs[i], query, by)],
            None, FALSE)

Undo(base) == /\ Operate("undo") /\ base.past # <<>> /\ UNCHANGED prompt
              /\ doc' = [segs |-> Last(base.past), past |-> Front(base.past),
                         future |-> <<base.segs>> \o base.future, key |-> None]
Redo(base) == /\ Operate("redo") /\ base.future # <<>> /\ UNCHANGED prompt
              /\ doc' = [segs |-> base.future[1], past |-> Append(base.past, base.segs),
                         future |-> Tail(base.future), key |-> None]

-----------------------------------------------------------------------------
(* An AI edits.  Preparing flushes the drafts; the lock comes later and makes *)
(* the areas read-only, which forgets what was typed in between.              *)

AIReads(base) == /\ lease = "none" /\ "ai" \in Ops /\ Step /\ lease' = "reading"
                 /\ doc' = base /\ draft' = None /\ UNCHANGED prompt
AILocks == /\ lease = "reading" /\ lease' = "held"
           /\ draft' = None /\ UNCHANGED <<doc, prompt, steps>>
AIEdit(id, text) ==
    /\ lease = "held" /\ Has(doc.segs, id) /\ text # SegmentAt(doc.segs, id).text /\ Step
    /\ doc' = Commit(doc, Update(doc.segs, id, LAMBDA s : WithAIText(s, text)), <<"ai", steps>>, FALSE)
    /\ UNCHANGED <<draft, prompt, lease>>
AIReleases == /\ lease \in {"reading", "held"} /\ lease' = "none"
              /\ UNCHANGED <<doc, draft, prompt, steps>>

Offsets == 0 .. MaxLetters
Operation(base) ==
    \/ \E id \in Ids, k \in Offsets : Split(base, id, k)
    \/ \E id \in Ids : Merge(base, id) \/ Delete(base, id)
    \/ \E id \in Ids, from, to \in Offsets : Mark(base, id, from, to)
    \/ \E id \in Ids, speaker \in Speakers : Assign(base, id, speaker)
    \/ \E source, target \in Speakers : MergeSpeaker(base, source, target)
    \/ \E query \in Pieces, by \in Pieces \cup {<<>>} :
          \/ ReplaceEvery(base, query, by)
          \/ \E id \in Ids, k \in Offsets : ReplaceOne(base, id, k, query, by)
    \/ Undo(base) \/ Redo(base) \/ AIReads(base)
Next ==
    \/ \E id \in Ids \cap Areas, from, to \in Offsets, piece \in Pieces \cup {<<>>}, placed \in BOOLEAN :
          Type(id, from, to, piece, placed)
    \/ \E quick \in BOOLEAN : CommitDraft(quick)
    \/ steps < MaxSteps /\ \E base \in {Flushed(FALSE)} : Operation(base)
    \/ \E id \in Ids, text \in AITexts : AIEdit(id, text)
    \/ ConfirmMerge \/ Cancel \/ AILocks \/ AIReleases
Spec == Init /\ [][Next]_vars

-----------------------------------------------------------------------------
(* Properties.                                                                *)

Segs == {doc.segs[i] : i \in DOMAIN doc.segs}

\* After every operation the words of a segment spell its text (the "exact
\* partition" of reanchorCharacters), whatever was cut, joined or typed; only
\* words of an older file are left as they are when nothing of them remains.
WordsSpellText ==
    \A s \in Segs : s.words # <<>> /\ Joined(s.words) # s.text
                    => ~Sourced(s.words) /\ ToSet(s.heard) \subseteq {0}

\* "A timestamp belongs to the moment a character was spoken": a letter that the
\* user has left alone is still heard when it was spoken, unless the code says
\* that it does not know (unresolved).
SurvivorsKeepTime ==
    \A s \in Segs : Sourced(s.words) =>
        LET letters == Letters(s.words)
            keeps(letter, o) == o # 0 /\ letter.timing # "unresolved"
                                => letter.start = Heard(o).start /\ letter.end = Heard(o).end
        IN \A k \in DOMAIN s.text : keeps(letters[k], s.heard[k])

\* When a text is aligned with the one before, both methods find a longest
\* common subsequence: halving, for large texts, loses nothing.
IsAlignment(pairs, a, b) ==
    /\ Cardinality(pairs) = LcsLengths(a, b)[1, 1]
    /\ \A p \in pairs : b[p[1]] = a[p[2]]
    /\ \A p, q \in pairs : (p[1] < q[1]) <=> (p[2] < q[2])
AlignedExactly ==
    [][\A s \in Segs : \A t \in Segs' : s.id = t.id /\ s.text # t.text =>
          /\ IsAlignment(ByHalves(s.text, t.text), s.text, t.text)
          /\ IsAlignment(ByMatrix(s.text, t.text), s.text, t.text)]_vars
=============================================================================
