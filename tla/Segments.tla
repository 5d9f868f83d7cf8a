------------------------------- MODULE Segments -------------------------------
(* The pure operations on the segments of a transcript:                      *)
(* frontend/src/lib/segmentOps.ts, the updaters of hooks/useEditor.ts and    *)
(* useFindReplace.ts, mergeHighlights of lib/highlights.ts and the text edit *)
(* of the AI in lib/aiVersionEdits.ts.                                       *)
(*                                                                           *)
(* A segment has an identity, a speaker, a window, a text with its words and *)
(* its marks (highlights: an identity and the offsets from and to).  The     *)
(* field heard is not in the code: which letter of the recording each letter *)
(* is to the user, 0 for one that was typed.  Speakers of words, tags and    *)
(* annotations are left out.                                                 *)
EXTENDS TextAlign

Newline == "n"
Visible(letter) == letter # Newline
Typed(n) == [i \in 1 .. n |-> 0]
TrimmedEnd(text) == SelectLastInSeq(text, Visible)
TrimmedStart(text) == LET k == SelectInSeq(text, Visible) IN IF k = 0 THEN Len(text) ELSE k - 1
TrimEnd(text) == Slice(text, 0, TrimmedEnd(text))
TrimStart(text) == Slice(text, TrimmedStart(text), Len(text))

\* seedOriginalOrigins: every letter a word of its own, with its moment.
Seeded(first, text) ==
    [k \in DOMAIN text |-> [text |-> <<text[k]>>, timing |-> "source", origins |-> {first + k},
                            start |-> Heard(first + k).start, end |-> Heard(first + k).end]]

IndexOf(segments, id) == SelectInSeq(segments, LAMBDA s : s.id = id)
Has(segments, id) == IndexOf(segments, id) # 0
SegmentAt(segments, id) == segments[IndexOf(segments, id)]
Update(segments, id, Op(_)) == [i \in DOMAIN segments |->
                                  IF segments[i].id = id THEN Op(segments[i]) ELSE segments[i]]

-----------------------------------------------------------------------------
(* Merging.                                                                   *)

JoinParagraphs(first, second) ==
    IF TrimEnd(first) = <<>> THEN TrimStart(second)
    ELSE IF TrimStart(second) = <<>> THEN TrimEnd(first)
    ELSE TrimEnd(first) \o <<Newline>> \o TrimStart(second)

MergeWordsUnfitted(s, t, merged) == s.words \o t.words
AlignedWords(u) == IF u.words = <<>> THEN <<Plain(u.text, u.start, u.start)>>
                   ELSE AlignTimestampWords(u.words, u.text)
WordsWithBreak(s, t) ==
    LET left == Len(TrimEnd(s.text))
        right == Len(TrimStart(t.text))
        timed(u) == \E i \in DOMAIN u.words : u.words[i].timing # "none"
        between == [Plain(<<Newline>>, s.end, s.end) EXCEPT
                      !.timing = IF timed(s) \/ timed(t) THEN "approximate" ELSE "none"]
    IN Slices(AlignedWords(s), 0, left, PartUnscaled)
       \o (IF left > 0 /\ right > 0 THEN <<between>> ELSE <<>>)
       \o Slices(AlignedWords(t), Len(t.text) - right, Len(t.text), PartUnscaled)
FittedWords(words, s, t, merged) ==
    IF Joined(words) = merged THEN words
    ELSE ReanchorCharacters(s.words \o t.words, s.text \o t.text, merged, Unplaced)
MergeWords(s, t, merged) ==
    IF s.words = <<>> /\ t.words = <<>> THEN <<>> ELSE FittedWords(WordsWithBreak(s, t), s, t, merged)

Merged(s, t) ==
    LET text == JoinParagraphs(s.text, t.text)
        left == SubSeq(s.heard, 1, Len(TrimEnd(s.text)))
        right == SubSeq(t.heard, Len(t.text) - Len(TrimStart(t.text)) + 1, Len(t.text))
        moved == {[m EXCEPT !.from = @ + Len(s.text), !.to = @ + Len(s.text)] : m \in t.marks}
    IN [s EXCEPT !.start = Min({s.start, t.start}), !.end = Max({s.end, t.end}),
                 !.text = text,
                 !.words = MergeWords(s, t, text),
                 !.marks = ReanchorRanges(s.marks \cup moved, s.text \o t.text, text),
                 !.heard = IF left = <<>> \/ right = <<>> THEN left \o right
                           ELSE left \o <<0>> \o right]

\* mergeSegmentWithNext; the caller has looked that there is a next one.
HasNext(segments, id) == IndexOf(segments, id) \in 1 .. Len(segments) - 1
NextOf(segments, id) == segments[IndexOf(segments, id) + 1]
MergeSegmentWithNext(segments, id) ==
    LET i == IndexOf(segments, id)
    IN RemoveAt([segments EXCEPT ![i] = Merged(@, segments[i + 1])], i + 1)

\* removeSegmentAndMerge: the neighbours become one if they speak the same.
RemoveSegmentAndMerge(segments, id) ==
    LET i == IndexOf(segments, id)
        remaining == RemoveAt(segments, i)
    IN IF i \in 2 .. Len(segments) - 1 /\ segments[i - 1].speaker = segments[i + 1].speaker
       THEN MergeSegmentWithNext(remaining, segments[i - 1].id) ELSE remaining

-----------------------------------------------------------------------------
(* Splitting.  The marks of a half keep the identities of the whole.          *)

Splittable(text, k) == /\ 0 < k /\ k < Len(text)
                       /\ TrimEnd(Slice(text, 0, k)) # <<>>
                       /\ TrimStart(Slice(text, k, Len(text))) # <<>>

SplitInto(segments, i, k, words, time, newId) ==
    LET s == segments[i]
        text == s.text
        first == Len(TrimEnd(Slice(text, 0, k)))
        second == Len(text) - Len(TrimStart(Slice(text, k, Len(text))))
        marks(from, to) == {[m EXCEPT !.from = Max({from, @}) - from, !.to = Min({to, @}) - from] :
                              m \in {x \in s.marks : x.to > from /\ x.from < to}}
        half(from, to) == [s EXCEPT !.text = Slice(text, from, to),
                                    !.words = SliceTimestampWords(words, from, to),
                                    !.marks = marks(from, to),
                                    !.heard = Slice(@, from, to)]
    IN InsertAt([segments EXCEPT ![i] = [half(0, first) EXCEPT !.end = time]], i + 1,
                [half(second, Len(text)) EXCEPT !.start = time, !.id = newId])
SplitSegmentAt(segments, id, k, newId) ==
    LET s == SegmentAt(segments, id)
    IN SplitInto(segments, IndexOf(segments, id), k, ReanchorCharacters(s.words, s.text, s.text, Unplaced),
                 TimeForCharacter(s, k), newId)

-----------------------------------------------------------------------------
(* Text and marks.                                                            *)

\* updateSegment with a text, and the edits that led to it.
WithText(s, text, edits, heard) ==
    [s EXCEPT !.text = text, !.heard = heard,
              !.words = ReanchorTextEdits(s.words, s.text, text, edits),
              !.marks = ReanchorRanges(s.marks, s.text, text)]

\* replaceAt, and the replacement of one match or, from the end, of all.
Replaced(s, k, query, by) ==
    LET text == Spliced(s.text, k, k + Len(query), by)
    IN [s EXCEPT !.text = text,
                 !.heard = Spliced(@, k, k + Len(query), Typed(Len(by))),
                 !.words = ReanchorCharacters(@, s.text, text, [from |-> k, to |-> k + Len(query)]),
                 !.marks = ReanchorRanges(@, s.text, text)]

\* indexOf from the end of the match before: matches do not overlap.
Matches(text, query) ==
    LET found == Occurrences(query, text)
        taken[k \in 0 .. Len(text)] == /\ k \in found
                                       /\ \A j \in 0 .. k - 1 : j + Len(query) > k => ~taken[j]
    IN {k \in found : taken[k]}
ReplacedAll(s, query, by) ==
    LET last == SetToSortSeq(Matches(s.text, query), LAMBDA i, j : i > j)
        Ranged(all) == [all EXCEPT !.marks = ReanchorRanges(@, s.text, all.text)]
    IN Ranged(FoldLeft(LAMBDA t, k : [Replaced(t, k, query, by) EXCEPT !.marks = t.marks], s, last))

\* mergeHighlights: what overlaps or adjoins becomes one, named by the first.
MergeHighlights(marks, mark) ==
    LET Add(sofar, m) ==
            IF sofar # <<>> /\ m.from <= Last(sofar).to
            THEN [sofar EXCEPT ![Len(sofar)].to = Max({@, m.to})] ELSE Append(sofar, m)
        before(m1, m2) == m1.from < m2.from \/ (m1.from = m2.from /\ m1.to < m2.to)
    IN ToSet(FoldLeft(Add, <<>>, SetToSortSeq(marks \cup {mark}, before)))

\* toggleHighlight drops, by their identities, the marks the selection meets.
Toggled(s, from, to, id) ==
    LET met == {m.id : m \in {x \in s.marks : x.from < to /\ x.to > from}}
    IN [s EXCEPT !.marks = IF met # {} THEN {m \in @ : m.id \notin met}
                           ELSE MergeHighlights(@, [id |-> id, from |-> from, to |-> to])]

\* applyAiEdits: the text of an AI comes without a place.
WithAIText(s, text) ==
    [s EXCEPT !.text = text, !.heard = Typed(Len(text)),
              !.words = ReanchorCharacters(@, s.text, text, Unplaced),
              !.marks = ReanchorRanges(@, s.text, text)]
=============================================================================
