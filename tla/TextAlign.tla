------------------------------ MODULE TextAlign ------------------------------
(* The pure functions that keep the moments of speech at the characters of a *)
(* text while it is edited: frontend/src/lib/transcriptOps.ts, with          *)
(* wordOrigins.ts and timestampSlices.ts.                                    *)
(*                                                                           *)
(* A text is a sequence of letters.  A word has its text, its window of the  *)
(* recording, how the window is known (timing) and the moments of the        *)
(* original it comes from (origins; the code merges those that adjoin, which *)
(* a set does by itself).  An offset counts the letters before it.           *)
EXTENDS Integers, Sequences, SequencesExt, FiniteSetsExt

CONSTANTS MatrixLimit,  \* n * m of the code's 250000: from here on by halves
          Width         \* the length of the window in which a letter is heard

ASSUME LimitAssumption == MatrixLimit \in Nat /\ Width \in Nat \ {0}

Heard(o) == [start |-> (o - 1) * Width, end |-> o * Width]
Slice(text, from, to) == SubSeq(text, from + 1, to)
Spliced(text, from, to, added) == Slice(text, 0, from) \o added \o Slice(text, to, Len(text))
Occurrences(part, text) == {k \in 0 .. Len(text) - Len(part) : Slice(text, k, k + Len(part)) = part}

-----------------------------------------------------------------------------
(* Longest common subsequences.  An alignment is a set of pairs of positions *)
(* <<in b, in a>>.                                                            *)

LcsLengths(a, b) ==
    LET length[i \in 1 .. Len(a) + 1, j \in 1 .. Len(b) + 1] ==
            IF i > Len(a) \/ j > Len(b) THEN 0
            ELSE IF a[i] = b[j] THEN length[i + 1, j + 1] + 1
            ELSE Max({length[i + 1, j], length[i, j + 1]})
    IN length

ByMatrix(a, b) ==
    LET length == LcsLengths(a, b)
        from[i \in 1 .. Len(a) + 1, j \in 1 .. Len(b) + 1] ==
            IF i > Len(a) \/ j > Len(b) THEN {}
            ELSE IF a[i] = b[j] THEN {<<j, i>>} \cup from[i + 1, j + 1]
            ELSE IF length[i + 1, j] >= length[i, j + 1] THEN from[i + 1, j]
            ELSE from[i, j + 1]
    IN from[1, 1]

\* scores(): one row of the matrix after the other, of which the last is kept.
NextRow(b, row, letter) ==
    LET next[j \in 0 .. Len(b)] ==
            IF j = 0 THEN 0
            ELSE IF letter = b[j] THEN row[j - 1] + 1
            ELSE Max({row[j], next[j - 1]})
    IN next
Scores(a, b) == FoldLeft(LAMBDA row, letter : NextRow(b, row, letter), [j \in 0 .. Len(b) |-> 0], a)

\* Hirschberg's method: a is halved, and b where the halves fit it best.
FirstBest(score) == Min({j \in DOMAIN score : \A k \in DOMAIN score : score[k] <= score[j]})
SplitAt(left, right, n) == FirstBest([j \in 0 .. n |-> left[j] + right[n - j]])
BestSplitUnreversed(a1, a2, b) == SplitAt(Scores(a1, b), Scores(a2, b), Len(b))
BestSplit(a1, a2, b) == SplitAt(Scores(a1, b), Scores(Reverse(a2), Reverse(b)), Len(b))

FirstPair(places, i) == IF places = {} THEN {} ELSE {<<Min(places), i>>}
ByHalves(a, b) ==
    LET align[a0 \in 0 .. Len(a), a1 \in 0 .. Len(a), b0 \in 0 .. Len(b), b1 \in 0 .. Len(b)] ==
            IF a0 = a1 \/ b0 = b1 THEN {}
            ELSE IF a1 - a0 = 1 THEN FirstPair({j \in b0 + 1 .. b1 : b[j] = a[a1]}, a1)
            ELSE LET mid == (a0 + a1) \div 2
                 IN UNION {align[a0, mid, b0, split] \cup align[mid, a1, split, b1] :
                      split \in {b0 + BestSplit(Slice(a, a0, mid), Slice(a, mid, a1), Slice(b, b0, b1))}}
    IN align[0, Len(a), 0, Len(b)]

LcsAlignment(a, b) == IF Len(a) * Len(b) > MatrixLimit THEN ByHalves(a, b) ELSE ByMatrix(a, b)

\* mapCharsByDiff: the common prefix, the common suffix, and the middle aligned.
MapBetween(prefix, suffix, old, new) ==
    {<<k, k>> : k \in 1 .. prefix}
    \cup {<<Len(new) - k, Len(old) - k>> : k \in 0 .. suffix - 1}
    \cup {<<prefix + p[1], prefix + p[2]>> :
             p \in LcsAlignment(Slice(old, prefix, Len(old) - suffix), Slice(new, prefix, Len(new) - suffix))}
MapAfter(prefix, old, new) ==
    LET reversed(text) == Reverse(Slice(text, prefix, Len(text)))
    IN MapBetween(prefix, Len(LongestCommonPrefix({reversed(old), reversed(new)})), old, new)
MapCharsByDiff(old, new) == MapAfter(Len(LongestCommonPrefix({old, new})), old, new)

\* The position in the old text of the i-th new letter, 0 for one that was typed.
Origin(mapping, i) == IF \E p \in mapping : p[1] = i
                      THEN (CHOOSE p \in mapping : p[1] = i)[2] ELSE 0

-----------------------------------------------------------------------------
(* Words.                                                                     *)

Plain(text, start, end) == [text |-> text, start |-> start, end |-> end,
                            timing |-> "none", origins |-> {}]
Timed(word) == word.end > word.start
Sourced(words) == \E i \in DOMAIN words : words[i].timing # "none" \/ words[i].origins # {}

Joined(words) == FlattenSeq([i \in DOMAIN words |-> words[i].text])
Owners(words) == FlattenSeq([i \in DOMAIN words |-> [k \in 1 .. Len(words[i].text) |-> i]])
Offset(words, i) == Len(Joined(SubSeq(words, 1, i - 1)))

\* The time at an offset inside a word, interpolated and rounded down.
At(word, k) == word.start + ((word.end - word.start) * k) \div Len(word.text)
Part(word, from, to) == [word EXCEPT !.text = Slice(@, from, to),
                                     !.start = At(word, from), !.end = At(word, to)]
PartUnscaled(word, from, to) == [word EXCEPT !.text = Slice(@, from, to)]
Slices(words, from, to, Piece(_, _, _)) ==
    LET first(i) == Max({0, from - Offset(words, i)})
        last(i) == Min({Len(words[i].text), to - Offset(words, i)})
    IN FlattenSeq([i \in DOMAIN words |->
                      IF last(i) > first(i) THEN <<Piece(words[i], first(i), last(i))>> ELSE <<>>])
SliceTimestampWords(words, from, to) == Slices(words, from, to, Part)

Letters(words) == FlattenSeq([i \in DOMAIN words |->
                      [k \in 1 .. Len(words[i].text) |-> Part(words[i], k - 1, k)]])

\* alignTimestampWords: letters keep the word they belong to, the others stand
\* without width at the end of the word before them.
OwnerAt(owners, o) == IF o = 0 THEN 0 ELSE owners[o]
AddAligned(words, sofar, k, letter) ==
    [owner |-> k,
     anchor |-> IF k # 0 /\ Timed(words[k]) THEN words[k].end ELSE sofar.anchor,
     words |-> IF k = sofar.owner
               THEN [sofar.words EXCEPT ![Len(sofar.words)].text = Append(@, letter)]
               ELSE Append(sofar.words, IF k = 0 THEN Plain(<<letter>>, sofar.anchor, sofar.anchor)
                                        ELSE [words[k] EXCEPT !.text = <<letter>>])]
AlignBy(mapping, owners, words, text) ==
    LET timed == SelectSeq(words, Timed)
        start == [owner |-> -1, words |-> <<>>, anchor |-> IF timed = <<>> THEN 0 ELSE timed[1].start]
    IN FoldLeft(LAMBDA sofar, i : AddAligned(words, sofar, OwnerAt(owners, Origin(mapping, i)), text[i]),
                start, [i \in DOMAIN text |-> i]).words
AlignTimestampWords(words, text) ==
    IF Joined(words) = text THEN words ELSE AlignBy(MapCharsByDiff(Joined(words), text), Owners(words), words, text)

-----------------------------------------------------------------------------
(* Edits.  One with its place has the offsets of the letters it replaces;    *)
(* from = -1 stands for an input that came without a selection.              *)

Unplaced == [from |-> -1, to |-> -1]

\* editSourcedWords: letters the mapping keeps stay as they are; what is added
\* between them is the moved text of this edit, or stands for what it replaces.
Replacement(letters, added, removed, oldEnd, oldOffset) ==
    LET near == IF removed # <<>> THEN removed
                ELSE IF oldOffset >= 1 THEN <<letters[oldOffset]>>
                ELSE IF oldEnd < Len(letters) THEN <<letters[oldEnd + 1]>> ELSE <<>>
        origins == UNION {near[i].origins : i \in DOMAIN near}
        replaces == \E i \in DOMAIN removed : /\ removed[i].origins # {}
                                              /\ removed[i].timing \in {"source", "replacement"}
        place == IF removed # <<>> THEN removed[1].start
                 ELSE IF oldOffset >= 1 THEN letters[oldOffset].end
                 ELSE IF oldEnd < Len(letters) THEN letters[oldEnd + 1].start ELSE 0
    IN [text |-> added, origins |-> origins,
        start |-> IF replaces THEN Min({Heard(o).start : o \in origins}) ELSE place,
        end |-> IF replaces THEN Max({Heard(o).end : o \in origins}) ELSE place,
        timing |-> IF replaces THEN "replacement"
                   ELSE IF origins # {} THEN "approximate" ELSE "unresolved"]
AddText(letters, old, sofar, added, oldEnd) ==
    LET places == Occurrences(added, old)
        range(k) == k + 1 .. k + Len(added)
    IN IF added = <<>> THEN sofar
       ELSE IF Cardinality(places) = 1 /\ \A k \in places : range(k) \cap sofar.used = {}
       THEN LET k == CHOOSE k \in places : TRUE
            IN [sofar EXCEPT !.words = @ \o Slice(letters, k, k + Len(added)), !.used = @ \cup range(k)]
       ELSE [sofar EXCEPT !.words = Append(@, Replacement(letters, added,
                Slice(letters, sofar.oldOffset, oldEnd), oldEnd, sofar.oldOffset))]
AddChange(letters, old, new, sofar, oldEnd, newEnd) ==
    AddText(letters, old, sofar, Slice(new, sofar.newOffset, newEnd), oldEnd)
AddLetter(letters, old, new, sofar, o, i) ==
    IF o <= sofar.oldOffset THEN sofar
    ELSE [AddChange(letters, old, new, sofar, o - 1, i - 1)
             EXCEPT !.words = Append(@, letters[o]), !.oldOffset = o, !.newOffset = i]
EditLetters(letters, old, new, mapping) ==
    AddChange(letters, old, new,
              FoldLeft(LAMBDA sofar, i : AddLetter(letters, old, new, sofar, Origin(mapping, i), i),
                       [used |-> {p[2] : p \in mapping}, words |-> <<>>, oldOffset |-> 0, newOffset |-> 0],
                       [i \in DOMAIN new |-> i]),
              Len(old), Len(new)).words
EditSourcedWords(words, old, new, mapping) == EditLetters(Letters(words), old, new, mapping)

\* The words of a file that predates origins: a typed letter joins the word
\* before it, or after it at the start.
Nearest(owned, i) == LET before == {k \in owned : k <= i} IN IF before # {} THEN Max(before) ELSE Min(owned)
PlainAt(places, new, word) ==
    IF places = {} THEN <<>> ELSE <<Plain(SubSeq(new, Min(places), Max(places)), word.start, word.end)>>
EditPlainBy(mapping, owned, owners, words, new) ==
    IF owned = {} THEN words
    ELSE FlattenSeq([w \in DOMAIN words |->
            PlainAt({i \in DOMAIN new : owners[Origin(mapping, Nearest(owned, i))] = w}, new, words[w])])
EditPlainWords(words, old, new) == LET mapping == MapCharsByDiff(old, new)
    IN EditPlainBy(mapping, {p[1] : p \in mapping}, Owners(words), words, new)

IsPlacedNever(edit, old, new) == FALSE

\* The mapping of an edit whose place is known and agrees with the texts.
IsPlaced(edit, old, new) ==
    LET added == Len(new) - (Len(old) - (edit.to - edit.from))
    IN /\ 0 <= edit.from /\ edit.from <= edit.to /\ edit.to <= Len(old) /\ added >= 0
       /\ new = Spliced(old, edit.from, edit.to, Slice(new, edit.from, edit.from + added))
PlacedMapping(edit, old, new) ==
    {<<i, i>> : i \in 1 .. edit.from}
    \cup {<<i + Len(new) - Len(old), i>> : i \in edit.to + 1 .. Len(old)}

Unresolved(words) == [i \in DOMAIN words |->
                        [words[i] EXCEPT !.timing = "unresolved", !.origins = {}]]

Doubted(edited, old, new) == IF Cardinality(Occurrences(new, old)) > 1 THEN Unresolved(edited) ELSE edited
EditAligned(words, old, new, edit) ==
    IF ~Sourced(words) THEN EditPlainWords(words, old, new)
    ELSE IF old = new THEN words
    ELSE IF IsPlaced(edit, old, new) THEN EditSourcedWords(words, old, new, PlacedMapping(edit, old, new))
    ELSE Doubted(EditSourcedWords(words, old, new, MapCharsByDiff(old, new)), old, new)
ReanchorCharacters(words, old, new, edit) ==
    IF words = <<>> \/ new = <<>> THEN <<>>
    ELSE EditAligned(AlignTimestampWords(words, old), old, new, edit)

\* reanchorTextEdits: one edit after the other while they fit together.
EditAfter(sofar, edit) ==
    LET fits == sofar.fits /\ edit.before = sofar.text
    IN [fits |-> fits, text |-> edit.text,
        words |-> IF fits THEN ReanchorCharacters(sofar.words, sofar.text, edit.text, edit) ELSE sofar.words]
AllOrOne(all, words, before, text) ==
    IF all.fits /\ all.text = text THEN all.words ELSE ReanchorCharacters(words, before, text, Unplaced)
ReanchorTextEdits(words, before, text, edits) ==
    AllOrOne(FoldLeft(EditAfter, [fits |-> TRUE, text |-> before, words |-> words], edits), words, before, text)

\* reanchorRanges: a mark spans what is left of the letters it covered.
RangesIn(mapping, marks) ==
    LET kept(mark) == {p[1] : p \in {q \in mapping : q[2] \in mark.from + 1 .. mark.to}}
    IN {[mark EXCEPT !.from = Min(kept(mark)) - 1, !.to = Max(kept(mark))] :
           mark \in {m \in marks : kept(m) # {}}}
ReanchorRanges(marks, old, new) == IF old = new THEN marks ELSE RangesIn(MapCharsByDiff(old, new), marks)

\* timeForCharacter: when the letter at this offset of a segment is heard.
TimeInWords(words, segment, k) ==
    LET timed(n) == SelectSeq(SubSeq(words, 1, n), Timed)
        i == Owners(words)[k + 1]
        all == timed(Len(words))
    IN IF all = <<>> \/ segment.text = <<>>
       THEN IF segment.text = <<>> THEN segment.start
            ELSE segment.start + (Max({0, segment.end - segment.start}) * k) \div Len(segment.text)
       ELSE IF k >= Len(segment.text) THEN segment.end
       ELSE IF Timed(words[i]) THEN At(words[i], k - Offset(words, i))
       ELSE IF timed(i) # <<>> THEN Last(timed(i)).start ELSE all[1].start
TimeForCharacter(segment, k) ==
    TimeInWords(IF segment.words = <<>> THEN <<>> ELSE AlignTimestampWords(segment.words, segment.text), segment, k)
=============================================================================
