------------------------------ MODULE EditorMC ------------------------------
(* Small manuscripts for the editor: one whose letters know their moments and *)
(* one of an older file, with words in one segment and none in the other.     *)
EXTENDS Editor

CONSTANTS s1, s2

Segment(id, speaker, first, text, words) ==
    [id |-> id, speaker |-> speaker, text |-> text, words |-> words, marks |-> {},
     start |-> first * Width, end |-> (first + Len(text)) * Width,
     heard |-> [k \in DOMAIN text |-> first + k]]
Aged(first, text) ==
    <<Plain(text, first * Width, (first + Len(text)) * Width)>>

MCFirsts ==
    {<<Segment(1, s1, 0, <<"a", "b">>, Seeded(0, <<"a", "b">>)),
       Segment(2, s2, 2, <<"b">>, Seeded(2, <<"b">>)),
       Segment(3, s1, 3, <<"a">>, Seeded(3, <<"a">>))>>,
     <<Segment(1, s1, 0, <<"a", "b", "a">>, Aged(0, <<"a", "b">>) \o Aged(2, <<"a">>)),
       Segment(2, s1, 3, <<"b">>, <<>>)>>}
MCPieces == {<<"a">>}
MCAITexts == {<<"b", "n", "a">>}
=============================================================================
