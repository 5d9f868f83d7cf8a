----------------------------- MODULE VersionSet -----------------------------
(* What frontend/src/localStore.ts promises about the versions of one       *)
(* interview: a call changes one version or none, a read-only version is    *)
(* never rewritten, and a call that fails or is cut off leaves the versions *)
(* as they were or as it was asked to make them.                            *)
CONSTANTS Names, Texts

VARIABLES shown,       \* the versions a reader finds: name -> [text, readonly]
          from, want,  \* before the running call, and what it is to make of it
          busy,        \* is a call running?
          report       \* what the last call reported

Version == [text : Texts, readonly : BOOLEAN]
IsShelf(s) == DOMAIN s \subseteq Names /\ \A n \in DOMAIN s : s[n] \in Version

\* One version is added, removed or, unless it is read-only, given a new text;
\* the others keep their texts.
Differing(s, t) == {n \in DOMAIN s \cup DOMAIN t :
                       n \in DOMAIN s \cap DOMAIN t => s[n].text # t[n].text}
Permitted(s, t) == \A m, n \in Differing(s, t) :
    m = n /\ (n \in DOMAIN s \cap DOMAIN t => ~s[n].readonly)

Init == /\ IsShelf(shown)
        /\ from = shown /\ want = shown
        /\ busy = FALSE /\ report = "none"

Ask == /\ ~busy
       /\ IsShelf(want') /\ Permitted(shown, want')
       /\ from' = shown
       /\ busy' = TRUE /\ report' = "none"
       /\ UNCHANGED shown

\* The new versions appear at once; a rollback takes them back at once.
Change == /\ busy
          /\ shown' \in {from, want}
          /\ UNCHANGED <<from, want, busy, report>>

Return == /\ busy
          /\ report' \in {"none", "done", "failed"}
          /\ from' \in {from, want}
          /\ report' = "done" => from' = want
          /\ busy' = FALSE
          /\ shown' = from' /\ want' = from'

Next == Ask \/ Change \/ Return

Spec == Init /\ [][Next]_<<shown, from, want, busy, report>>
=============================================================================
