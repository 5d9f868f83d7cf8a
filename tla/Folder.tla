------------------------------- MODULE Folder -------------------------------
(* What the program keeps in a folder, at three levels of detail:            *)
(* ManuscriptStore has the handlers of one container, Recordings the         *)
(* operations of frontend/src/localStore.ts that move containers and         *)
(* recordings, and NativeFiles the file operations they are made of, as the  *)
(* desktop shell does them.  One operation runs at a time (inDirectory), and *)
(* a behaviour is of one level: the others have nothing to keep.             *)
EXTENDS ManuscriptStore, NativeFiles

CONSTANTS Recorded, Bytes, Part, Titles, Numbers, Outside, ScanFaults,
          MaxSaves, MaxMoves, MaxStops   \* bounds of the second level

VARIABLES level,  \* "container", "folder" or "shell"
          audio, box, side, root, mem, open, listed, op, outcome, saved, strayed, moves, stops

diskVars == <<audio, box, side, root, mem, open, listed, op, outcome, saved, strayed, moves, stops>>

Disk == INSTANCE Recordings WITH Names <- Recorded, Versions <- Numbers, MaxEdits <- MaxSaves,
            MaxCalls <- MaxMoves, MaxFaults <- MaxStops, report <- outcome, calls <- moves,
            faults <- stops

\* TLC checks the parameters of the other levels too.
ASSUME Disk!RecordingsAssumption
ASSUME NativeAssumption

FolderInit == /\ level \in {"container", "folder", "shell"}
              /\ Init /\ Disk!Init
              /\ level # "folder" => saved = [b \in Bytes |-> [v \in Numbers |-> 0]]
              /\ level # "container" => file = NoFiles
              /\ IF level = "shell" THEN FilesInit
                 ELSE Start({Nowhere}, {[d \in Dirs |-> None]})
FolderNext == \/ level = "container" /\ Next /\ UNCHANGED <<level, diskVars, filesVars>>
              \/ level = "folder" /\ Disk!Next /\ UNCHANGED <<level, vars, filesVars>>
              \/ level = "shell" /\ FilesNext /\ UNCHANGED <<level, vars, diskVars>>
FolderSpec == FolderInit /\ [][FolderNext]_<<level, vars, diskVars, filesVars>>

TLC == INSTANCE TLC
Symmetry == TLC!Permutations(Texts) \cup TLC!Permutations(Recorded) \cup TLC!Permutations(Bytes)

\* Texts follow their recordings: whatever fails or is cut off, every version as
\* it was last saved is found under a name of its recording (migrateLegacy,
\* renameAudio), and no recording is shown the text of another
\* (resolveTranscriptDir), but for those that were given, outside, a name with
\* another's container (localStore.ts:475-480).
TextsFollow == level = "folder" => Disk!StillOpens /\ Disk!ReadsOwn

\* A rename is whole, or as if it had not been (renameAudio).
RenameWhole == Disk!RenameWhole
=============================================================================
