----------------------------- MODULE DownloadStore -----------------------------
(***************************************************************************)
(* What the download step promises to builds of one Buildroot tree that    *)
(* share a download directory: a file that matches its hashes is never     *)
(* replaced or removed, and a build is stamped as downloaded only while    *)
(* every file of the package is there and matches.                         *)
(***************************************************************************)
CONSTANTS
    Builds,   \* the builds sharing the store
    Files,    \* the files of the package
    Contents, \* what a file may hold
    NoFile,   \* the file does not exist
    Good      \* Good[f]: the contents the tree accepts for f

VARIABLES output, stamped

Init ==
    /\ output = [f \in Files |-> NoFile]
    /\ stamped = [b \in Builds |-> FALSE]

IsGood(f) == output[f] # NoFile /\ output[f] \in Good[f]

\* A file that is missing or wrong may become anything, or go away.
Change(f) ==
    /\ ~IsGood(f)
    /\ \E c \in Contents \cup {NoFile} : output' = [output EXCEPT ![f] = c]
    /\ UNCHANGED stamped

Stamp(b) ==
    /\ \A f \in Files : IsGood(f)
    /\ stamped' = [stamped EXCEPT ![b] = TRUE]
    /\ UNCHANGED output

Next == (\E f \in Files : Change(f)) \/ (\E b \in Builds : Stamp(b))

Spec == Init /\ [][Next]_<<output, stamped>>
================================================================================
