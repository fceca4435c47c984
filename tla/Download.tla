-------------------------------- MODULE Download -------------------------------
(***************************************************************************)
(* The download step of a package: the .stamp_downloaded recipe of         *)
(* package/pkg-generic.mk runs support/download/dl-wrapper under           *)
(* flock $(PKG)_DL_DIR/.lock, once per file of the package (its main       *)
(* download, then the additional ones).  Several builds (make processes,   *)
(* each with its own BUILD_DIR and stamps) share the download directory.   *)
(* Any of them may be killed between two steps and run again.              *)
(*                                                                         *)
(* The content of a file is a member of Contents; Truncated is a file that *)
(* is only partly written.                                                 *)
(***************************************************************************)
EXTENDS CheckHash

CONSTANTS
    Builds,      \* the make processes sharing the download directory
    NoBuild,     \* the lock is free
    Files,       \* the file names of the package
    Order,       \* $(PKG)_ALL_DOWNLOADS: the order the recipe downloads them in
    Contents,    \* what a file may hold
    Truncated,   \* the content of a partly written file
    NoFile,      \* the file does not exist
    NumUris,     \* the length of DOWNLOAD_URIS
    Serves,      \* Serves[i][f]: what URI i may answer for f, Failure included
    Failure,     \* the backend fails
    HashFiles,   \* HashFiles[b]: the .hash files of the package in b's tree
    NoCheckFor,  \* NoCheckFor[b]: BR_NO_CHECK_HASH_FOR in b's tree
    PostProcessed, \* the files dl-wrapper is given -p for
    OldDlDir,    \* the possible contents of a file of the legacy $(DL_DIR)
    DiskFaults,  \* may ln, cp, cat and mv fail?
    MaxKills,    \* bound on the kills of a behaviour
    MaxRuns      \* bound on the runs of one build

ASSUME DownloadAssumption ==
    /\ NoBuild \notin Builds
    /\ Truncated \in Contents
    /\ NoFile \notin Contents
    /\ Failure \notin Contents
    /\ Order \in Seq(Files) /\ Len(Order) > 0
    /\ \A f \in Files : \E i \in DOMAIN Order : Order[i] = f
    /\ NumUris \in Nat
    /\ \A i \in 1..NumUris : \A f \in Files : Serves[i][f] \subseteq Contents \cup {Failure}
    /\ OldDlDir \subseteq Contents \cup {NoFile}
    /\ DiskFaults \in BOOLEAN
    /\ MaxKills \in Nat /\ MaxRuns \in Nat

VARIABLES
    output,    \* output[f]: the file in $(PKG)_DL_DIR
    legacy,    \* legacy[f]: the file of that name in the global $(DL_DIR)
    lock,      \* who holds the flock
    pc,        \* where each build is
    pos,       \* pos[b]: the file it is at, an index of Order
    uri,       \* uri[b]: the index of the URI it tries
    tmpf,      \* tmpf[b]: the file the backend wrote in $(BUILD_DIR)
    part,      \* part[b]: its tmp_output, next to the output
    rc,        \* rc[b]: dl-wrapper's exit code, 0 or 1
    stamped,   \* stamped[b]: does .stamp_downloaded exist?
    extracted, \* extracted[b]: what the extract step read, or NoFile
    kills,     \* the kills so far
    runs       \* runs[b]: how often b was started

wrapper == <<uri, tmpf, part, rc>>
vars == <<output, legacy, lock, pc, pos, wrapper, stamped, extracted, kills, runs>>

\* check-hash as build b runs it on a content for the name f.
Verdict(b, f, content) == CheckHash(HashFiles[b], f, content, NoCheckFor[b])

Main == Order[1]
File(b) == Order[pos[b]]

\* The steps dl-wrapper takes with the lock held.
Locked == {"legacy", "copy", "existing", "fetch", "post", "check", "cat", "mv"}
Running == Locked \cup {"flock", "touch", "extract"}
PCs == Running \cup {"idle", "failed", "dead", "done"}

Init ==
    /\ output = [f \in Files |-> NoFile]
    /\ legacy \in [Files -> OldDlDir]
    /\ lock = NoBuild
    /\ pc = [b \in Builds |-> "idle"]
    /\ pos = [b \in Builds |-> 1]
    /\ uri = [b \in Builds |-> 1]
    /\ tmpf = [b \in Builds |-> NoFile]
    /\ part = [b \in Builds |-> NoFile]
    /\ rc = [b \in Builds |-> 1]
    /\ stamped = [b \in Builds |-> FALSE]
    /\ extracted = [b \in Builds |-> NoFile]
    /\ kills = 0
    /\ runs = [b \in Builds |-> 0]

Goto(b, l) == pc' = [pc EXCEPT ![b] = l]

\* dl-wrapper exits with a code: the lock is released and its temporary files are
\* gone.  make goes on with the next file, or fails the recipe.
Exit(b, code) ==
    /\ lock' = NoBuild
    /\ tmpf' = [tmpf EXCEPT ![b] = NoFile]
    /\ part' = [part EXCEPT ![b] = NoFile]
    /\ rc' = [rc EXCEPT ![b] = code]
    /\ IF code = 1 THEN Goto(b, "failed") /\ UNCHANGED pos
       ELSE IF pos[b] < Len(Order)
            THEN Goto(b, "flock") /\ pos' = [pos EXCEPT ![b] = @ + 1]
       ELSE Goto(b, "touch") /\ UNCHANGED pos
    /\ UNCHANGED <<legacy, uri, stamped, extracted, kills, runs>>

\* make starts: the recipe runs unless the stamp is there.
Start(b) ==
    /\ pc[b] \in {"idle", "failed", "dead"}
    /\ runs[b] < MaxRuns
    /\ Goto(b, IF stamped[b] THEN "extract" ELSE "flock")
    /\ pos' = [pos EXCEPT ![b] = 1]
    /\ runs' = [runs EXCEPT ![b] = @ + 1]
    /\ UNCHANGED <<output, legacy, lock, wrapper, stamped, extracted, kills>>


Flock(b) ==
    /\ pc[b] = "flock"
    /\ lock = NoBuild
    /\ lock' = b
    /\ Goto(b, "legacy")
    /\ UNCHANGED <<output, legacy, pos, wrapper, stamped, extracted, kills, runs>>

\* The legacy hard-link: only when there is no output but an old file.
LinkLegacy(b) ==
    /\ pc[b] = "legacy"
    /\ \/ /\ output[File(b)] # NoFile \/ legacy[File(b)] = NoFile
          /\ Goto(b, "existing")
          /\ UNCHANGED output
       \/ /\ output[File(b)] = NoFile /\ legacy[File(b)] # NoFile
          /\ output' = [output EXCEPT ![File(b)] = legacy[File(b)]]
          /\ Goto(b, "existing")
       \/ /\ output[File(b)] = NoFile /\ legacy[File(b)] # NoFile
          /\ DiskFaults
          /\ output' \in { output, [output EXCEPT ![File(b)] = Truncated] }  \* cp opens it
          /\ Goto(b, "copy")
    /\ UNCHANGED <<legacy, lock, pos, wrapper, stamped, extracted, kills, runs>>

\* The cp that ln's failure falls back to ends, or fails ("|| true").
CopyLegacy(b) ==
    /\ pc[b] = "copy"
    /\ \/ UNCHANGED output
       \/ /\ output[File(b)] # NoFile
          /\ output' = [output EXCEPT ![File(b)] = legacy[File(b)]]
    /\ Goto(b, "existing")
    /\ UNCHANGED <<legacy, lock, pos, wrapper, stamped, extracted, kills, runs>>

\* (A bug: an existing file is removed before it is checked.)
AlwaysDownloadAgain(b) ==
    /\ pc[b] = "existing"
    /\ output' = [output EXCEPT ![File(b)] = NoFile]
    /\ uri' = [uri EXCEPT ![b] = 1]
    /\ Goto(b, "fetch")
    /\ UNCHANGED <<legacy, lock, pos, tmpf, part, rc, stamped, extracted, kills, runs>>

\* The output exists already: keep it, refuse it, or remove it and download again.
CheckExisting(b) ==
    /\ pc[b] = "existing"
    /\ LET f == File(b)
           v == Verdict(b, f, output[f])
       IN  \/ /\ output[f] = NoFile \/ v = Mismatch
              /\ output' = [output EXCEPT ![f] = NoFile]
              /\ uri' = [uri EXCEPT ![b] = 1]
              /\ Goto(b, "fetch")
              /\ UNCHANGED <<legacy, lock, pos, tmpf, part, rc, stamped, extracted, kills, runs>>
           \/ /\ output[f] # NoFile /\ v # Mismatch
              /\ Exit(b, IF v = Accepted THEN 0 ELSE 1)
              /\ UNCHANGED output

\* The backend of the next URI runs; out of URIs, dl-wrapper gives up.
Fetch(b) ==
    /\ pc[b] = "fetch"
    /\ \/ /\ uri[b] > NumUris
          /\ Exit(b, 1)
          /\ UNCHANGED output
       \/ /\ uri[b] <= NumUris
          /\ \E answer \in Serves[uri[b]][File(b)] :
               IF answer = Failure
               THEN /\ uri' = [uri EXCEPT ![b] = @ + 1]
                    /\ UNCHANGED <<pc, tmpf>>
               ELSE /\ tmpf' = [tmpf EXCEPT ![b] = answer]
                    /\ Goto(b, IF File(b) \in PostProcessed THEN "post" ELSE "check")
                    /\ UNCHANGED uri
          /\ UNCHANGED <<output, legacy, lock, pos, part, rc, stamped, extracted, kills, runs>>

\* (A bug: the loop tries the same URI again.)
SameUri(b) ==
    /\ tmpf' = [tmpf EXCEPT ![b] = NoFile]
    /\ Goto(b, "fetch")
    /\ UNCHANGED uri

\* Drop what was fetched and try the next URI.
NextUri(b) ==
    /\ tmpf' = [tmpf EXCEPT ![b] = NoFile]
    /\ uri' = [uri EXCEPT ![b] = @ + 1]
    /\ Goto(b, "fetch")

PostProcess(b) ==
    /\ pc[b] = "post"
    /\ \/ Goto(b, "check") /\ UNCHANGED <<tmpf, uri>>
       \/ NextUri(b)
    /\ UNCHANGED <<output, legacy, lock, pos, part, rc, stamped, extracted, kills, runs>>

\* (A bug: a mismatch is only a warning.)
CheckNothing(b) ==
    /\ pc[b] = "check"
    /\ rc' = [rc EXCEPT ![b] = 0]
    /\ part' = [part EXCEPT ![b] = Truncated]
    /\ Goto(b, "cat")
    /\ UNCHANGED <<output, legacy, lock, pos, tmpf, uri, stamped, extracted, kills, runs>>

\* (A bug: a mismatch ends the loop over the URIs.)
CheckOneUri(b) ==
    /\ pc[b] = "check"
    /\ LET v == Verdict(b, File(b), tmpf[b]) IN
         \/ /\ v \in {Accepted, NoHash}
            /\ rc' = [rc EXCEPT ![b] = IF v = Accepted THEN 0 ELSE 1]
            /\ part' = [part EXCEPT ![b] = Truncated]
            /\ Goto(b, "cat")
            /\ UNCHANGED <<output, legacy, lock, pos, tmpf, uri, stamped, extracted, kills, runs>>
         \/ /\ v \notin {Accepted, NoHash}
            /\ Exit(b, 1)
            /\ UNCHANGED output

\* check-hash on the fetched file; a file no hash is listed for is kept, with rc=1.
CheckFetched(b) ==
    /\ pc[b] = "check"
    /\ LET v == Verdict(b, File(b), tmpf[b]) IN
         \/ /\ v \in {Accepted, NoHash}
            /\ rc' = [rc EXCEPT ![b] = IF v = Accepted THEN 0 ELSE 1]
            /\ part' = [part EXCEPT ![b] = Truncated]      \* mktemp: an empty file
            /\ Goto(b, "cat")
            /\ UNCHANGED <<tmpf, uri>>
         \/ /\ v \notin {Accepted, NoHash}
            /\ NextUri(b)
            /\ UNCHANGED <<part, rc>>
    /\ UNCHANGED <<output, legacy, lock, pos, stamped, extracted, kills, runs>>

\* (A bug: the content is appended to the output itself.)
CatInPlace(b) ==
    /\ pc[b] = "cat"
    /\ \/ /\ part' = [part EXCEPT ![b] = tmpf[b]]
          /\ tmpf' = [tmpf EXCEPT ![b] = NoFile]
          /\ output' = [output EXCEPT ![File(b)] = tmpf[b]]
          /\ Goto(b, "mv")
          /\ UNCHANGED <<legacy, lock, pos, uri, rc, stamped, extracted, kills, runs>>
       \/ /\ DiskFaults
          /\ output' = [output EXCEPT ![File(b)] = Truncated]
          /\ Exit(b, 1)

\* cat tmpf >> tmp_output, then tmpd is removed.
Cat(b) ==
    /\ pc[b] = "cat"
    /\ \/ /\ part' = [part EXCEPT ![b] = tmpf[b]]
          /\ tmpf' = [tmpf EXCEPT ![b] = NoFile]
          /\ Goto(b, "mv")
          /\ UNCHANGED <<output, legacy, lock, pos, uri, rc, stamped, extracted, kills, runs>>
       \/ /\ DiskFaults
          /\ Exit(b, 1)
          /\ UNCHANGED output

\* mv -f tmp_output output: rename() is atomic.
Move(b) ==
    /\ pc[b] = "mv"
    /\ \/ /\ output' = [output EXCEPT ![File(b)] = part[b]]
          /\ Exit(b, rc[b])
       \/ /\ DiskFaults
          /\ Exit(b, 1)
          /\ UNCHANGED output

\* Every download of the recipe succeeded: touch .stamp_downloaded.
TouchDownloaded(b) ==
    /\ pc[b] = "touch"
    /\ stamped' = [stamped EXCEPT ![b] = TRUE]
    /\ Goto(b, "extract")
    /\ UNCHANGED <<output, legacy, lock, pos, wrapper, extracted, kills, runs>>

\* The extract step reads the main download, without the lock.
Extract(b) ==
    /\ pc[b] = "extract"
    /\ extracted' = [extracted EXCEPT ![b] = output[Main]]
    /\ Goto(b, IF output[Main] = NoFile THEN "failed" ELSE "done")
    /\ UNCHANGED <<output, legacy, lock, pos, wrapper, stamped, kills, runs>>

\* The build is killed: the kernel drops its flock; its temporary files stay behind
\* and nobody reads them again.
Kill(b) ==
    /\ pc[b] \in Running
    /\ kills < MaxKills
    /\ kills' = kills + 1
    /\ lock' = IF lock = b THEN NoBuild ELSE lock
    /\ tmpf' = [tmpf EXCEPT ![b] = NoFile]
    /\ part' = [part EXCEPT ![b] = NoFile]
    /\ Goto(b, "dead")
    /\ UNCHANGED <<output, legacy, pos, uri, rc, stamped, extracted, runs>>

\* What a running build does by itself.
Step(b) ==
    \/ Flock(b) \/ LinkLegacy(b) \/ CopyLegacy(b) \/ CheckExisting(b)
    \/ Fetch(b) \/ PostProcess(b) \/ CheckFetched(b) \/ Cat(b) \/ Move(b)
    \/ TouchDownloaded(b) \/ Extract(b)

Next == \E b \in Builds : Start(b) \/ Step(b) \/ Kill(b)

Spec == Init /\ [][Next]_vars

\* make and dl-wrapper keep running until they exit: a backend returns, and the
\* kernel hands a free flock to a waiter.  Nothing forces a user to start make again.
Fairness == \A b \in Builds : WF_vars(Step(b))

FairSpec == Spec /\ Fairness

--------------------------------------------------------------------------------
(* Properties *)

\* The mutual exclusion flock gives: a build is between acquiring the lock and exiting
\* dl-wrapper exactly when it holds it.
OnlyHolderInside == \A b \in Builds : lock = b <=> pc[b] \in Locked

\* The types of the variables, and flock's mutual exclusion.
TypeOK ==
    /\ output \in [Files -> Contents \cup {NoFile}]
    /\ legacy \in [Files -> Contents \cup {NoFile}]
    /\ lock \in Builds \cup {NoBuild}
    /\ pc \in [Builds -> PCs]
    /\ pos \in [Builds -> 1..Len(Order)]
    /\ uri \in [Builds -> Nat \ {0}]
    /\ tmpf \in [Builds -> Contents \cup {NoFile}]
    /\ part \in [Builds -> Contents \cup {NoFile}]
    /\ rc \in [Builds -> {0, 1}]
    /\ stamped \in [Builds -> BOOLEAN]
    /\ extracted \in [Builds -> Contents \cup {NoFile}]
    /\ kills \in 0..MaxKills
    /\ runs \in [Builds -> 0..MaxRuns]
    /\ OnlyHolderInside

\* The builds use the same tree: they have the same hashes for the package.
SameTree ==
    \A a, b \in Builds, f \in Files, c \in Contents : Verdict(a, f, c) = Verdict(b, f, c)

\* The contents every build accepts for f.
AcceptedContents(f) == { c \in Contents : \A b \in Builds : Verdict(b, f, c) = Accepted }

\* The file is there and every build accepts it.
Matches(f) == output[f] \in AcceptedContents(f)

Store == INSTANCE DownloadStore WITH Good <- [f \in Files |-> AcceptedContents(f)]

\* The download directory is the store DownloadStore describes: no interleaving of
\* the builds of one tree, no kill and no disk fault removes or replaces a file that
\* matches its hashes, and .stamp_downloaded appears only while all files match.  (It
\* is a property of builds that satisfy SameTree.)
ImplementsStore == Store!Spec

\* What the extract step reads, after its build released the lock, is a file that
\* passed check-hash, whatever the other builds of the tree do in between.
ExtractsCheckedFile ==
    SameTree => \A b \in Builds : extracted[b] # NoFile =>
                    Verdict(b, Main, extracted[b]) = Accepted

\* A file that is not in the legacy directory is visible under its final name only
\* whole, and after it passed check-hash (or when no hash is listed for it): a kill or a
\* full disk in the middle of the copy leaves no partial output (dl-wrapper:213-235).
OutputIsChecked ==
    \A f \in Files : legacy[f] = NoFile /\ output[f] # NoFile =>
        \E b \in Builds : Verdict(b, f, output[f]) \in {Accepted, NoHash}

\* Why that holds, as an inductive invariant of any trees and faults: only a file that has
\* a legacy one is ever copied in place, and what is on its way to a final name through
\* the temporary copy was let through by check-hash of the build that moves it.
LetThrough(b, c) == Verdict(b, File(b), c) \in {Accepted, NoHash}
MayPublish(b) ==
    /\ pc[b] = "copy" => legacy[File(b)] # NoFile
    /\ pc[b] = "cat" => LetThrough(b, tmpf[b])
    /\ pc[b] = "mv" => LetThrough(b, part[b])
OutputInv == TypeOK /\ OutputIsChecked /\ \A b \in Builds : MayPublish(b)

\* Why the store is kept, as an inductive invariant: the files a run went past match; a build
\* past the legacy link works on a file that does not match; and what it will publish
\* with exit code 0 does.
Passed(b) ==
    /\ pc[b] \in Locked \cup {"flock"} => \A i \in 1..(pos[b] - 1) : Matches(Order[i])
    /\ pc[b] = "touch" \/ stamped[b] => \A f \in Files : Matches(f)
    /\ pc[b] = "extract" => stamped[b]
Working(b) ==
    /\ pc[b] \in {"copy", "fetch", "post", "check", "cat", "mv"} => ~Matches(File(b))
    /\ pc[b] \in {"post", "check", "cat"} => tmpf[b] \in Contents
    /\ pc[b] = "cat" /\ rc[b] = 0 => tmpf[b] \in AcceptedContents(File(b))
    /\ pc[b] = "mv" => part[b] \in Contents
    /\ pc[b] = "mv" /\ rc[b] = 0 => part[b] \in AcceptedContents(File(b))
DownloadInv ==
    /\ TypeOK
    /\ \A b \in Builds : Passed(b) /\ Working(b)
    /\ \A b \in Builds : extracted[b] # NoFile => extracted[b] \in AcceptedContents(Main)

\* A started build ends: nobody waits for the lock for ever, and the URIs run out.
RunEnds == \A b \in Builds :
    pc[b] \in Running ~> pc[b] \in {"failed", "dead", "done"}

\* One URI that always serves what the build accepts for a file is enough: a build that
\* is not killed and meets no disk fault gets past that file, whatever is in the
\* directories and whatever the other URIs serve.
Reliable(b, f) ==
    /\ ~DiskFaults /\ f \notin PostProcessed
    /\ \E i \in 1..NumUris : \A c \in Serves[i][f] : c # Failure /\ Verdict(b, f, c) = Accepted
Past(b, i) == pos[b] > i \/ pc[b] \in {"touch", "extract", "done"}
RunSucceeds ==
    \A b \in Builds, i \in DOMAIN Order : Reliable(b, Order[i]) =>
        (pc[b] = "flock" /\ pos[b] = i ~> pc[b] = "dead" \/ Past(b, i))
================================================================================
