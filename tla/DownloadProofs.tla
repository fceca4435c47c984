---------------------------- MODULE DownloadProofs -----------------------------
(***************************************************************************)
(* What the download step guarantees for any number of builds, files and   *)
(* URIs, any kills and any disk faults: the store of DownloadStore.        *)
(***************************************************************************)
EXTENDS Download, TLAPS

\* No build takes a truncated file for a good one: the hash files cover the files.
TruncationDetected == \A b \in Builds, f \in Files : Verdict(b, f, Truncated) # Accepted

LEMMA ConstantFacts ==
    /\ NoBuild \notin Builds
    /\ Truncated \in Contents /\ NoFile \notin Contents /\ Failure \notin Contents
    /\ NumUris \in Nat /\ MaxKills \in Nat /\ MaxRuns \in Nat
    /\ OldDlDir \subseteq Contents \cup {NoFile}
BY DownloadAssumption DEF DownloadAssumption

LEMMA ServesFacts ==
    ASSUME NEW i \in 1..NumUris, NEW f \in Files, NEW a \in Serves[i][f], a # Failure
    PROVE  a \in Contents
BY DownloadAssumption DEF DownloadAssumption

\* The recipe goes through every file of the package.
LEMMA OrderFacts ==
    /\ Len(Order) \in Nat /\ Len(Order) > 0
    /\ DOMAIN Order = 1..Len(Order)
    /\ \A i \in 1..Len(Order) : Order[i] \in Files
    /\ \A f \in Files : \E i \in 1..Len(Order) : Order[i] = f
    /\ Main \in Files
BY DownloadAssumption DEF DownloadAssumption, Main

\* In one tree, what one build accepts every build accepts.
LEMMA AcceptedByOne ==
    ASSUME SameTree, NEW b \in Builds, NEW f \in Files, NEW c \in Contents,
           Verdict(b, f, c) = Accepted
    PROVE  c \in AcceptedContents(f)
BY DEF SameTree, AcceptedContents

LEMMA AcceptedFacts ==
    ASSUME NEW f \in Files
    PROVE  /\ AcceptedContents(f) \subseteq Contents
           /\ NoFile \notin AcceptedContents(f)
           /\ \A b \in Builds : \A c \in AcceptedContents(f) : Verdict(b, f, c) = Accepted
BY ConstantFacts DEF AcceptedContents

LEMMA TypeInit == Init => TypeOK
BY ConstantFacts, OrderFacts
   DEF Init, TypeOK, OnlyHolderInside, PCs, Running, Locked

LEMMA FileFacts ==
    ASSUME TypeOK, NEW b \in Builds
    PROVE  pos[b] \in 1..Len(Order) /\ File(b) \in Files
BY OrderFacts DEF TypeOK, File

\* dl-wrapper exits from a step that holds the lock.
LEMMA ExitTypes ==
    ASSUME TypeOK, NEW b \in Builds, NEW code \in {0, 1}, pc[b] \in Locked, Exit(b, code),
           output' \in [Files -> Contents \cup {NoFile}]
    PROVE  TypeOK'
<1>0. PICK l \in {"failed", "flock", "touch"} : pc' = [pc EXCEPT ![b] = l]
    BY DEF Exit, Goto
<1>1. pc' \in [Builds -> PCs]
    BY <1>0 DEF TypeOK, PCs, Running
<1>2. OnlyHolderInside'
  <2>1. lock = b /\ lock' = NoBuild /\ NoBuild # b
    BY ConstantFacts DEF Exit, TypeOK, OnlyHolderInside
  <2>2. ASSUME NEW c \in Builds PROVE pc'[c] \in Locked <=> (c # b /\ pc[c] \in Locked)
    BY <1>0 DEF TypeOK, Locked
  <2>3. ASSUME NEW c \in Builds PROVE lock' # c /\ pc'[c] \notin Locked
    BY <2>1, <2>2, ConstantFacts DEF TypeOK, OnlyHolderInside
  <2> QED
    BY <2>3 DEF OnlyHolderInside, Locked
<1>3. pos' \in [Builds -> 1..Len(Order)]
  <2>1. pos' = pos \/ (pos[b] < Len(Order) /\ pos' = [pos EXCEPT ![b] = @ + 1])
    BY DEF Exit
  <2>2. pos \in [Builds -> 1..Len(Order)] /\ Len(Order) \in Nat
    BY OrderFacts DEF TypeOK
  <2> QED
    BY <2>1, <2>2
<1>4. lock' \in Builds \cup {NoBuild}
    BY DEF Exit
<1>5. rc' \in [Builds -> {0, 1}]
    BY DEF Exit, TypeOK
<1>6. tmpf' \in [Builds -> Contents \cup {NoFile}]
    BY DEF Exit, TypeOK
<1>7. part' \in [Builds -> Contents \cup {NoFile}]
    BY DEF Exit, TypeOK
<1>8. UNCHANGED <<legacy, uri, stamped, extracted, kills, runs>>
    BY DEF Exit
<1> QED
    BY <1>1, <1>2, <1>3, <1>4, <1>5, <1>6, <1>7, <1>8 DEF TypeOK

\* A step that moves one build without entering or leaving dl-wrapper's locked part.
LEMMA GotoTypes ==
    ASSUME TypeOK, NEW b \in Builds, NEW l \in PCs, Goto(b, l), UNCHANGED lock,
           pc[b] \in Locked <=> l \in Locked
    PROVE  pc' \in [Builds -> PCs] /\ OnlyHolderInside'
<1>1. pc \in [Builds -> PCs] /\ pc' = [pc EXCEPT ![b] = l]
    BY DEF TypeOK, Goto
<1>2. ASSUME NEW c \in Builds PROVE lock' = c <=> pc'[c] \in Locked
    BY <1>1 DEF TypeOK, OnlyHolderInside
<1> QED
    BY <1>1, <1>2 DEF OnlyHolderInside, Locked

\* Every step keeps the variables typed and the lock with the one build inside.
LEMMA TypeStep == TypeOK /\ [Next]_vars => TypeOK'
<1> SUFFICES ASSUME TypeOK, [Next]_vars PROVE TypeOK'
    OBVIOUS
<1>0. ASSUME UNCHANGED vars PROVE TypeOK'
    BY <1>0 DEF vars, wrapper, TypeOK, OnlyHolderInside, Locked
<1>1. ASSUME NEW b \in Builds, Start(b) PROVE TypeOK'
  <2>1. PICK l \in {"extract", "flock"} : Goto(b, l)
    BY <1>1 DEF Start
  <2>2. pc' \in [Builds -> PCs] /\ OnlyHolderInside'
    BY <1>1, <2>1, GotoTypes DEF Start, PCs, Running, Locked
  <2>3. pos' \in [Builds -> 1..Len(Order)]
    BY <1>1, OrderFacts DEF Start, TypeOK
  <2>4. runs' \in [Builds -> 0..MaxRuns]
    BY <1>1, ConstantFacts DEF Start, TypeOK
  <2> QED
    BY <1>1, <2>2, <2>3, <2>4 DEF Start, TypeOK, wrapper
<1>2. ASSUME NEW b \in Builds, Flock(b) PROVE TypeOK'
  <2>1. lock = NoBuild /\ lock' = b /\ pc' = [pc EXCEPT ![b] = "legacy"]
    BY <1>2 DEF Flock, Goto
  <2>2. pc' \in [Builds -> PCs]
    BY <2>1 DEF TypeOK, PCs, Running, Locked
  <2>3. ASSUME NEW c \in Builds PROVE lock' = c <=> pc'[c] \in Locked
    BY <2>1, ConstantFacts DEF TypeOK, OnlyHolderInside, Locked
  <2>4. OnlyHolderInside'
    BY <2>3 DEF OnlyHolderInside, Locked
  <2> QED
    BY <1>2, <2>1, <2>2, <2>4 DEF Flock, TypeOK, wrapper
<1>3. ASSUME NEW b \in Builds, LinkLegacy(b) PROVE TypeOK'
  <2>1. PICK l \in {"existing", "copy"} : Goto(b, l)
    BY <1>3 DEF LinkLegacy
  <2>2. pc' \in [Builds -> PCs] /\ OnlyHolderInside'
    BY <1>3, <2>1, GotoTypes DEF LinkLegacy, PCs, Running, Locked
  <2>3. output' \in [Files -> Contents \cup {NoFile}]
    BY <1>3, FileFacts, ConstantFacts DEF LinkLegacy, TypeOK
  <2> QED
    BY <1>3, <2>2, <2>3 DEF LinkLegacy, TypeOK, wrapper
<1>4. ASSUME NEW b \in Builds, CopyLegacy(b) PROVE TypeOK'
  <2>1. pc' \in [Builds -> PCs] /\ OnlyHolderInside'
    BY <1>4, GotoTypes DEF CopyLegacy, PCs, Running, Locked
  <2>2. output' \in [Files -> Contents \cup {NoFile}]
    BY <1>4, FileFacts DEF CopyLegacy, TypeOK
  <2> QED
    BY <1>4, <2>1, <2>2 DEF CopyLegacy, TypeOK, wrapper
<1>5. ASSUME NEW b \in Builds, CheckExisting(b) PROVE TypeOK'
  <2>1. pc[b] \in Locked
    BY <1>5 DEF CheckExisting, Locked
  <2>2. output' \in [Files -> Contents \cup {NoFile}]
    BY <1>5, FileFacts DEF CheckExisting, TypeOK
  <2>3. CASE \E code \in {0, 1} : Exit(b, code)
    BY <2>1, <2>2, <2>3, ExitTypes
  <2>4. CASE /\ Goto(b, "fetch") /\ uri' = [uri EXCEPT ![b] = 1]
             /\ UNCHANGED <<legacy, lock, pos, tmpf, part, rc, stamped, extracted, kills, runs>>
    <3>1. pc' \in [Builds -> PCs] /\ OnlyHolderInside'
      BY <2>1, <2>4, GotoTypes DEF PCs, Running, Locked
    <3>2. uri' \in [Builds -> Nat \ {0}]
      BY <2>4 DEF TypeOK
    <3> QED
      BY <2>2, <2>4, <3>1, <3>2 DEF TypeOK
  <2> QED
    BY <1>5, <2>3, <2>4 DEF CheckExisting
<1>6. ASSUME NEW b \in Builds, Fetch(b) PROVE TypeOK'
  <2>1. pc[b] \in Locked /\ UNCHANGED output
    BY <1>6 DEF Fetch, Locked
  <2>2. CASE Exit(b, 1)
    BY <2>1, <2>2, ExitTypes DEF TypeOK
  <2>3. ASSUME uri[b] <= NumUris, NEW a \in Serves[uri[b]][File(b)],
               UNCHANGED <<legacy, lock, pos, part, rc, stamped, extracted, kills, runs>>,
               \/ /\ a = Failure /\ uri' = [uri EXCEPT ![b] = @ + 1]
                  /\ UNCHANGED <<pc, tmpf>>
               \/ /\ a # Failure /\ tmpf' = [tmpf EXCEPT ![b] = a] /\ UNCHANGED uri
                  /\ Goto(b, IF File(b) \in PostProcessed THEN "post" ELSE "check")
        PROVE  TypeOK'
    <3>1. CASE a = Failure
      <4>1. uri' \in [Builds -> Nat \ {0}]
        BY <2>3, <3>1 DEF TypeOK
      <4> QED
        BY <2>1, <2>3, <3>1, <4>1 DEF TypeOK, OnlyHolderInside, Locked
    <3>2. CASE a # Failure
      <4>1. PICK l \in {"post", "check"} : Goto(b, l)
        BY <2>3, <3>2
      <4>2. pc' \in [Builds -> PCs] /\ OnlyHolderInside'
        BY <2>1, <2>3, <4>1, GotoTypes DEF PCs, Running, Locked
      <4>3. uri[b] \in 1..NumUris /\ File(b) \in Files
        BY <2>3, FileFacts, ConstantFacts DEF TypeOK
      <4>4. a \in Contents
        BY <2>3, <3>2, <4>3, ServesFacts
      <4>5. tmpf' \in [Builds -> Contents \cup {NoFile}]
        BY <2>3, <3>2, <4>4 DEF TypeOK
      <4> QED
        BY <2>1, <2>3, <3>2, <4>2, <4>5 DEF TypeOK
    <3> QED
      BY <3>1, <3>2
  <2> QED
    BY <1>6, <2>2, <2>3 DEF Fetch
<1>7. ASSUME NEW b \in Builds, NextUri(b), pc[b] \in Locked, UNCHANGED <<output, legacy, lock>>,
             UNCHANGED <<pos, part, rc, stamped, extracted, kills, runs>>
      PROVE  TypeOK'
  <2>1. pc' \in [Builds -> PCs] /\ OnlyHolderInside'
    BY <1>7, GotoTypes DEF NextUri, PCs, Running, Locked
  <2>2. uri' \in [Builds -> Nat \ {0}]
    BY <1>7 DEF NextUri, TypeOK
  <2>3. tmpf' \in [Builds -> Contents \cup {NoFile}]
    BY <1>7 DEF NextUri, TypeOK
  <2> QED
    BY <1>7, <2>1, <2>2, <2>3 DEF TypeOK
<1>8. ASSUME NEW b \in Builds, PostProcess(b) PROVE TypeOK'
  <2>1. CASE NextUri(b)
    BY <1>8, <2>1, <1>7 DEF PostProcess, Locked
  <2>2. CASE Goto(b, "check") /\ UNCHANGED <<tmpf, uri>>
    <3>1. pc' \in [Builds -> PCs] /\ OnlyHolderInside'
      BY <1>8, <2>2, GotoTypes DEF PostProcess, PCs, Running, Locked
    <3> QED
      BY <1>8, <2>2, <3>1 DEF PostProcess, TypeOK
  <2> QED
    BY <1>8, <2>1, <2>2 DEF PostProcess
<1>9. ASSUME NEW b \in Builds, CheckFetched(b) PROVE TypeOK'
  <2>1. CASE NextUri(b) /\ UNCHANGED <<part, rc>>
    BY <1>9, <2>1, <1>7 DEF CheckFetched, Locked
  <2>2. CASE /\ Goto(b, "cat") /\ UNCHANGED <<tmpf, uri>>
             /\ \E code \in {0, 1} : rc' = [rc EXCEPT ![b] = code]
             /\ part' = [part EXCEPT ![b] = Truncated]
    <3>1. pc' \in [Builds -> PCs] /\ OnlyHolderInside'
      BY <1>9, <2>2, GotoTypes DEF CheckFetched, PCs, Running, Locked
    <3>2. rc' \in [Builds -> {0, 1}] /\ part' \in [Builds -> Contents \cup {NoFile}]
      BY <2>2, ConstantFacts DEF TypeOK
    <3> QED
      BY <1>9, <2>2, <3>1, <3>2 DEF CheckFetched, TypeOK
  <2> QED
    BY <1>9, <2>1, <2>2 DEF CheckFetched
<1>10. ASSUME NEW b \in Builds, Cat(b) PROVE TypeOK'
  <2>1. CASE Exit(b, 1) /\ UNCHANGED output
    BY <1>10, <2>1, ExitTypes DEF Cat, TypeOK, Locked
  <2>2. CASE /\ Goto(b, "mv") /\ part' = [part EXCEPT ![b] = tmpf[b]]
             /\ tmpf' = [tmpf EXCEPT ![b] = NoFile]
             /\ UNCHANGED <<output, legacy, lock, pos, uri, rc, stamped, extracted, kills, runs>>
    <3>1. pc' \in [Builds -> PCs] /\ OnlyHolderInside'
      BY <1>10, <2>2, GotoTypes DEF Cat, PCs, Running, Locked
    <3>2. /\ part' \in [Builds -> Contents \cup {NoFile}]
          /\ tmpf' \in [Builds -> Contents \cup {NoFile}]
      BY <2>2 DEF TypeOK
    <3> QED
      BY <2>2, <3>1, <3>2 DEF TypeOK
  <2> QED
    BY <1>10, <2>1, <2>2 DEF Cat
<1>11. ASSUME NEW b \in Builds, Move(b) PROVE TypeOK'
  <2>1. PICK code \in {0, 1} : Exit(b, code)
    BY <1>11 DEF Move, TypeOK
  <2>2. output' \in [Files -> Contents \cup {NoFile}]
    BY <1>11, FileFacts DEF Move, TypeOK
  <2> QED
    BY <1>11, <2>1, <2>2, ExitTypes DEF Move, Locked
<1>12. ASSUME NEW b \in Builds, TouchDownloaded(b) PROVE TypeOK'
  <2>1. pc' \in [Builds -> PCs] /\ OnlyHolderInside'
    BY <1>12, GotoTypes DEF TouchDownloaded, PCs, Running, Locked
  <2> QED
    BY <1>12, <2>1 DEF TouchDownloaded, TypeOK, wrapper
<1>13. ASSUME NEW b \in Builds, Extract(b) PROVE TypeOK'
  <2>1. PICK l \in {"failed", "done"} : Goto(b, l)
    BY <1>13 DEF Extract
  <2>2. pc' \in [Builds -> PCs] /\ OnlyHolderInside'
    BY <1>13, <2>1, GotoTypes DEF Extract, PCs, Running, Locked
  <2>3. extracted' \in [Builds -> Contents \cup {NoFile}]
    BY <1>13, OrderFacts DEF Extract, TypeOK
  <2> QED
    BY <1>13, <2>2, <2>3 DEF Extract, TypeOK, wrapper
<1>14. ASSUME NEW b \in Builds, Kill(b) PROVE TypeOK'
  <2>1. pc' = [pc EXCEPT ![b] = "dead"] /\ lock' = IF lock = b THEN NoBuild ELSE lock
    BY <1>14 DEF Kill, Goto
  <2>2. pc' \in [Builds -> PCs]
    BY <2>1 DEF TypeOK, PCs
  <2>3. ASSUME NEW c \in Builds PROVE lock' = c <=> pc'[c] \in Locked
    BY <2>1, ConstantFacts DEF TypeOK, OnlyHolderInside, Locked
  <2>4. OnlyHolderInside'
    BY <2>3 DEF OnlyHolderInside, Locked
  <2>5. kills' \in 0..MaxKills
    BY <1>14, ConstantFacts DEF Kill, TypeOK
  <2> QED
    BY <1>14, <2>1, <2>2, <2>4, <2>5 DEF Kill, TypeOK
<1>15. QED
    BY <1>0, <1>1, <1>2, <1>3, <1>4, <1>5, <1>6, <1>8, <1>9, <1>10, <1>11, <1>12, <1>13,
       <1>14 DEF Next, Step

--------------------------------------------------------------------------------
(* Files that match stay as they are. *)

Keeps == \A f \in Files : Matches(f) => output'[f] = output[f]

LEMMA KeepsIsMonotone ==
    ASSUME Keeps, NEW f \in Files, Matches(f)
    PROVE  Matches(f)'
BY DEF Keeps, Matches, AcceptedContents, Verdict

\* Only the build with the lock changes a file, and never one that matches.
LEMMA KeepsStep ==
    ASSUME DownloadInv, NEW b \in Builds, Start(b) \/ Step(b) \/ Kill(b)
    PROVE  Keeps
<1> USE FileFacts DEF DownloadInv
<1>1. CASE UNCHANGED output
    BY <1>1 DEF Keeps
<1>2. CASE LinkLegacy(b)
  <2>1. UNCHANGED output \/ \E c : output' = [output EXCEPT ![File(b)] = c]
    BY <1>2 DEF LinkLegacy
  <2>2. UNCHANGED output \/ output[File(b)] = NoFile
    BY <1>2 DEF LinkLegacy
  <2>3. ~UNCHANGED output => ~Matches(File(b))
    BY <2>2, AcceptedFacts DEF Matches
  <2> QED
    BY <2>1, <2>3 DEF Keeps, TypeOK
<1>3. CASE CopyLegacy(b)
  <2>1. ~Matches(File(b))
    BY <1>3 DEF CopyLegacy, Working
  <2>2. UNCHANGED output \/ \E c : output' = [output EXCEPT ![File(b)] = c]
    BY <1>3 DEF CopyLegacy
  <2> QED
    BY <2>1, <2>2 DEF Keeps, TypeOK
<1>4. CASE CheckExisting(b)
  <2>1. UNCHANGED output \/ output' = [output EXCEPT ![File(b)] = NoFile]
    BY <1>4 DEF CheckExisting
  <2>2. \/ UNCHANGED output
        \/ output[File(b)] = NoFile
        \/ Verdict(b, File(b), output[File(b)]) = Mismatch
    BY <1>4 DEF CheckExisting
  <2>3. ~UNCHANGED output => ~Matches(File(b))
    BY <2>2, AcceptedFacts DEF Matches, Accepted, Mismatch
  <2> QED
    BY <2>1, <2>3 DEF Keeps, TypeOK
<1>5. CASE Move(b)
  <2>1. ~Matches(File(b))
    BY <1>5 DEF Move, Working
  <2>2. UNCHANGED output \/ \E c : output' = [output EXCEPT ![File(b)] = c]
    BY <1>5 DEF Move
  <2> QED
    BY <2>1, <2>2 DEF Keeps, TypeOK
<1> QED
    BY <1>1, <1>2, <1>3, <1>4, <1>5
    DEF Step, Start, Flock, Fetch, PostProcess, CheckFetched, Cat, TouchDownloaded, Extract,
        Kill

\* A step of one build leaves what another one has, and its file while it is inside.
LEMMA OtherBuilds ==
    ASSUME TypeOK, NEW b \in Builds, Start(b) \/ Step(b) \/ Kill(b),
           NEW c \in Builds, c # b
    PROVE  /\ pc'[c] = pc[c] /\ pos'[c] = pos[c] /\ tmpf'[c] = tmpf[c] /\ part'[c] = part[c]
           /\ rc'[c] = rc[c] /\ stamped'[c] = stamped[c] /\ extracted'[c] = extracted[c]
           /\ pc[c] \in Locked => UNCHANGED output
<1>1. /\ pc'[c] = pc[c] /\ pos'[c] = pos[c] /\ tmpf'[c] = tmpf[c] /\ part'[c] = part[c]
      /\ rc'[c] = rc[c] /\ stamped'[c] = stamped[c] /\ extracted'[c] = extracted[c]
  <2>1. CASE Start(b) \/ Flock(b) \/ LinkLegacy(b) \/ CopyLegacy(b)
    BY <2>1 DEF Start, Flock, LinkLegacy, CopyLegacy, Goto, wrapper, TypeOK
  <2>2. CASE CheckExisting(b)
    BY <2>2 DEF CheckExisting, Exit, Goto, TypeOK
  <2>3. CASE Fetch(b)
    BY <2>3 DEF Fetch, Exit, Goto, TypeOK
  <2>4. CASE PostProcess(b) \/ CheckFetched(b)
    BY <2>4 DEF PostProcess, CheckFetched, NextUri, Goto, TypeOK
  <2>5. CASE Cat(b)
    BY <2>5 DEF Cat, Exit, Goto, TypeOK
  <2>6. CASE Move(b)
    BY <2>6 DEF Move, Exit, Goto, TypeOK
  <2>7. CASE TouchDownloaded(b) \/ Extract(b) \/ Kill(b)
    BY <2>7 DEF TouchDownloaded, Extract, Kill, Goto, wrapper, TypeOK
  <2> QED
    BY <2>1, <2>2, <2>3, <2>4, <2>5, <2>6, <2>7 DEF Step
<1>2. ASSUME pc[c] \in Locked PROVE UNCHANGED output
  <2>1. pc[b] \notin Locked
    BY <1>2 DEF TypeOK, OnlyHolderInside
  <2> QED
    BY <2>1 DEF Step, Start, Flock, LinkLegacy, CopyLegacy, CheckExisting, Fetch, PostProcess,
        CheckFetched, Cat, Move, TouchDownloaded, Extract, Kill, Locked
<1> QED
    BY <1>1, <1>2

LEMMA OthersKeepInv ==
    ASSUME DownloadInv, NEW b \in Builds, Start(b) \/ Step(b) \/ Kill(b),
           NEW c \in Builds, c # b
    PROVE  Passed(c)' /\ Working(c)'
<1>1. /\ pc'[c] = pc[c] /\ pos'[c] = pos[c] /\ tmpf'[c] = tmpf[c] /\ part'[c] = part[c]
      /\ rc'[c] = rc[c] /\ stamped'[c] = stamped[c]
      /\ pc[c] \in Locked => UNCHANGED output
    BY OtherBuilds DEF DownloadInv
<1>2. Keeps /\ TypeOK /\ Passed(c) /\ Working(c)
    BY KeepsStep DEF DownloadInv
<1>3. \A f \in Files : Matches(f) => Matches(f)'
    BY <1>2, KeepsIsMonotone
<1>4. Passed(c)'
  <2>1. ASSUME pc[c] \in Locked \cup {"flock"}, NEW i \in 1..(pos[c] - 1) PROVE Matches(Order[i])'
    <3>1. i \in 1..Len(Order) /\ Order[i] \in Files
      BY <1>2, OrderFacts, FileFacts
    <3> QED
      BY <1>2, <1>3, <2>1, <3>1 DEF Passed
  <2> QED
    BY <1>1, <1>2, <1>3, <2>1 DEF Passed, Locked
<1>5. Working(c)'
  <2>1. CASE pc[c] \in Locked
    BY <1>1, <1>2, <2>1 DEF Working, Matches, File, AcceptedContents, Verdict
  <2>2. CASE pc[c] \notin Locked
    BY <1>1, <2>2 DEF Working, Locked
  <2> QED
    BY <2>1, <2>2
<1> QED
    BY <1>4, <1>5

\* dl-wrapper exits: with code 0 only when the file it was run for matches.
LEMMA ExitKeepsInv ==
    ASSUME DownloadInv, Keeps, NEW b \in Builds, NEW code \in {0, 1}, pc[b] \in Locked,
           Exit(b, code), code = 0 => output'[File(b)] \in AcceptedContents(File(b))
    PROVE  Passed(b)' /\ Working(b)' /\ UNCHANGED extracted
<1> USE DEF DownloadInv
<1>1. /\ TypeOK /\ Passed(b) /\ b \in Builds
      /\ \A f \in Files : Matches(f) => Matches(f)'
    BY KeepsIsMonotone
<1>2. UNCHANGED <<stamped, extracted>>
    BY DEF Exit
<1>3. stamped[b] => \A f \in Files : Matches(f)'
    BY <1>1 DEF Passed
<1>4. ASSUME NEW i \in 1..(pos[b] - 1) PROVE Order[i] \in Files /\ Matches(Order[i])'
  <2>1. i \in 1..Len(Order) /\ Order[i] \in Files
    BY <1>1, OrderFacts, FileFacts
  <2> QED
    BY <1>1, <2>1 DEF Passed
<1>5. pos[b] \in 1..Len(Order) /\ Len(Order) \in Nat
    BY <1>1, FileFacts, OrderFacts
<1>d. ASSUME code = 0, NEW i \in 1..Len(Order), i = pos[b] PROVE Matches(Order[i])'
    BY <1>d DEF Matches, File, AcceptedContents, Verdict
<1>6. CASE pc'[b] = "failed"
    BY <1>2, <1>3, <1>6 DEF Passed, Working, Locked
<1>7. CASE code = 0 /\ pc'[b] = "flock" /\ pos'[b] = pos[b] + 1
  <2>1. ASSUME NEW i \in 1..(pos'[b] - 1) PROVE Matches(Order[i])'
    <3>1. i \in 1..(pos[b] - 1) \/ i = pos[b]
      BY <1>5, <1>7
    <3> QED
      BY <1>4, <1>d, <1>5, <1>7, <3>1
  <2> QED
    BY <1>2, <1>3, <1>7, <2>1 DEF Passed, Working
<1>8. CASE code = 0 /\ pc'[b] = "touch" /\ pos[b] = Len(Order)
  <2>1. ASSUME NEW f \in Files PROVE Matches(f)'
    <3>1. PICK i \in 1..Len(Order) : Order[i] = f
      BY OrderFacts
    <3>2. i \in 1..(pos[b] - 1) \/ i = pos[b]
      BY <1>5, <1>8
    <3> QED
      BY <1>4, <1>d, <1>5, <1>8, <3>1, <3>2
  <2> QED
    BY <1>2, <1>3, <1>8, <2>1 DEF Passed, Working, Locked
<1>9. \/ pc'[b] = "failed"
      \/ code = 0 /\ pc'[b] = "flock" /\ pos'[b] = pos[b] + 1
      \/ code = 0 /\ pc'[b] = "touch" /\ pos[b] = Len(Order)
    BY <1>1, <1>5 DEF Exit, Goto, TypeOK
<1> QED
    BY <1>2, <1>6, <1>7, <1>8, <1>9

\* A step inside dl-wrapper that changes no file and no stamp.
LEMMA InsideKeepsPassed ==
    ASSUME DownloadInv, Keeps, NEW b \in Builds, pc[b] \in Locked \cup {"flock"},
           pc'[b] \in Locked, UNCHANGED <<pos, stamped>>
    PROVE  Passed(b)'
<1> USE DEF DownloadInv
<1>1. /\ TypeOK /\ Passed(b)
      /\ \A f \in Files : Matches(f) => Matches(f)'
    BY KeepsIsMonotone
<1>2. ASSUME NEW i \in 1..(pos[b] - 1) PROVE Matches(Order[i])'
  <2>1. i \in 1..Len(Order) /\ Order[i] \in Files
    BY <1>1, OrderFacts, FileFacts
  <2> QED
    BY <1>1, <2>1 DEF Passed
<1> QED
    BY <1>1, <1>2 DEF Passed, Locked

LEMMA DownloadInvInit == Init => DownloadInv
<1> SUFFICES ASSUME Init PROVE DownloadInv
    OBVIOUS
<1>1. TypeOK
    BY TypeInit
<1>2. ASSUME NEW b \in Builds PROVE Passed(b) /\ Working(b)
    BY DEF Init, Passed, Working, Locked
<1> QED
    BY <1>1, <1>2 DEF Init, DownloadInv

\* What a step of a build leaves true of that build.
LEMMA OwnStep ==
    ASSUME SameTree, TruncationDetected, DownloadInv, TypeOK', Keeps, NEW b \in Builds,
           Start(b) \/ Step(b) \/ Kill(b)
    PROVE  /\ Passed(b)' /\ Working(b)'
           /\ extracted'[b] # NoFile => extracted'[b] \in AcceptedContents(Main)
<1> USE DEF DownloadInv
<1>a. /\ TypeOK /\ Passed(b) /\ Working(b)
      /\ extracted[b] # NoFile => extracted[b] \in AcceptedContents(Main)
      /\ \A f \in Files : Matches(f) => Matches(f)'
    BY KeepsIsMonotone
<1>b. File(b) \in Files /\ File(b)' = Order[pos'[b]]
    BY <1>a, FileFacts DEF File
<1>1. CASE Start(b)
  <2>1. /\ pos'[b] = 1 /\ stamped' = stamped /\ extracted' = extracted
        /\ pc'[b] = IF stamped[b] THEN "extract" ELSE "flock"
    BY <1>1, <1>a DEF Start, Goto, TypeOK
  <2>2. 1..(pos'[b] - 1) = {}
    BY <2>1
  <2> QED
    BY <1>a, <2>1, <2>2 DEF Passed, Working, Locked
<1>2. CASE Flock(b)
  <2>1. /\ pc[b] = "flock" /\ pc'[b] = "legacy"
        /\ UNCHANGED <<pos, stamped, extracted>>
    BY <1>2, <1>a DEF Flock, Goto, TypeOK
  <2>2. Passed(b)'
    BY <2>1, InsideKeepsPassed DEF Locked
  <2> QED
    BY <1>a, <2>1, <2>2 DEF Working
<1>3. CASE LinkLegacy(b)
  <2>1. /\ pc[b] \in Locked /\ pc'[b] \in {"existing", "copy"}
        /\ UNCHANGED <<pos, stamped, extracted>>
        /\ pc'[b] = "copy" => output'[File(b)] \in {NoFile, Truncated}
    BY <1>3, <1>a, <1>b DEF LinkLegacy, Goto, TypeOK, Locked
  <2>2. Passed(b)'
    BY <2>1, InsideKeepsPassed DEF Locked
  <2>3. pc'[b] = "copy" => output'[File(b)] \notin AcceptedContents(File(b))
    BY <1>b, <2>1, AcceptedFacts DEF TruncationDetected
  <2> QED
    BY <1>a, <1>b, <2>1, <2>2, <2>3 DEF Working, Matches, File, AcceptedContents, Verdict
<1>4. CASE CopyLegacy(b)
  <2>1. /\ pc[b] \in Locked /\ pc'[b] = "existing" /\ UNCHANGED <<pos, stamped, extracted>>
    BY <1>4, <1>a DEF CopyLegacy, Goto, TypeOK, Locked
  <2>2. Passed(b)'
    BY <2>1, InsideKeepsPassed DEF Locked
  <2> QED
    BY <1>a, <2>1, <2>2 DEF Working
<1>5. CASE CheckExisting(b)
  <2>1. pc[b] \in Locked
    BY <1>5 DEF CheckExisting, Locked
  <2>2. CASE /\ output[File(b)] # NoFile /\ UNCHANGED output
             /\ Exit(b, IF Verdict(b, File(b), output[File(b)]) = Accepted THEN 0 ELSE 1)
    <3>1. Verdict(b, File(b), output[File(b)]) = Accepted => Matches(File(b))
      BY <1>a, <1>b, <2>2, AcceptedByOne DEF TypeOK, Matches
    <3>2. PICK code \in {0, 1} : Exit(b, code) /\ (code = 0 => Matches(File(b)))
      BY <2>2, <3>1
    <3>3. code = 0 => output'[File(b)] \in AcceptedContents(File(b))
      BY <2>2, <3>2 DEF Matches
    <3> QED
      BY <1>a, <2>1, <3>2, <3>3, ExitKeepsInv
  <2>3. CASE /\ output' = [output EXCEPT ![File(b)] = NoFile] /\ Goto(b, "fetch")
             /\ UNCHANGED <<pos, stamped, extracted>>
    <3>1. Passed(b)'
      BY <1>a, <2>1, <2>3, InsideKeepsPassed DEF Goto, TypeOK, Locked
    <3>2. output'[File(b)] = NoFile /\ pc'[b] = "fetch"
      BY <1>a, <1>b, <2>3 DEF Goto, TypeOK
    <3> QED
      BY <1>a, <1>b, <2>3, <3>1, <3>2, AcceptedFacts
      DEF Working, Matches, File, AcceptedContents, Verdict
  <2> QED
    BY <1>5, <2>2, <2>3 DEF CheckExisting
<1>6. CASE Fetch(b)
  <2>1. pc[b] = "fetch" /\ UNCHANGED output
    BY <1>6 DEF Fetch
  <2>2. CASE Exit(b, 1)
    BY <1>a, <2>1, <2>2, ExitKeepsInv DEF Locked
  <2>3. CASE /\ UNCHANGED <<pos, stamped, extracted>>
             /\ \/ UNCHANGED <<pc, tmpf>>
                \/ \E a \in Contents : /\ tmpf' = [tmpf EXCEPT ![b] = a]
                                       /\ pc'[b] \in {"post", "check"}
    <3>1. Passed(b)'
      BY <1>a, <2>1, <2>3, InsideKeepsPassed DEF Locked
    <3>2. ~Matches(File(b))'
      BY <1>a, <2>1, <2>3 DEF Working, Matches, File, AcceptedContents, Verdict
    <3>3. pc'[b] \in {"post", "check"} => tmpf'[b] \in Contents
      BY <1>a, <2>1, <2>3 DEF TypeOK
    <3>4. pc'[b] \in {"fetch", "post", "check"}
      BY <2>1, <2>3
    <3> QED
      BY <1>a, <2>3, <3>1, <3>2, <3>3, <3>4 DEF Working
  <2>4. ASSUME uri[b] <= NumUris, NEW a \in Serves[uri[b]][File(b)], a # Failure
        PROVE  a \in Contents
    <3>1. uri[b] \in 1..NumUris
      BY <1>a, <2>4, ConstantFacts DEF TypeOK
    <3> QED
      BY <1>b, <2>4, <3>1, ServesFacts
  <2>5. \A l : Goto(b, l) => pc'[b] = l
    BY <1>a DEF Goto, TypeOK
  <2> QED
    BY <1>6, <2>2, <2>3, <2>4, <2>5 DEF Fetch
<1>7. CASE PostProcess(b)
  <2>1. /\ pc[b] = "post" /\ UNCHANGED <<output, pos, stamped, extracted>>
        /\ \/ pc'[b] = "check" /\ UNCHANGED tmpf
           \/ pc'[b] = "fetch"
    BY <1>7, <1>a DEF PostProcess, NextUri, Goto, TypeOK
  <2>2. Passed(b)'
    BY <2>1, InsideKeepsPassed DEF Locked
  <2>3. ~Matches(File(b))'
    BY <1>a, <2>1 DEF Working, Matches, File, AcceptedContents, Verdict
  <2> QED
    BY <1>a, <2>1, <2>2, <2>3 DEF Working
<1>8. CASE CheckFetched(b)
  <2>1. /\ pc[b] = "check" /\ UNCHANGED <<output, pos, stamped, extracted>>
        /\ \/ /\ pc'[b] = "cat" /\ UNCHANGED tmpf
              /\ rc'[b] = 0 => Verdict(b, File(b), tmpf[b]) = Accepted
           \/ pc'[b] = "fetch"
    BY <1>8, <1>a DEF CheckFetched, NextUri, Goto, TypeOK
  <2>2. Passed(b)'
    BY <2>1, InsideKeepsPassed DEF Locked
  <2>3. ~Matches(File(b))'
    BY <1>a, <2>1 DEF Working, Matches, File, AcceptedContents, Verdict
  <2>4. tmpf[b] \in Contents
    BY <1>a, <2>1 DEF Working
  <2>5. pc'[b] = "cat" /\ rc'[b] = 0 => tmpf[b] \in AcceptedContents(File(b))
    BY <1>b, <2>1, <2>4, AcceptedByOne
  <2> QED
    BY <1>a, <2>1, <2>2, <2>3, <2>4, <2>5 DEF Working, File, AcceptedContents, Verdict
<1>9. CASE Cat(b)
  <2>1. pc[b] = "cat" /\ UNCHANGED output
    BY <1>9 DEF Cat
  <2>2. CASE Exit(b, 1)
    BY <1>a, <2>1, <2>2, ExitKeepsInv DEF Locked
  <2>3. CASE /\ pc'[b] = "mv" /\ part'[b] = tmpf[b]
             /\ UNCHANGED <<pos, rc, stamped, extracted>>
    <3>1. Passed(b)'
      BY <2>1, <2>3, InsideKeepsPassed DEF Locked
    <3> QED
      BY <1>a, <2>1, <2>3, <3>1 DEF Working, Matches, File, AcceptedContents, Verdict
  <2> QED
    BY <1>9, <1>a, <2>2, <2>3 DEF Cat, Goto, TypeOK
<1>10. CASE Move(b)
  <2>1. pc[b] = "mv"
    BY <1>10 DEF Move
  <2>2. CASE Exit(b, 1)
    BY <1>a, <2>1, <2>2, ExitKeepsInv DEF Locked
  <2>3. CASE output' = [output EXCEPT ![File(b)] = part[b]] /\ Exit(b, rc[b])
    <3>1. rc[b] \in {0, 1} /\ output'[File(b)] = part[b]
      BY <1>a, <1>b, <2>3 DEF TypeOK
    <3>2. rc[b] = 0 => part[b] \in AcceptedContents(File(b))
      BY <1>a, <2>1 DEF Working
    <3>3. rc[b] = 0 => output'[File(b)] \in AcceptedContents(File(b))
      BY <3>1, <3>2
    <3> QED
      BY <1>a, <2>1, <2>3, <3>1, <3>3, ExitKeepsInv DEF Locked
  <2> QED
    BY <1>10, <2>2, <2>3 DEF Move
<1>11. CASE TouchDownloaded(b)
  <2>1. pc[b] = "touch" /\ pc'[b] = "extract" /\ stamped'[b] /\ UNCHANGED extracted
    BY <1>11, <1>a DEF TouchDownloaded, Goto, TypeOK
  <2> QED
    BY <1>a, <2>1 DEF Passed, Working, Locked
<1>12. CASE Extract(b)
  <2>1. /\ pc[b] = "extract" /\ pc'[b] \in {"failed", "done"} /\ UNCHANGED stamped
        /\ extracted'[b] = output[Main]
    BY <1>12, <1>a DEF Extract, Goto, TypeOK
  <2>2. output[Main] \in AcceptedContents(Main)
    BY <1>a, <2>1, OrderFacts DEF Passed, Matches
  <2> QED
    BY <1>a, <2>1, <2>2 DEF Passed, Working, Locked
<1>13. CASE Kill(b)
  <2>1. pc'[b] = "dead" /\ UNCHANGED <<stamped, extracted>>
    BY <1>13, <1>a DEF Kill, Goto, TypeOK
  <2> QED
    BY <1>a, <2>1 DEF Passed, Working, Locked
<1> QED
    BY <1>1, <1>2, <1>3, <1>4, <1>5, <1>6, <1>7, <1>8, <1>9, <1>10, <1>11, <1>12, <1>13
    DEF Step

LEMMA DownloadInvStep ==
    ASSUME SameTree, TruncationDetected
    PROVE  DownloadInv /\ [Next]_vars => DownloadInv'
<1> SUFFICES ASSUME DownloadInv, [Next]_vars PROVE DownloadInv'
    OBVIOUS
<1>1. TypeOK'
    BY TypeStep DEF DownloadInv
<1>2. CASE UNCHANGED vars
  <2>1. ASSUME NEW b \in Builds PROVE Passed(b)' /\ Working(b)'
    BY <1>2 DEF vars, wrapper, DownloadInv, Passed, Working, Matches, File,
                AcceptedContents, Verdict, Locked
  <2> QED
    BY <1>1, <1>2, <2>1 DEF vars, DownloadInv, AcceptedContents, Verdict, Main
<1>3. ASSUME NEW b \in Builds, Start(b) \/ Step(b) \/ Kill(b) PROVE DownloadInv'
  <2>1. Keeps
    BY <1>3, KeepsStep
  <2>2. /\ Passed(b)' /\ Working(b)'
        /\ extracted'[b] # NoFile => extracted'[b] \in AcceptedContents(Main)
    BY <1>1, <1>3, <2>1, OwnStep
  <2>3. ASSUME NEW c \in Builds, c # b
        PROVE  /\ Passed(c)' /\ Working(c)'
               /\ extracted'[c] # NoFile => extracted'[c] \in AcceptedContents(Main)
    <3>1. Passed(c)' /\ Working(c)'
      BY <1>3, <2>3, OthersKeepInv
    <3>2. extracted'[c] = extracted[c]
      BY <1>3, <2>3, OtherBuilds DEF DownloadInv
    <3> QED
      BY <3>1, <3>2 DEF DownloadInv
  <2>4. ASSUME NEW c \in Builds
        PROVE  /\ Passed(c)' /\ Working(c)'
               /\ extracted'[c] # NoFile => extracted'[c] \in AcceptedContents(Main)
    BY <2>2, <2>3
  <2> QED
    BY <1>1, <2>4 DEF DownloadInv, AcceptedContents, Verdict, Main
<1> QED
    BY <1>2, <1>3 DEF Next

\* The download invariant holds for ever, in one tree whose hashes detect truncation.
THEOREM DownloadInvariant ==
    ASSUME SameTree, TruncationDetected
    PROVE  Spec => []DownloadInv
<1>1. Init => DownloadInv
    BY DownloadInvInit
<1>2. DownloadInv /\ [Next]_vars => DownloadInv'
    BY DownloadInvStep
<1> QED
    BY <1>1, <1>2, PTL DEF Spec

\* Types and flock's mutual exclusion need no assumption on the trees.
THEOREM DownloadTypes == Spec => []TypeOK
<1>1. Init => TypeOK
    BY TypeInit
<1>2. TypeOK /\ [Next]_vars => TypeOK'
    BY TypeStep
<1> QED
    BY <1>1, <1>2, PTL DEF Spec

\* A build extracts only files that passed check-hash, whatever the others do between
\* its download and its extraction.
THEOREM ExtractionIsChecked ==
    ASSUME SameTree, TruncationDetected
    PROVE  Spec => []ExtractsCheckedFile
<1>1. DownloadInv => ExtractsCheckedFile
    BY AcceptedFacts, OrderFacts DEF DownloadInv, ExtractsCheckedFile
<1> QED
    BY <1>1, DownloadInvariant, PTL

--------------------------------------------------------------------------------
(* Files appear under their final name only when check-hash let them through. *)

LEMMA LegacyStays ==
    ASSUME NEW b \in Builds, Start(b) \/ Step(b) \/ Kill(b)
    PROVE  UNCHANGED legacy
BY DEF Step, Start, Flock, LinkLegacy, CopyLegacy, CheckExisting, Exit, Fetch, PostProcess,
       CheckFetched, Cat, Move, TouchDownloaded, Extract, Kill

\* What a step may do to the output: nothing, or give the build's own file another
\* content, which is none at all, comes from the legacy directory or was let through.
LEMMA OutputChange ==
    ASSUME OutputInv, NEW b \in Builds, Start(b) \/ Step(b) \/ Kill(b)
    PROVE  \/ UNCHANGED output
           \/ \E c : /\ output' = [output EXCEPT ![File(b)] = c]
                     /\ c = NoFile \/ legacy[File(b)] # NoFile \/ LetThrough(b, c)
<1>1. CASE LinkLegacy(b)
    BY <1>1 DEF LinkLegacy
<1>2. CASE CopyLegacy(b)
    BY <1>2 DEF CopyLegacy, OutputInv, MayPublish
<1>3. CASE CheckExisting(b)
    BY <1>3 DEF CheckExisting
<1>4. CASE Move(b)
    BY <1>4 DEF Move, OutputInv, MayPublish
<1>5. CASE ~(LinkLegacy(b) \/ CopyLegacy(b) \/ CheckExisting(b) \/ Move(b))
    BY <1>5 DEF Step, Start, Flock, Fetch, PostProcess, CheckFetched, Cat, TouchDownloaded,
        Extract, Kill
<1> QED
    BY <1>1, <1>2, <1>3, <1>4, <1>5

LEMMA OutputIsCheckedStep ==
    ASSUME OutputInv, NEW b \in Builds, Start(b) \/ Step(b) \/ Kill(b)
    PROVE  OutputIsChecked'
<1> SUFFICES ASSUME NEW f \in Files, legacy'[f] = NoFile, output'[f] # NoFile
             PROVE  \E a \in Builds : Verdict(a, f, output'[f]) \in {Accepted, NoHash}
    BY DEF OutputIsChecked, Verdict
<1>1. legacy[f] = NoFile /\ File(b) \in Files /\ output \in [Files -> Contents \cup {NoFile}]
    BY LegacyStays, FileFacts DEF OutputInv, TypeOK
<1>2. CASE output'[f] = output[f]
    BY <1>1, <1>2 DEF OutputInv, OutputIsChecked
<1>3. CASE /\ f = File(b)
           /\ output'[f] = NoFile \/ legacy[f] # NoFile \/ LetThrough(b, output'[f])
    BY <1>1, <1>3 DEF LetThrough
<1>4. output'[f] = output[f] \/ /\ f = File(b)
                                /\ \/ output'[f] = NoFile \/ legacy[f] # NoFile
                                   \/ LetThrough(b, output'[f])
    BY <1>1, OutputChange
<1> QED
    BY <1>2, <1>3, <1>4

\* A build that reaches one of the steps before a publication does so with a file the
\* step may publish; any other build is where it was.
LEMMA OnItsWay ==
    ASSUME OutputInv, NEW b \in Builds, Start(b) \/ Step(b) \/ Kill(b), NEW c \in Builds
    PROVE  MayPublish(c)'
<1>1. UNCHANGED legacy /\ TypeOK /\ MayPublish(c)
    BY LegacyStays DEF OutputInv
<1>2. CASE c # b
    BY <1>1, <1>2, OtherBuilds DEF MayPublish, File, LetThrough, Verdict
<1>3. CASE c = b /\ LinkLegacy(b)
  <2>1. UNCHANGED pos /\ pc'[b] \in {"existing", "copy"}
        /\ (pc'[b] = "copy" => legacy[File(b)] # NoFile)
    BY <1>1, <1>3 DEF LinkLegacy, Goto, TypeOK
  <2> QED
    BY <1>1, <1>3, <2>1 DEF MayPublish, File
<1>4. CASE c = b /\ CheckFetched(b)
  <2>1. /\ UNCHANGED pos /\ pc'[b] \in {"cat", "fetch"}
        /\ pc'[b] = "cat" => LetThrough(b, tmpf[b]) /\ UNCHANGED tmpf
    BY <1>1, <1>4 DEF CheckFetched, NextUri, Goto, TypeOK, LetThrough
  <2> QED
    BY <1>1, <1>4, <2>1 DEF MayPublish, File, LetThrough, Verdict
<1>5. CASE c = b /\ Cat(b)
  <2>1. CASE pc'[b] = "mv" /\ UNCHANGED pos /\ part'[b] = tmpf[b] /\ pc[b] = "cat"
    BY <1>1, <1>5, <2>1 DEF MayPublish, File, LetThrough, Verdict
  <2>2. CASE pc'[b] \notin {"copy", "cat", "mv"}
    BY <1>5, <2>2 DEF MayPublish
  <2> QED
    BY <1>1, <1>5, <2>1, <2>2 DEF Cat, Exit, Goto, TypeOK
<1>6. CASE c = b /\ Fetch(b)
  <2>1. pc'[b] \notin {"copy", "cat", "mv"}
    BY <1>1, <1>6 DEF Fetch, Exit, Goto, TypeOK
  <2> QED
    BY <1>6, <2>1 DEF MayPublish
<1>7. CASE c = b /\ ~(LinkLegacy(b) \/ CheckFetched(b) \/ Cat(b) \/ Fetch(b))
  <2>1. CASE CheckExisting(b) \/ Move(b)
    BY <1>1, <1>7, <2>1 DEF MayPublish, CheckExisting, Move, Exit, Goto, TypeOK
  <2>2. CASE Start(b) \/ Flock(b) \/ CopyLegacy(b) \/ PostProcess(b)
    BY <1>1, <1>7, <2>2 DEF MayPublish, Start, Flock, CopyLegacy, PostProcess, NextUri, Goto, TypeOK
  <2>3. CASE TouchDownloaded(b) \/ Extract(b) \/ Kill(b)
    BY <1>1, <1>7, <2>3 DEF MayPublish, TouchDownloaded, Extract, Kill, Goto, TypeOK
  <2> QED
    BY <1>7, <2>1, <2>2, <2>3 DEF Step
<1> QED
    BY <1>2, <1>3, <1>4, <1>5, <1>6, <1>7

\* Whatever the trees, the mirrors, the kills and the disk faults are, a file that no
\* legacy directory holds appears in the download directory only after a check-hash let
\* it through, and whole.
THEOREM NothingUnchecked == Spec => []OutputIsChecked
<1>1. Init => OutputInv
  <2> SUFFICES ASSUME Init PROVE OutputInv
    OBVIOUS
  <2>1. TypeOK
    BY TypeInit
  <2> QED
    BY <2>1 DEF Init, OutputInv, OutputIsChecked, MayPublish
<1>2. OutputInv /\ [Next]_vars => OutputInv'
  <2> SUFFICES ASSUME OutputInv, [Next]_vars PROVE OutputInv'
    OBVIOUS
  <2>1. TypeOK'
    BY TypeStep DEF OutputInv
  <2>2. CASE UNCHANGED vars
    BY <2>1, <2>2
    DEF vars, wrapper, OutputInv, OutputIsChecked, MayPublish, LetThrough, Verdict, File
  <2>3. ASSUME NEW b \in Builds, Start(b) \/ Step(b) \/ Kill(b) PROVE OutputInv'
    <3>1. OutputIsChecked'
      BY <2>3, OutputIsCheckedStep
    <3>2. ASSUME NEW c \in Builds PROVE MayPublish(c)'
      BY <2>3, OnItsWay
    <3> QED
      BY <2>1, <3>1, <3>2 DEF OutputInv
  <2> QED
    BY <2>2, <2>3 DEF Next
<1>3. OutputInv => OutputIsChecked
    BY DEF OutputInv
<1> QED
    BY <1>1, <1>2, <1>3, PTL DEF Spec

--------------------------------------------------------------------------------
(* The download directory is the store of DownloadStore. *)

LEMMA StoreStep ==
    ASSUME SameTree, TruncationDetected, DownloadInv, [Next]_vars
    PROVE  [Store!Next]_<<output, stamped>>
<1> USE DEF DownloadInv
<1>0. TypeOK'
    BY TypeStep
<1>1. ASSUME NEW f \in Files PROVE Store!IsGood(f) <=> Matches(f)
    BY <1>1, AcceptedFacts DEF Store!IsGood, Matches
<1>2. ASSUME NEW b \in Builds, Start(b) \/ Step(b) \/ Kill(b)
      PROVE  [Store!Next]_<<output, stamped>>
  <2>1. Keeps
    BY <1>2, KeepsStep
  <2>2. CASE UNCHANGED <<output, stamped>>
    BY <2>2
  <2>3. CASE TouchDownloaded(b)
    <3>1. pc[b] = "touch" /\ stamped' = [stamped EXCEPT ![b] = TRUE] /\ UNCHANGED output
      BY <2>3 DEF TouchDownloaded
    <3>2. \A f \in Files : Store!IsGood(f)
      BY <1>1, <3>1 DEF Passed
    <3>3. Store!Stamp(b)
      BY <3>1, <3>2 DEF Store!Stamp
    <3> QED
      BY <3>3 DEF Store!Next
  <2>4. CASE /\ UNCHANGED stamped /\ ~UNCHANGED output
             /\ \E c : output' = [output EXCEPT ![File(b)] = c]
    <3>1. PICK c : output' = [output EXCEPT ![File(b)] = c]
      BY <2>4
    <3>2. File(b) \in Files /\ output \in [Files -> Contents \cup {NoFile}]
          /\ output' \in [Files -> Contents \cup {NoFile}]
      BY <1>0, FileFacts DEF TypeOK
    <3>3. c = output'[File(b)] /\ c \in Contents \cup {NoFile}
      BY <3>1, <3>2
    <3>4. ~Matches(File(b))
      BY <2>1, <2>4, <3>1, <3>2, <3>3 DEF Keeps
    <3>5. Store!Change(File(b))
      BY <1>1, <2>4, <3>1, <3>2, <3>3, <3>4 DEF Store!Change
    <3> QED
      BY <3>2, <3>5 DEF Store!Next
  <2>5. CASE LinkLegacy(b) \/ CopyLegacy(b)
    BY <2>2, <2>4, <2>5 DEF LinkLegacy, CopyLegacy
  <2>6. CASE CheckExisting(b)
    BY <2>2, <2>4, <2>6 DEF CheckExisting, Exit
  <2>7. CASE Move(b)
    BY <2>2, <2>4, <2>7 DEF Move, Exit
  <2>8. CASE Fetch(b) \/ PostProcess(b) \/ CheckFetched(b) \/ Cat(b)
    BY <2>2, <2>8 DEF Fetch, PostProcess, CheckFetched, Cat, Exit
  <2>9. CASE Start(b) \/ Flock(b) \/ Extract(b) \/ Kill(b)
    BY <2>2, <2>9 DEF Start, Flock, Extract, Kill
  <2> QED
    BY <1>2, <2>3, <2>5, <2>6, <2>7, <2>8, <2>9 DEF Step
<1>3. CASE UNCHANGED vars
    BY <1>3 DEF vars
<1> QED
    BY <1>2, <1>3 DEF Next

\* The download directory shared by any number of builds of one tree is the store of
\* DownloadStore: matching files stay, and a stamp means that all files match.
THEOREM DownloadImplementsStore ==
    ASSUME SameTree, TruncationDetected
    PROVE  Spec => ImplementsStore
<1>1. Init => Store!Init
    BY DEF Init, Store!Init
<1>2. DownloadInv /\ [Next]_vars => [Store!Next]_<<output, stamped>>
    BY StoreStep
<1> QED
    BY <1>1, <1>2, DownloadInvariant, PTL DEF Spec, ImplementsStore, Store!Spec
================================================================================
