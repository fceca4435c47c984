----------------------------- MODULE GitCacheProofs ----------------------------
(***************************************************************************)
(* What GitCache guarantees for every set of changesets, commits and       *)
(* submodules, and for every number of kills: the types, and, until a kill *)
(* hits a removal of files and from the next cache made afresh on, that    *)
(* the archive of a run is the one an empty cache would have given.                                        *)
(***************************************************************************)
EXTENDS GitCache, TLAPS

LEMMA SubOfType == ASSUME NEW c \in SomeCommit PROVE SubOf(c) \in Versions \cup {None}
  BY DEF SubOf, Versions, SomeCommit

LEMMA NoSubType == NoSub \in [files : SubFiles, subst : SomeCommit, linked : BOOLEAN]
  BY DEF NoSub, SubFiles, SomeCommit

LEMMA NoTreeType == NoTree \in Trees
  BY DEF NoTree, Trees, SomeCommit

LEMMA TypeInit == ASSUME Init PROVE TypeOK /\ CheckedOut
<1> USE GitCacheAssumption DEF Init, SomeCommit
<1>1. remote \in [Names -> SomeCommit] /\ named \in [Names -> SUBSET Commits]
  OBVIOUS
<1>2. tags \in [Names -> SomeCommit] /\ heads \in [Names -> SomeCommit]
  BY DEF NoRefs
<1>3. tree \in Trees /\ sub \in [files : SubFiles, subst : SomeCommit, linked : BOOLEAN]
  BY NoSubType, NoTreeType
<1>4. kills \in 0..MaxKills /\ moves \in 0..MaxMoves /\ runs \in 0..MaxRuns
  OBVIOUS
<1>5. cut \in BOOLEAN
  OBVIOUS
<1> QED
  BY <1>1, <1>2, <1>3, <1>4, <1>5 DEF TypeOK, CheckedOut, Running, Steps

\* A run's own steps.
LEMMA TypeStep == ASSUME TypeOK, CheckedOut, Step PROVE TypeOK' /\ CheckedOut'
<1>0. SubOf(index) \in SubFiles
  BY SubOfType, GitCacheAssumption DEF TypeOK, SubFiles, SubOf, SomeCommit
<1>1. CASE InitRepo
  BY <1>0, <1>1, GitCacheAssumption DEF InitRepo, TypeOK, CheckedOut, Running, Steps, server, cache, repo, request
<1>2. CASE Fetch
  BY <1>0, <1>2, GitCacheAssumption DEF Fetch, TypeOK, CheckedOut, Running, Steps, SomeCommit, server, cache, repo, request
<1>3. CASE FetchSpecial
  BY <1>0, <1>3, GitCacheAssumption DEF FetchSpecial, TypeOK, CheckedOut, Running, Steps, SomeCommit, server, cache, repo, request
<1>4. CASE Verify
  BY <1>0, <1>4, GitCacheAssumption DEF Verify, TypeOK, CheckedOut, Running, Steps, server, cache, repo, request
<1>5. CASE Deregister
  BY <1>0, <1>5, NoSubType, GitCacheAssumption DEF Deregister, Registered, TypeOK, CheckedOut, Running, Steps, server, cache, repo, request
<1>6. CASE Checkout
  <2>1. index' \in Commits
    BY <1>6 DEF Checkout, TypeOK, CheckedOut, SomeCommit
  <2>2. tree' \in Trees /\ tree'.commit = index'
    BY <1>6, <2>1 DEF Checkout, TypeOK, Trees, SomeCommit
  <2>3. head' \in Names \cup {None} /\ pc' = "clean"
    BY <1>6 DEF Checkout, TypeOK
  <2>4. UNCHANGED <<server, locks, torn, tags, heads, sub, request, retried, archive, kills, cut>>
    BY <1>6 DEF Checkout
  <2>5. TypeOK'
    BY <2>1, <2>2, <2>3, <2>4 DEF TypeOK, SomeCommit, Running, Steps, server, request
  <2> QED
    BY <2>1, <2>2, <2>3, <2>5 DEF CheckedOut
<1>7. CASE Clean
  BY <1>0, <1>7, NoSubType, GitCacheAssumption DEF Clean, TypeOK, CheckedOut, Running, Steps, Trees, server, cache, repo, request
<1>8. CASE Submodules
  BY <1>0, <1>8, GitCacheAssumption DEF Submodules, TypeOK, CheckedOut, Running, Steps, SubFiles, SomeCommit, server, cache, repo, request
<1>9. CASE Subst
  BY <1>0, <1>9, GitCacheAssumption DEF Subst, Substituted, TypeOK, CheckedOut, Running, Steps, SomeCommit, Trees, server, cache, repo, request
<1>10. CASE Archive
  BY <1>0, <1>10, GitCacheAssumption DEF Archive, TypeOK, CheckedOut, Running, Steps, SomeCommit, Trees, server, cache, repo, request
<1>11. CASE Fail
  BY <1>0, <1>11, GitCacheAssumption DEF Fail, OnError, TypeOK, CheckedOut, Running, Steps, server, cache, repo, request
<1>12. CASE Wipe
  BY <1>0, <1>12, NoSubType, NoTreeType, GitCacheAssumption DEF Wipe, TypeOK, CheckedOut, Running, Steps, NoRefs, SomeCommit, server, cache, repo, request
<1> QED
  BY <1>1, <1>2, <1>3, <1>4, <1>5, <1>6, <1>7, <1>8, <1>9, <1>10, <1>11, <1>12 DEF Step

\* A kill, whatever it leaves.
LEMMA TypeKill == ASSUME TypeOK, Kill PROVE TypeOK' /\ CheckedOut'
<1>0. SubOf(index) \in SubFiles
  BY SubOfType DEF TypeOK, SubFiles
<1>1. /\ pc' = "dead" /\ kills' \in 0..MaxKills /\ cut' \in BOOLEAN /\ archive' = archive
      /\ UNCHANGED <<remote, named, outage, moves, cset, recurse, runs, retried>>
  BY GitCacheAssumption DEF Kill, TypeOK, server, request
<1>2. /\ [commit |-> None, subst |-> None, junk |-> TRUE] \in Trees
      /\ [tree EXCEPT !.subst = index, !.junk = TRUE] \in Trees
  <2>1. tree = [commit |-> tree.commit, subst |-> tree.subst, junk |-> tree.junk]
    BY DEF TypeOK, Trees
  <2> QED
    BY <2>1 DEF TypeOK, Trees, SomeCommit
<1>3. LET S == [files : SubFiles, subst : SomeCommit, linked : BOOLEAN] IN
      /\ [sub EXCEPT !.files = Mixed] \in S /\ [sub EXCEPT !.linked = FALSE] \in S
      /\ [sub EXCEPT !.files = Mixed, !.subst = index] \in S
      /\ [files |-> Mixed, subst |-> None, linked |-> TRUE] \in S
  BY DEF TypeOK, SubFiles, SomeCommit
<1>4. \A refs \in [Names -> SomeCommit] : Lost(refs) \subseteq [Names -> SomeCommit]
  BY DEF Lost, SomeCommit
<1>5. /\ tree' \in Trees
      /\ sub' \in [files : SubFiles, subst : SomeCommit, linked : BOOLEAN]
  <2>1. CASE KillGit
    BY <1>2, <1>3, <2>1, NoSubType DEF KillGit, cache, TypeOK
  <2>2. CASE KillFiles
    BY <1>2, <1>3, <2>2, NoSubType DEF KillFiles, TypeOK
  <2>3. CASE KillWipe
    BY <1>2, <1>3, <2>3, NoSubType DEF KillWipe, TypeOK
  <2> QED
    BY <2>1, <2>2, <2>3 DEF Kill
<1>6. /\ locks' \subseteq {"config", "refs", "index"} /\ torn' \in BOOLEAN
      /\ tags' \in [Names -> SomeCommit] /\ heads' \in [Names -> SomeCommit]
      /\ head' \in Names \cup {None} /\ index' \in SomeCommit
  <2>1. CASE KillGit
    BY <2>1 DEF KillGit, Locking, cache, repo, TypeOK, SomeCommit
  <2>2. CASE KillFiles
    BY <2>2 DEF KillFiles, Locking, repo, TypeOK
  <2>3. CASE KillWipe
    BY <1>4, <2>3 DEF KillWipe, TypeOK, SomeCommit
  <2> QED
    BY <2>1, <2>2, <2>3 DEF Kill
<1> QED
  BY <1>1, <1>5, <1>6 DEF TypeOK, CheckedOut, Running, Steps

LEMMA TypeOther ==
  ASSUME TypeOK, CheckedOut,
         \/ \E n \in Names, r \in BOOLEAN : Call(n, r)
         \/ \E n \in Names, c \in Commits : MoveTag(n, c)
         \/ UNCHANGED vars
  PROVE  TypeOK' /\ CheckedOut'
<1>1. ASSUME NEW n \in Names, NEW r \in BOOLEAN, Call(n, r) PROVE TypeOK' /\ CheckedOut'
  <2>1. runs' \in 0..MaxRuns
    BY <1>1, GitCacheAssumption DEF Call, TypeOK
  <2>2. pc' = "init" /\ pc' \in Running
    BY <1>1 DEF Call, Running, Steps
  <2> QED
    BY <1>1, <2>1, <2>2 DEF Call, TypeOK, CheckedOut, server, cache, repo
<1>2. ASSUME NEW n \in Names, NEW c \in Commits, MoveTag(n, c) PROVE TypeOK' /\ CheckedOut'
  <2>1. remote' \in [Names -> SomeCommit] /\ named' \in [Names -> SUBSET Commits]
    BY <1>2 DEF MoveTag, TypeOK, SomeCommit
  <2>2. moves' \in 0..MaxMoves
    BY <1>2, GitCacheAssumption DEF MoveTag, TypeOK
  <2> QED
    BY <1>2, <2>1, <2>2 DEF MoveTag, TypeOK, CheckedOut, cache, repo, request
<1>3. CASE UNCHANGED vars
  BY <1>3 DEF vars, TypeOK, CheckedOut, Running, Steps, server, cache, repo, request
<1> QED
  BY <1>1, <1>2, <1>3

LEMMA TypeNext == ASSUME TypeOK, CheckedOut, [Next]_vars PROVE TypeOK' /\ CheckedOut'
  BY TypeStep, TypeKill, TypeOther DEF Next

\* The variables keep their types, and what a run checks out is a commit.
THEOREM GitTypes == Spec => []TypeOK
<1>1. Init => TypeOK /\ CheckedOut
  BY TypeInit
<1>2. TypeOK /\ CheckedOut /\ [Next]_vars => TypeOK' /\ CheckedOut'
  BY TypeNext
<1> QED
  BY <1>1, <1>2, PTL DEF Spec

--------------------------------------------------------------------------------
(* Reproducible archives *)

Reproducible == RefsInv /\ SubInv /\ FilesInv /\ ArchiveIsReproducible

LEMMA InitReproducible == ASSUME Init PROVE Reproducible
<1>1. RefsInv
  BY GitCacheAssumption DEF Init, RefsInv, NoRefs
<1>2. SubInv /\ FilesInv /\ ArchiveIsReproducible
  BY DEF Init, SubInv, NoSub, FilesInv, ArchiveIsReproducible
<1> QED
  BY <1>1, <1>2 DEF Reproducible

\* A run's own steps.
LEMMA StepReproducible == ASSUME GitInv, ~cut, Step PROVE Reproducible'
<1> USE DEF GitInv, Reproducible
<1>1. CASE InitRepo
  BY <1>1, GitCacheAssumption DEF InitRepo, RefsInv, SubInv, FilesInv, ArchiveIsReproducible, FreshTree, FreshSub, Wanted, server, cache, repo, request
<1>2. CASE Fetch
  BY <1>2, GitCacheAssumption DEF Fetch, RefsInv, SubInv, FilesInv, ArchiveIsReproducible, FreshTree, FreshSub, Wanted, TypeOK, server, request
<1>3. CASE FetchSpecial
  BY <1>3, GitCacheAssumption DEF FetchSpecial, RefsInv, SubInv, FilesInv, ArchiveIsReproducible, FreshTree, FreshSub, Wanted, TypeOK, server, request
<1>4. CASE Verify
  BY <1>4, GitCacheAssumption DEF Verify, RefsInv, SubInv, FilesInv, ArchiveIsReproducible, FreshTree, FreshSub, Wanted, server, cache, repo, request
<1>5. CASE Deregister
  BY <1>5, GitCacheAssumption DEF Deregister, RefsInv, SubInv, FilesInv, ArchiveIsReproducible, FreshTree, FreshSub, Wanted, Registered, server, repo, request
<1>6. CASE Checkout
  <2>1. index' \in named[cset] /\ sub = NoSub /\ UNCHANGED <<named, cset, sub>>
    BY <1>6 DEF Checkout, CheckedOut, RefsInv, FilesInv, TypeOK, server, request
  <2>2. pc' = "clean" /\ tree'.subst = None
    BY <1>6 DEF Checkout, TypeOK, Trees
  <2>3. RefsInv' /\ ArchiveIsReproducible'
    BY <1>6, <2>2 DEF Checkout, RefsInv, ArchiveIsReproducible, server
  <2> QED
    BY <2>1, <2>2, <2>3 DEF SubInv, FilesInv, NoSub
<1>7. CASE Clean
  BY <1>7, GitCacheAssumption DEF Clean, RefsInv, SubInv, FilesInv, ArchiveIsReproducible, FreshTree, FreshSub, Wanted, TypeOK, CheckedOut, Trees, server, repo, request
<1>8. CASE Submodules
  <2>1. sub = NoSub /\ recurse /\ FreshTree(None) /\ index \in named[cset]
    BY <1>8 DEF Submodules, FilesInv
  <2>2. /\ pc' = "subst"
        /\ UNCHANGED <<remote, named, tags, heads, index, tree, recurse, cset>>
    BY <1>8 DEF Submodules, server, repo, request
  <2>3. sub' = IF SubOf(index) = None THEN NoSub
               ELSE [files |-> SubOf(index), subst |-> None, linked |-> TRUE]
    BY <1>8, <2>1 DEF Submodules, NoSub
  <2>4. RefsInv' /\ ArchiveIsReproducible'
    BY <2>2 DEF RefsInv, ArchiveIsReproducible
  <2>5. SubInv'
    BY <2>2, <2>3 DEF SubInv, SubOf, NoSub
  <2>6. FilesInv'
    BY <2>1, <2>2, <2>3 DEF FilesInv, FreshTree, FreshSub, Wanted, SubOf
  <2> QED
    BY <2>4, <2>5, <2>6
<1>9. CASE Subst
  <2>1. /\ FreshTree(None) /\ FreshSub(Wanted, None) /\ index \in named[cset]
        /\ index \in Commits
    BY <1>9 DEF Subst, FilesInv, CheckedOut
  <2>2. /\ pc' = "archive"
        /\ UNCHANGED <<remote, named, tags, heads, index, recurse, cset>>
    BY <1>9 DEF Subst, server, repo, request
  <2>3. tree' = [commit |-> index, subst |-> index, junk |-> FALSE]
    BY <1>9, <2>1, GitCacheAssumption DEF Subst, Substituted, FreshTree
  <2>4. sub' = IF Wanted = None THEN NoSub
               ELSE [files |-> Wanted, subst |-> index, linked |-> TRUE]
    <3>1. sub' = [sub EXCEPT !.subst = Substituted(sub.files, sub.subst)]
      BY <1>9 DEF Subst
    <3>2. CASE Wanted = None
      BY <2>1, <3>1, <3>2 DEF FreshSub, NoSub, Substituted
    <3>3. CASE Wanted # None
      <4>1. sub = [files |-> Wanted, subst |-> None, linked |-> TRUE]
        BY <2>1, <3>3 DEF FreshSub
      <4>2. Substituted(sub.files, sub.subst) = index
        BY <3>3, <4>1 DEF Substituted
      <4>3. sub' = [sub EXCEPT !.subst = index]
        BY <3>1, <4>2
      <4>4. sub' = [files |-> Wanted, subst |-> index, linked |-> TRUE]
        BY <4>1, <4>3
      <4> QED
        BY <3>3, <4>4
    <3> QED
      BY <3>2, <3>3
  <2>5. RefsInv' /\ ArchiveIsReproducible'
    BY <2>2 DEF RefsInv, ArchiveIsReproducible
  <2>6. SubInv'
    BY <2>2, <2>4 DEF SubInv, Wanted, SubOf, NoSub
  <2>7. FilesInv'
    BY <2>1, <2>2, <2>3, <2>4 DEF FilesInv, FreshTree, FreshSub, Wanted, SubOf
  <2> QED
    BY <2>5, <2>6, <2>7
<1>10. CASE Archive
  <2>1. FreshTree(index) /\ FreshSub(Wanted, index) /\ index \in named[cset]
    BY <1>10 DEF Archive, FilesInv
  <2>2. pc' = "done" /\ UNCHANGED <<server, cache, cset, recurse>>
    BY <1>10 DEF Archive, request
  <2>3. archive' = Fresh(index, recurse)
    BY <1>10, <2>1 DEF Archive, Fresh, FreshTree, FreshSub, Wanted, NoSub
  <2>4. archive'.tree.commit = index
    BY <2>3 DEF Fresh
  <2> QED
    <3>1. RefsInv' /\ SubInv' /\ FilesInv'
      BY <2>2 DEF RefsInv, SubInv, SubOf, FilesInv, server, cache, repo
    <3>2. archive' = Fresh(archive'.tree.commit, recurse')
      BY <2>2, <2>3, <2>4
    <3>3. archive'.tree.commit \in named'[cset']
      BY <2>1, <2>2, <2>4 DEF server
    <3> QED
      BY <3>1, <3>2, <3>3 DEF ArchiveIsReproducible, Fresh, SubOf
<1>11. CASE Fail
  BY <1>11, GitCacheAssumption DEF Fail, RefsInv, SubInv, FilesInv, ArchiveIsReproducible, FreshTree, FreshSub, Wanted, OnError, Running, Steps, server, cache, repo, request
<1>12. CASE Wipe
  BY <1>12, GitCacheAssumption DEF Wipe, RefsInv, SubInv, FilesInv, ArchiveIsReproducible, FreshTree, FreshSub, Wanted, NoRefs, NoSub, server, request
<1> QED
  BY <1>1, <1>2, <1>3, <1>4, <1>5, <1>6, <1>7, <1>8, <1>9, <1>10, <1>11, <1>12 DEF Step

\* A kill that hits no removal.
LEMMA KillReproducible == ASSUME GitInv, ~cut, ~cut', Kill PROVE Reproducible'
<1> USE DEF GitInv
<1>1. /\ pc' = "dead" /\ pc \notin {"deregister", "wipe"}
      /\ UNCHANGED <<remote, named, cset>>
  BY DEF Kill, server, request
<1>2. FilesInv' /\ ArchiveIsReproducible'
  BY <1>1 DEF FilesInv, ArchiveIsReproducible
<1>3. CASE KillGit
  <2>1. UNCHANGED <<heads, index, sub>> /\ \A n \in Names : tags'[n] \in {tags[n], remote[n]}
    BY <1>3 DEF KillGit, cache, repo, TypeOK
  <2> QED
    BY <1>1, <1>2, <2>1 DEF Reproducible, RefsInv, SubInv, SubOf
<1>4. CASE KillFiles
  <2>1. UNCHANGED <<tags, heads, index>>
    BY <1>1, <1>4 DEF KillFiles, repo
  <2>2. SubInv'
    <3>1. CASE pc = "submodules"
      BY <1>1, <1>4, <2>1, <3>1 DEF KillFiles, SubInv, SubOf, NoSub
    <3>2. CASE pc = "subst"
      <4>1. ~sub.linked => sub' = sub
        BY <1>4, <3>2 DEF KillFiles, SubInv, NoSub
      <4>2. sub'.linked = sub.linked
        BY <1>4, <3>2 DEF KillFiles, TypeOK
      <4> QED
        BY <2>1, <4>1, <4>2 DEF SubInv, SubOf, NoSub
    <3> QED
      BY <1>1, <1>4, <3>1, <3>2 DEF KillFiles
  <2> QED
    BY <1>1, <1>2, <2>1, <2>2 DEF Reproducible, RefsInv
<1> QED
  BY <1>1, <1>3, <1>4 DEF Kill, KillWipe

LEMMA OtherReproducible ==
  ASSUME GitInv, ~cut,
         \/ \E n \in Names, r \in BOOLEAN : Call(n, r)
         \/ \E n \in Names, c \in Commits : MoveTag(n, c)
         \/ UNCHANGED vars
  PROVE  Reproducible'
<1> USE DEF GitInv, Reproducible
<1>1. ASSUME NEW n \in Names, NEW r \in BOOLEAN, Call(n, r) PROVE Reproducible'
  BY <1>1 DEF Call, RefsInv, SubInv, SubOf, FilesInv, ArchiveIsReproducible, server, cache, repo
<1>2. ASSUME NEW n \in Names, NEW c \in Commits, MoveTag(n, c) PROVE Reproducible'
  <2>1. UNCHANGED <<tags, heads, index, tree, sub, pc, cset, recurse, archive>>
    BY <1>2 DEF MoveTag, cache, repo, request
  <2>2. \A m \in Names : /\ named[m] \subseteq named'[m]
                         /\ remote'[m] \in named'[m] \cup {None}
    BY <1>2 DEF MoveTag, TypeOK, RefsInv
  <2>3. RefsInv' /\ SubInv'
    BY <2>1, <2>2 DEF RefsInv, SubInv, SubOf
  <2>4. FilesInv' /\ ArchiveIsReproducible'
    BY <2>1, <2>2 DEF TypeOK, FilesInv, FreshTree, FreshSub, Wanted, SubOf,
                      ArchiveIsReproducible, Fresh
  <2> QED
    BY <2>3, <2>4
<1>3. CASE UNCHANGED vars
  BY <1>3 DEF vars, RefsInv, SubInv, SubOf, FilesInv, FreshTree, FreshSub, Wanted,
              ArchiveIsReproducible, Fresh, server, cache, repo, request
<1> QED
  BY <1>1, <1>2, <1>3

\* The references stay those the server has named, whatever a kill hits.
LEMMA RefsNext == ASSUME TypeOK, RefsInv, [Next]_vars PROVE RefsInv'
<1>1. CASE Step
  BY <1>1 DEF Step, InitRepo, Fetch, FetchSpecial, Verify, Deregister, Checkout, Clean,
              Submodules, Subst, Archive, Fail, OnError, Wipe, NoRefs, TypeOK, RefsInv,
              server, cache, repo
<1>2. CASE Kill
  <2>1. UNCHANGED <<remote, named>>
    BY <1>2 DEF Kill, server
  <2>2. \A n \in Names : /\ tags'[n] \in {tags[n], remote[n], None}
                         /\ heads'[n] \in {heads[n], None}
    BY <1>2 DEF Kill, KillGit, KillFiles, KillWipe, Lost, TypeOK, cache, repo
  <2> QED
    BY <2>1, <2>2 DEF RefsInv
<1>3. ASSUME NEW n \in Names, NEW r \in BOOLEAN, Call(n, r) PROVE RefsInv'
  BY <1>3 DEF Call, RefsInv, server, cache, repo
<1>4. ASSUME NEW n \in Names, NEW c \in Commits, MoveTag(n, c) PROVE RefsInv'
  BY <1>4 DEF MoveTag, TypeOK, RefsInv, cache, repo
<1>5. CASE UNCHANGED vars
  BY <1>5 DEF vars, RefsInv, server, cache, repo
<1> QED
  BY <1>1, <1>2, <1>3, <1>4, <1>5 DEF Next

\* Only a removal of the whole cache makes up for a removal that was killed.
LEMMA CutNext == ASSUME cut, ~cut', [Next]_vars PROVE Wipe
<1>1. ~UNCHANGED cut
  OBVIOUS
<1> QED
  BY <1>1 DEF Next, Step, InitRepo, Fetch, FetchSpecial, Verify, Deregister, Checkout,
              Clean, Submodules, Subst, Archive, Fail, OnError, Kill, Call, MoveTag, vars

\* Afterwards the cache is empty.
LEMMA WipeReproducible == ASSUME Wipe PROVE SubInv' /\ FilesInv' /\ ArchiveIsReproducible'
  BY DEF Wipe, SubInv, NoSub, FilesInv, ArchiveIsReproducible

\* The invariant, for every history of runs, kills, failures and moves of tags.
THEOREM GitInvariant == Spec => []GitInv
<1>1. Init => GitInv
  BY TypeInit, InitReproducible DEF GitInv, Reproducible
<1>2. GitInv /\ [Next]_vars => GitInv'
  <2> SUFFICES ASSUME GitInv, [Next]_vars PROVE GitInv'
    OBVIOUS
  <2>1. TypeOK' /\ CheckedOut'
    BY TypeNext DEF GitInv
  <2>2. RefsInv'
    BY RefsNext DEF GitInv
  <2>3. CASE cut'
    BY <2>1, <2>2, <2>3 DEF GitInv, ArchiveIsReproducible
  <2>4. CASE ~cut' /\ cut
    BY <2>1, <2>2, <2>4, CutNext, WipeReproducible DEF GitInv
  <2>5. CASE ~cut' /\ ~cut
    <3>1. Reproducible'
      BY <2>5, StepReproducible, KillReproducible, OtherReproducible DEF Next
    <3> QED
      BY <2>1, <3>1 DEF GitInv, Reproducible
  <2> QED
    BY <2>3, <2>4, <2>5
<1> QED
  BY <1>1, <1>2, PTL DEF Spec

\* The archive of a run does not depend on what earlier runs left in the cache, unless
\* one was killed in a removal of files and the cache not made afresh since.
THEOREM ArchivesReproducible == Spec => []ArchiveIsReproducible
<1>1. GitInv => ArchiveIsReproducible
  BY DEF GitInv
<1> QED
  BY <1>1, GitInvariant, PTL
================================================================================
