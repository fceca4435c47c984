-------------------------------- MODULE GitCache -------------------------------
(***************************************************************************)
(* support/download/git, the git backend of the download wrapper: it makes *)
(* the archive of one changeset from a git repository it keeps between     *)
(* runs, $(PKG)_DL_DIR/git, and that the versions of the package and the   *)
(* packages of its DL_SUBDIR share.  dl-wrapper's flock lets one run at a  *)
(* time.  A run may be killed at any step; a git command of it may fail,   *)
(* and the ERR trap then removes the cache and starts over, once.          *)
(*                                                                         *)
(* git itself is external, and modelled by what the script uses of it; the *)
(* repository has one submodule path and files with export-subst hints.    *)
(* The large files (-l) are left out.                                      *)
(***************************************************************************)
EXTENDS Integers, FiniteSets

CONSTANTS
    Names,        \* the changesets asked for: tags of the server
    Commits,      \* its commits
    None,         \* no commit, no submodule, no archive
    FastForward,  \* the pairs of a commit and one of its descendants
    Subs,         \* Subs[c]: the submodule version commit c records, or None
    Mixed,        \* the files of no one version
    Remote0,      \* what the server's tags name at first, or None
    Fails,        \* the steps that may fail in an outage: no network, no space left
    KillPoints,   \* the steps a run may be killed in
    MovePoints,   \* where a run may be when a tag is moved at the server
    MaxKills, MaxMoves, MaxRuns  \* bounds on the kills, on the tags moved, on the runs

\* The steps of a run, in the script's order.
Steps == {"init", "fetch", "special", "verify", "deregister", "checkout", "clean",
          "submodules", "subst", "archive"}

ASSUME GitCacheAssumption ==
    /\ None \notin Commits \cup Names
    /\ FastForward \subseteq Commits \X Commits
    /\ DOMAIN Subs = Commits /\ \A c \in Commits : Subs[c] # Mixed
    /\ Remote0 \in [Names -> Commits \cup {None}]
    /\ Fails \subseteq Steps /\ KillPoints \subseteq Steps \cup {"wipe"}
    /\ MovePoints \subseteq Steps \cup {"wipe", "idle", "done", "failed", "dead"}
    /\ MaxKills \in Nat /\ MaxMoves \in Nat /\ MaxRuns \in Nat

VARIABLES
    remote, named,  \* what each tag names at the server, and all it ever named
    outage,  \* the network or the disk fails in this behaviour, on and off
    \* the cache, on disk
    locks,   \* the lock files that killed git commands left
    torn,    \* some of .git is missing
    tags,    \* refs/tags
    heads,   \* refs/heads, that the fetch of "cset:cset" makes
    head,    \* the branch HEAD is on, or None
    index,   \* the commit the index is of
    tree,    \* the files: their commit, whose metadata replaced the hints, untracked ones
    sub,     \* those of the submodule; linked: its .git is there
    \* the run
    pc, cset, recurse, retried, archive,
    kills, moves, runs,
    cut      \* a kill has hit a removal since the cache was last made afresh

repo == <<locks, torn, tags, heads, head, index>>
cache == <<repo, tree, sub>>
server == <<remote, named, outage, moves>>
request == <<cset, recurse, runs>>
vars == <<server, cache, pc, request, retried, archive, kills, cut>>

NoTree == [commit |-> None, subst |-> None, junk |-> FALSE]
NoSub == [files |-> None, subst |-> None, linked |-> FALSE]
NoRefs == [n \in Names |-> None]
SubOf(c) == IF c = None THEN None ELSE Subs[c]

Running == Steps \cup {"wipe"}

Init ==
    /\ remote = Remote0 /\ named = [n \in Names |-> {remote[n]} \ {None}]
    /\ outage \in BOOLEAN
    /\ locks = {} /\ torn = FALSE
    /\ tags = NoRefs /\ heads = NoRefs /\ head = None /\ index = None
    /\ tree = NoTree /\ sub = NoSub
    /\ pc = "idle" /\ cset \in Names /\ recurse = FALSE /\ retried = FALSE
    /\ archive = None
    /\ kills = 0 /\ cut = FALSE /\ moves = 0 /\ runs = 0

\* dl-wrapper calls the backend for a changeset, with -r or without.
Call(n, r) ==
    /\ pc \notin Running /\ runs < MaxRuns
    /\ pc' = "init" /\ cset' = n /\ recurse' = r /\ retried' = FALSE /\ archive' = None
    /\ runs' = runs + 1
    /\ UNCHANGED <<server, cache, kills, cut>>

\* A tag is moved at the server (or the package is given another site).
MoveTag(n, c) ==
    /\ pc \in MovePoints
    /\ moves < MaxMoves /\ moves' = moves + 1
    /\ remote' = [remote EXCEPT ![n] = c]
    /\ named' = [named EXCEPT ![n] = @ \cup {c}]
    /\ UNCHANGED <<outage, cache, pc, request, retried, archive, kills, cut>>

\* git init, remote add and remote set-url: idempotent, they repair what is missing.
InitRepo ==
    /\ pc = "init" /\ "config" \notin locks
    /\ pc' = "fetch"
    /\ UNCHANGED <<server, cache, request, retried, archive, kills, cut>>

\* git fetch origin, then git fetch origin -t -f: every tag is as at the server.
Fetch ==
    /\ pc = "fetch"
    /\ tags' = [n \in Names |-> IF remote[n] # None THEN remote[n] ELSE tags[n]]
    /\ "refs" \in locks => tags' = tags
    /\ pc' = "special"
    /\ UNCHANGED <<server, locks, torn, heads, head, index, tree, sub, request, retried,
                   archive, kills, cut>>

\* git fetch origin cset:cset makes or forwards the branch refs/heads/cset.  git
\* refuses to forward it to a commit that is no descendant, or when HEAD is on it.
\* That it failed is only printed.
FetchSpecial ==
    /\ pc = "special"
    /\ LET old == heads[cset]
           new == remote[cset]
           fetched == /\ new # None
                      /\ head # cset
                      /\ old \in {None, new} \/ <<old, new>> \in FastForward
       IN  \/ fetched /\ "refs" \notin locks /\ heads' = [heads EXCEPT ![cset] = new]
           \/ ~fetched /\ UNCHANGED heads
           \/ ((outage /\ "special" \in Fails) \/ "refs" \in locks) /\ UNCHANGED heads
    /\ pc' = "verify"
    /\ UNCHANGED <<server, locks, torn, tags, head, index, tree, sub, request, retried,
                   archive, kills, cut>>


\* git rev-parse: a changeset that does not exist ends the run, the cache stays.
Verify ==
    /\ pc = "verify"
    /\ pc' = IF tags[cset] = None /\ heads[cset] = None THEN "failed" ELSE "deregister"
    /\ UNCHANGED <<server, cache, request, retried, archive, kills, cut>>

\* (A bug: the submodules of the last changeset stay.)
DeregisterNothing ==
    /\ pc = "deregister"
    /\ pc' = "checkout"
    /\ UNCHANGED <<server, cache, request, retried, archive, kills, cut>>

\* git submodule foreach, on the submodules of the index: their directory goes.
Registered == sub.linked /\ SubOf(index) # None
Deregister ==
    /\ pc = "deregister"
    /\ sub' = IF Registered THEN NoSub ELSE sub
    /\ pc' = "checkout"
    /\ UNCHANGED <<server, repo, tree, request, retried, archive, kills, cut>>

\* git checkout -f cset: a branch of that name comes before a tag.
Checkout ==
    /\ pc = "checkout" /\ "index" \notin locks
    /\ head' = IF heads[cset] # None THEN cset ELSE None
    /\ index' = IF heads[cset] # None THEN heads[cset] ELSE tags[cset]
    /\ tree' = [tree EXCEPT !.commit = index', !.subst = None]
    /\ pc' = "clean"
    /\ UNCHANGED <<server, locks, torn, tags, heads, sub, request, retried, archive, kills, cut>>

\* git clean -ffdx: what the index does not know goes.  A submodule it knows stays.
Clean ==
    /\ pc = "clean"
    /\ tree' = [tree EXCEPT !.junk = FALSE]
    /\ sub' = IF SubOf(index) = None THEN NoSub ELSE sub
    /\ pc' = IF recurse THEN "submodules" ELSE "subst"
    /\ UNCHANGED <<server, repo, request, retried, archive, kills, cut>>

\* git submodule update --init: a submodule that is linked and at its version is left
\* alone; otherwise the version is checked out over what is there.
Submodules ==
    /\ pc = "submodules"
    /\ LET v == SubOf(index)
           over == \/ sub.files \in {None, v}
                   \/ sub.linked /\ sub.files # Mixed
       IN  sub' = IF v = None \/ (sub.linked /\ sub.files = v) THEN sub
                  ELSE [files |-> IF over THEN v ELSE Mixed, subst |-> None, linked |-> TRUE]
    /\ pc' = "subst"
    /\ UNCHANGED <<server, repo, tree, request, retried, archive, kills, cut>>

\* The export-subst hints, here and in the submodule, are replaced by the metadata of
\* HEAD: a file where it was done before has none left.
Substituted(files, subst) == IF files # None /\ subst = None THEN index ELSE subst
Subst ==
    /\ pc = "subst"
    /\ tree' = [tree EXCEPT !.subst = Substituted(tree.commit, @)]
    /\ sub' = [sub EXCEPT !.subst = Substituted(sub.files, @)]
    /\ pc' = "archive"
    /\ UNCHANGED <<server, repo, request, retried, archive, kills, cut>>

\* mk_tar_gz archives all the files of the cache directory, without .git.
Archive ==
    /\ pc = "archive"
    /\ archive' = [tree |-> tree, sub |-> sub.files, subst |-> sub.subst]
    /\ pc' = "done"
    /\ UNCHANGED <<server, cache, request, retried, kills, cut>>

\* (A bug: the environment of the second start does not tell that it is the second.)
OnErrorForgets ==
    /\ pc' = "wipe"
    /\ UNCHANGED <<server, cache, request, retried, archive, kills, cut>>

\* _on_error: the cache is removed and the script starts again, the first time.
OnError ==
    /\ pc' = IF retried THEN "failed" ELSE "wipe"
    /\ retried' = TRUE
    /\ UNCHANGED <<server, cache, request, archive, kills, cut>>

Fail ==
    /\ \/ outage /\ pc \in Fails \ {"special", "verify"}
       \/ pc = "init" /\ "config" \in locks
       \/ pc = "fetch" /\ "refs" \in locks
       \/ pc = "checkout" /\ "index" \in locks
       \/ pc \in {"init", "fetch", "deregister", "checkout"} /\ torn
    /\ OnError

\* (A bug: only the files are removed, not .git.)
WipeFiles ==
    /\ pc = "wipe"
    /\ tree' = NoTree /\ sub' = NoSub
    /\ pc' = "init"
    /\ UNCHANGED <<server, repo, request, retried, archive, kills, cut>>

\* rm -rf of the cache.
Wipe ==
    /\ pc = "wipe"
    /\ locks' = {} /\ torn' = FALSE
    /\ tags' = NoRefs /\ heads' = NoRefs /\ head' = None /\ index' = None
    /\ tree' = NoTree /\ sub' = NoSub
    /\ pc' = "init"
    /\ UNCHANGED <<server, request, retried, archive, kills>>
    /\ cut' = FALSE

--------------------------------------------------------------------------------
(* What a kill leaves of the step it hits: a lock file, or a part of the work. *)

Locking(l) == locks' \in {locks, locks \cup {l}}
KillGit ==
    \/ /\ pc = "init" /\ Locking("config")
       /\ UNCHANGED <<torn, tags, heads, head, index, tree, sub>>
    \/ /\ pc = "fetch" /\ Locking("refs")
       /\ \E done \in SUBSET { n \in Names : remote[n] # None } :
            tags' = [n \in Names |-> IF n \in done THEN remote[n] ELSE tags[n]]
       /\ UNCHANGED <<torn, heads, head, index, tree, sub>>
    \/ /\ pc = "special" /\ Locking("refs")
       /\ UNCHANGED <<torn, tags, heads, head, index, tree, sub>>
    \/ /\ pc = "checkout" /\ Locking("index")
       /\ tree' \in {tree, [commit |-> None, subst |-> None, junk |-> TRUE]}
       /\ UNCHANGED <<torn, tags, heads, head, index, sub>>
    \/ /\ pc \in {"verify", "clean", "archive"}
       /\ UNCHANGED cache

KillFiles ==
    \/ /\ pc = "deregister" /\ Registered
       /\ sub' \in {sub, NoSub, [sub EXCEPT !.files = Mixed], [sub EXCEPT !.linked = FALSE]}
       /\ UNCHANGED <<repo, tree>>
    \/ /\ pc = "submodules" /\ SubOf(index) # None /\ Locking("config")
       /\ sub' \in {sub, [files |-> Mixed, subst |-> None, linked |-> TRUE]}
       /\ UNCHANGED <<torn, tags, heads, head, index, tree>>
    \/ /\ pc = "subst"
       /\ tree' \in {tree, [tree EXCEPT !.subst = index, !.junk = TRUE]}
       /\ sub' \in IF sub.files = None THEN {sub}
                   ELSE {sub, [sub EXCEPT !.files = Mixed, !.subst = index]}
       /\ UNCHANGED repo

\* In the middle of rm -rf any of the files may be gone, and any may be there.
Lost(refs) == { [n \in Names |-> IF n \in gone THEN None ELSE refs[n]] : gone \in SUBSET Names }
KillWipe ==
    /\ pc = "wipe"
    /\ torn' = TRUE /\ locks' \in {locks, {}}
    /\ tags' \in Lost(tags) /\ heads' \in Lost(heads)
    /\ head' \in {head, None} /\ index' \in {index, None}
    /\ tree' = [commit |-> None, subst |-> None, junk |-> TRUE]
    /\ sub' \in {sub, NoSub, [sub EXCEPT !.linked = FALSE]}

Kill ==
    /\ pc \in KillPoints
    /\ kills < MaxKills /\ kills' = kills + 1
    /\ cut' = (cut \/ pc \in {"deregister", "wipe"})
    /\ KillGit \/ KillFiles \/ KillWipe
    /\ pc' = "dead"
    /\ UNCHANGED <<server, request, retried, archive>>

Step ==
    \/ InitRepo \/ Fetch \/ FetchSpecial \/ Verify \/ Deregister \/ Checkout \/ Clean
    \/ Submodules \/ Subst \/ Archive \/ Fail \/ Wipe

Next ==
    \/ Step \/ Kill
    \/ \E n \in Names, r \in BOOLEAN : Call(n, r)
    \/ \E n \in Names, c \in Commits : MoveTag(n, c)

Spec == Init /\ [][Next]_vars

\* The script and the commands it starts go on until they end.
FairSpec == Spec /\ WF_vars(Step)

--------------------------------------------------------------------------------
(* Properties *)

Versions == { Subs[c] : c \in Commits } \ {None}
SomeCommit == Commits \cup {None}
Trees == [commit : SomeCommit, subst : SomeCommit, junk : BOOLEAN]
SubFiles == Versions \cup {None, Mixed}

\* The types; an archive is always one of a commit, whatever the cache was like.
TypeOK ==
    /\ remote \in [Names -> SomeCommit] /\ named \in [Names -> SUBSET Commits]
    /\ outage \in BOOLEAN
    /\ locks \subseteq {"config", "refs", "index"} /\ torn \in BOOLEAN
    /\ tags \in [Names -> SomeCommit] /\ heads \in [Names -> SomeCommit]
    /\ head \in Names \cup {None} /\ index \in SomeCommit
    /\ tree \in Trees
    /\ sub \in [files : SubFiles, subst : SomeCommit, linked : BOOLEAN]
    /\ pc \in Running \cup {"idle", "done", "failed", "dead"}
    /\ cset \in Names /\ recurse \in BOOLEAN /\ retried \in BOOLEAN
    /\ archive = None \/ archive \in [tree : Trees, sub : SubFiles, subst : SomeCommit]
    /\ archive # None => archive.tree.commit \in Commits
    /\ kills \in 0..MaxKills /\ cut \in BOOLEAN /\ moves \in 0..MaxMoves /\ runs \in 0..MaxRuns

\* What a run on an empty cache archives for commit c.
Fresh(c, r) ==
    LET v == IF r THEN SubOf(c) ELSE None
    IN  [tree |-> [commit |-> c, subst |-> c, junk |-> FALSE],
         sub |-> v, subst |-> IF v = None THEN None ELSE c]

\* The archive does not depend on what earlier runs left in the cache, other
\* changesets, with submodules or without, or runs that were killed: it is the one an
\* empty cache would have given, of a commit the changeset has named (git:189-196).
\* Excepted is a cache in which a kill has hit a removal of files, until it is made
\* afresh: git init does not tell it from a whole one, and git may have forgotten the
\* submodule whose files are left (git:50, git:182-183).
ArchiveIsReproducible ==
    pc = "done" /\ ~cut =>
        /\ archive.tree.commit \in named[cset]
        /\ archive = Fresh(archive.tree.commit, recurse)

\* The archive is of the commit that rev-parse has verified: of what the tag names in
\* the cache after git fetch -t -f (git:137-153).
ArchivesTheTag == pc = "done" => archive.tree.commit = tags[cset]

\* Every run ends, even when the network stays down: it starts over once only.
RunEnds == pc \in Running ~> pc \notin Running

\* When the network and the disk hold, a run for a changeset that exists makes its
\* archive unless it is killed, whatever the killed runs before it left in the cache.
RunHeals == pc = "init" /\ ~outage /\ remote[cset] # None ~> pc \in {"done", "dead"}
--------------------------------------------------------------------------------
(* Why the archive is reproducible *)

\* A changeset that was verified can be checked out, and then it is.
CheckedOut ==
    /\ pc \in {"deregister", "checkout"} => tags[cset] # None \/ heads[cset] # None
    /\ pc \in {"clean", "submodules", "subst", "archive"} =>
         index \in Commits /\ tree.commit = index

\* The tags and branches of the cache are commits that the server's tags have named.
RefsInv ==
    \A n \in Names : /\ remote[n] \in named[n] \cup {None}
                     /\ tags[n] \in named[n] \cup {None}
                     /\ heads[n] \in named[n] \cup {None}

\* A submodule's files are there only while git submodule foreach finds them.
SubInv ==
    /\ sub.linked => SubOf(index) # None
    /\ ~sub.linked => sub = NoSub

\* From the checkout on, the files are those of the index, made afresh.
FreshTree(subst) == tree = [commit |-> index, subst |-> subst, junk |-> FALSE]
FreshSub(v, subst) ==
    sub = IF v = None THEN NoSub ELSE [files |-> v, subst |-> subst, linked |-> TRUE]
Wanted == IF recurse THEN SubOf(index) ELSE None
FilesInv ==
    /\ pc \in {"checkout", "clean", "submodules"} => sub = NoSub
    /\ pc \in {"clean", "submodules", "subst", "archive"} => index \in named[cset]
    /\ pc = "clean" => tree.subst = None
    /\ pc = "submodules" => recurse
    /\ pc \in {"submodules", "subst"} => FreshTree(None)
    /\ pc = "subst" => FreshSub(Wanted, None)
    /\ pc = "archive" => FreshTree(index) /\ FreshSub(Wanted, index)

GitInv ==
    /\ TypeOK /\ CheckedOut /\ RefsInv
    /\ ~cut => SubInv /\ FilesInv
    /\ ArchiveIsReproducible
================================================================================
