------------------------------ MODULE PackageBuild -----------------------------
(***************************************************************************)
(* The generic package infrastructure, package/pkg-generic.mk: each        *)
(* package is taken through its steps (download ... installed), a step     *)
(* ends with the touch of its stamp file, and GNU make decides from the    *)
(* stamps which recipes to run.  The user starts make with a goal (a       *)
(* package, all of them, <pkg>-reinstall, -rebuild, -reconfigure or        *)
(* -dirclean), may interrupt it at any time, edits an override source      *)
(* directory and starts it again.                                          *)
(*                                                                         *)
(* make is modelled by what it does with these rules: a target is          *)
(* considered when its normal and order-only prerequisites are ready; its  *)
(* recipe runs when its stamp is missing or older than a normal            *)
(* prerequisite.  With BR2_PER_PACKAGE_DIRECTORIES recipes run in          *)
(* parallel; without, Makefile:244 declares .NOTPARALLEL.                  *)
(*                                                                         *)
(* What a step produces is abstracted to the version of the package source *)
(* it was made from; Partial is what an unfinished step leaves.            *)
(***************************************************************************)
EXTENDS Integers, Sequences, FiniteSets

CONSTANTS
    Pkgs,          \* the packages of the configuration
    HostPkgs,      \* the host packages among them
    Deps,          \* Deps[p]: FINAL_DEPENDENCIES
    DownloadDeps,  \* DownloadDeps[p]: FINAL_DOWNLOAD_DEPENDENCIES
    ExtractDeps,   \* ExtractDeps[p]: FINAL_EXTRACT_DEPENDENCIES
    PatchDeps,     \* PatchDeps[p]: FINAL_PATCH_DEPENDENCIES
    Override,      \* the packages with <PKG>_OVERRIDE_SRCDIR
    Staging, Images, Target, \* the packages with <PKG>_INSTALL_... = YES
    NumPatches,    \* NumPatches[p]: how many patches the patch step applies
    PerPackage,    \* BR2_PER_PACKAGE_DIRECTORIES: allows make -jN
    HasWait,       \* GNU make >= 4.4, which implements .WAIT
    Commands,      \* the commands the user gives
    MaxEdits,      \* bound on the edits of an override source directory
    MaxFaults      \* bound on the failed recipes and interrupted runs

Steps == {"rsync", "download", "extract", "patch", "configure", "build", "install_host",
          "install_staging", "install_images", "install_target", "installed"}
InstallSteps == {"install_host", "install_staging", "install_images", "install_target"}
AllCommands == {"make", "package", "reinstall", "rebuild", "reconfigure",
                "rebuild all", "dirclean"}

ASSUME PackageAssumption ==
    /\ IsFiniteSet(Pkgs)
    /\ HostPkgs \subseteq Pkgs /\ Override \subseteq Pkgs
    /\ Staging \subseteq Pkgs \ HostPkgs
    /\ Images \subseteq Pkgs \ HostPkgs
    /\ Target \subseteq Pkgs \ HostPkgs
    /\ Deps \in [Pkgs -> SUBSET Pkgs] /\ DownloadDeps \in [Pkgs -> SUBSET Pkgs]
    /\ ExtractDeps \in [Pkgs -> SUBSET Pkgs] /\ PatchDeps \in [Pkgs -> SUBSET Pkgs]
    /\ NumPatches \in [Pkgs -> Nat]
    /\ PerPackage \in BOOLEAN /\ HasWait \in BOOLEAN
    /\ Commands \subseteq AllCommands
    /\ MaxEdits \in Nat /\ MaxFaults \in Nat

\* Versions of a source; an artefact that was never made, or only in part.
None == 0
Partial == -1
Versions == 1..(MaxEdits + 1)
Artefacts == Versions \cup {None, Partial}
Whole(a) == a \notin {None, Partial}

--------------------------------------------------------------------------------
(* The rules *)

Variants(p) ==
    IF p \in HostPkgs THEN {"install_host"}
    ELSE { s \in InstallSteps : \/ s = "install_staging" /\ p \in Staging
                                \/ s = "install_images" /\ p \in Images
                                \/ s = "install_target" /\ p \in Target }

SourceSteps(p) == IF p \in Override THEN {"rsync"} ELSE {"download", "extract", "patch"}

StepsOf(p) == SourceSteps(p) \cup {"configure", "build", "installed"} \cup Variants(p)

Targets == { t \in Pkgs \X Steps : t[2] \in StepsOf(t[1]) }
Everything == { t \in Targets : t[2] = "installed" }

\* The normal prerequisites of a step, all of the same package.
Prereqs(p, s) ==
    CASE s = "installed"      -> {"build"} \cup Variants(p)
      [] s = "install_target" -> {"build"} \cup (Variants(p) \cap {"install_staging"})
      [] s \in InstallSteps \ {"install_target"} -> {"build"}
      [] s = "build"          -> {"configure"}
      [] s = "configure"      -> SourceSteps(p) \cap {"patch"}
      [] s = "patch"          -> {"extract"}
      [] s = "extract"        -> {"download"}
      [] OTHER                -> {}

Installed(Q) == { <<q, "installed">> : q \in Q }

\* (A bug: configure does not wait for the dependencies.)
OrderOnlyWithoutDeps(p, s) ==
    CASE s = "configure" -> IF p \in Override THEN {<<p, "rsync">>} ELSE {}
      [] s = "patch"     -> { <<q, "patch">> : q \in PatchDeps[p] }
      [] s = "extract"   -> Installed(ExtractDeps[p])
      [] s = "download"  -> Installed(DownloadDeps[p])
      [] OTHER           -> {}

\* (A bug: host-tar is not left out of the packages that need host-tar to extract; GNU
\* make would drop the prerequisite, and extract it before it is there.)
OrderOnlyHostTarItself(p, s) ==
    CASE s = "configure" -> Installed(Deps[p])
                            \cup (IF p \in Override THEN {<<p, "rsync">>} ELSE {})
      [] s = "extract"   -> Installed(ExtractDeps[p] \cup HostPkgs)
      [] OTHER           -> {}

\* The order-only prerequisites: they come first but never make a stamp too old.
OrderOnly(p, s) ==
    CASE s = "configure" -> Installed(Deps[p])
                            \cup (IF p \in Override THEN {<<p, "rsync">>} ELSE {})
      [] s = "patch"     -> { <<q, IF q \in Override THEN "rsync" ELSE "patch">> :
                                q \in PatchDeps[p] }
      [] s = "extract"   -> Installed(ExtractDeps[p])
      [] s = "download"  -> Installed(DownloadDeps[p])
      [] OTHER           -> {}

AllPrereqs(p, s) == { <<p, r>> : r \in Prereqs(p, s) } \cup OrderOnly(p, s)

\* The targets make has to consider for a set of goals.
Closure(goals) ==
    LET Reach[n \in Nat] ==
          IF n = 0 THEN goals
          ELSE LET near == Reach[n - 1] IN near \cup UNION { AllPrereqs(t[1], t[2]) : t \in near }
    IN  Targets \cap Reach[Cardinality(Targets)]


\* (A bug: the override source is not synchronised again.)
CleanForReinstallNoRsync(p) ==
    <<"installed", "install_staging", "install_target", "install_images", "install_host">>

\* What the recipes of <pkg>-clean-for-... remove, in their order.
CleanForReinstall(p) ==
    (IF p \in Override THEN <<"rsync">> ELSE <<>>)
    \o <<"installed", "install_staging", "install_target", "install_images", "install_host">>
CleanForRebuild(p) == Append(CleanForReinstall(p), "build")
CleanForReconfigure(p) == Append(CleanForRebuild(p), "configure")
CleanFor(p, command) ==
    CASE command = "reinstall" -> CleanForReinstall(p)
      [] command \in {"rebuild", "rebuild all"} -> CleanForRebuild(p)
      [] command = "reconfigure" -> CleanForReconfigure(p)
      [] command = "dirclean" -> IF PerPackage THEN <<"per-package dir", "build dir">>
                                 ELSE <<"build dir">>
      [] OTHER -> <<>>

\* The goals of a command that is about package p.
GoalsOf(p, command) ==
    CASE command \in {"make", "rebuild all"} -> Everything
      [] command = "dirclean"               -> {}
      [] OTHER                              -> {<<p, "installed">>}

--------------------------------------------------------------------------------
VARIABLES
    \* what is on disk, for each package
    stamps,    \* the stamp files in its build directory
    stale,     \* those older than the stamp of a normal prerequisite
    tree,      \* the version of its source in the build directory
    obj,       \* the version its objects are built from
    inst,      \* for each install step, the version it has installed
    listed,    \* how many patches .applied_patches_list names
    before,    \* whether .files-list.before, the files present before it, exists
    checked,   \* the version whose files check_bin_arch was given
    src,       \* the version in its override source directory
    \* the current run of make
    phase,     \* idle, running, failing (a recipe failed), failed, ok
    command, pkg,     \* what the user asked for
    srcAtStart,       \* src when the run started
    wanted,    \* the targets make has to consider
    cleanq,    \* what the clean recipe has still to remove
    ready,     \* the targets make has found or brought up to date
    active,    \* the targets whose recipe is running
    \* bounds
    faults, edits

disk == <<stamps, stale, tree, obj, inst, listed, before, checked>>
run == <<phase, command, pkg, srcAtStart, wanted, cleanq, ready, active>>
vars == <<disk, src, run, faults, edits>>

Init ==
    /\ stamps = [p \in Pkgs |-> {}] /\ stale = [p \in Pkgs |-> {}]
    /\ tree = [p \in Pkgs |-> None] /\ obj = [p \in Pkgs |-> None]
    /\ inst = [p \in Pkgs |-> [s \in InstallSteps |-> None]]
    /\ listed = [p \in Pkgs |-> 0]
    /\ before = [p \in Pkgs |-> FALSE]
    /\ checked = [p \in Pkgs |-> None]
    /\ src = [p \in Pkgs |-> 1] /\ srcAtStart = src
    /\ phase = "idle" /\ command = "make" /\ pkg \in Pkgs
    /\ wanted = {} /\ cleanq = <<>> /\ ready = {} /\ active = {}
    /\ faults = 0 /\ edits = 0

Running == phase = "running"
InRun == phase \in {"running", "failing"}

\* The user runs make with one command.
StartMake(c, p) ==
    /\ ~InRun
    /\ phase' = "running" /\ command' = c /\ pkg' = p
    /\ srcAtStart' = src
    /\ wanted' = Closure(GoalsOf(p, c))
    /\ cleanq' = CleanFor(p, c)
    /\ ready' = {} /\ active' = {}
    /\ UNCHANGED <<disk, src, faults, edits>>

\* One rm of the clean recipe.
RemoveStamp ==
    /\ InRun /\ cleanq # <<>> /\ Head(cleanq) \in Steps
    /\ stamps' = [stamps EXCEPT ![pkg] = @ \ {Head(cleanq)}]
    /\ stale' = [stale EXCEPT ![pkg] = @ \ {Head(cleanq)}]
    /\ cleanq' = Tail(cleanq)
    /\ UNCHANGED <<tree, obj, inst, listed, before, checked, src, phase, command,
                   pkg, srcAtStart, wanted, ready, active, faults, edits>>

RemovePerPackageDir ==
    /\ InRun /\ cleanq # <<>> /\ Head(cleanq) = "per-package dir"
    /\ inst' = [inst EXCEPT ![pkg] = [s \in InstallSteps |-> None]]
    /\ cleanq' = Tail(cleanq)
    /\ UNCHANGED <<stamps, stale, tree, obj, listed, before, checked, src, phase,
                   command, pkg, srcAtStart, wanted, ready, active, faults, edits>>

RemoveBuildDir ==
    /\ InRun /\ cleanq # <<>> /\ Head(cleanq) = "build dir"
    /\ stamps' = [stamps EXCEPT ![pkg] = {}]
    /\ stale' = [stale EXCEPT ![pkg] = {}]
    /\ tree' = [tree EXCEPT ![pkg] = None]
    /\ obj' = [obj EXCEPT ![pkg] = None]
    /\ listed' = [listed EXCEPT ![pkg] = 0]
    /\ before' = [before EXCEPT ![pkg] = FALSE]
    /\ checked' = [checked EXCEPT ![pkg] = None]
    /\ cleanq' = Tail(cleanq)
    /\ UNCHANGED <<inst, src, phase, command, pkg, srcAtStart, wanted, ready, active,
                   faults, edits>>

\* The goal comes after the clean recipe: by .WAIT, or because make is not parallel.
\* .WAIT orders the prerequisites of <pkg>-rebuild; it says nothing of another
\* goal of the command line, which a parallel make starts at the same time.
CanConsider ==
    \/ cleanq = <<>>
    \/ PerPackage /\ (command = "rebuild all" \/ ~HasWait)

\* make gets to the target, its prerequisites being done.
Considers(p, s) ==
    /\ Running /\ CanConsider
    /\ <<p, s>> \in wanted \ (ready \cup active)
    /\ AllPrereqs(p, s) \subseteq ready

IsUpToDate(p, s) == s \in stamps[p] \ stale[p]

FindUpToDate(p, s) ==
    /\ Considers(p, s) /\ IsUpToDate(p, s)
    /\ ready' = ready \cup {<<p, s>>}
    /\ UNCHANGED <<disk, src, phase, command, pkg, srcAtStart, wanted, cleanq, active,
                   faults, edits>>

\* The recipe begins.  configure lists the installed files first; installed takes
\* the list again and keeps what is new: nothing, when the first list is gone.
StartRecipe(p, s) ==
    /\ Considers(p, s) /\ ~IsUpToDate(p, s)
    /\ PerPackage \/ active = {}
    /\ s = "patch" => listed[p] = 0
    /\ active' = active \cup {<<p, s>>}
    /\ tree' = [tree EXCEPT ![p] = IF s \in {"extract", "rsync"} THEN Partial ELSE @]
    /\ obj' = [obj EXCEPT ![p] = IF s = "build" THEN Partial ELSE @]
    /\ inst' = [inst EXCEPT ![p] = [i \in InstallSteps |-> IF i = s THEN Partial ELSE @[i]]]
    /\ before' = [before EXCEPT ![p] = (@ \/ s = "configure") /\ s # "installed"]
    /\ checked' = [checked EXCEPT ![p] =
         IF s # "installed" THEN @ ELSE IF before[p] THEN inst[p]["install_target"] ELSE None]
    /\ UNCHANGED <<stamps, stale, listed, src, phase, command, pkg, srcAtStart, wanted,
                   cleanq, ready, faults, edits>>

\* The patch step lists a patch, then applies it.
ApplyPatch(p) ==
    /\ <<p, "patch">> \in active /\ listed[p] < NumPatches[p]
    /\ listed' = [listed EXCEPT ![p] = @ + 1]
    /\ UNCHANGED <<stamps, stale, tree, obj, inst, before, checked, src, run, faults, edits>>

\* A patch step that is run again stops at the first patch: it is listed already.
FindDuplicatePatch(p) ==
    /\ Considers(p, "patch") /\ ~IsUpToDate(p, "patch")
    /\ PerPackage \/ active = {}
    /\ listed[p] > 0
    /\ phase' = "failing"
    /\ UNCHANGED <<disk, src, command, pkg, srcAtStart, wanted, cleanq, ready, active,
                   faults, edits>>

\* (A bug: the dependencies are normal prerequisites of configure.)
EndRecipeTriggersUsers(p, s) ==
    /\ InRun /\ <<p, s>> \in active
    /\ s = "patch" => listed[p] = NumPatches[p]
    /\ active' = active \ {<<p, s>>}
    /\ ready' = ready \cup {<<p, s>>}
    /\ stamps' = [stamps EXCEPT ![p] = @ \cup {s}]
    /\ stale' = [q \in Pkgs |->
         IF q = p THEN (stale[p] \ {s}) \cup { t \in stamps[p] : s \in Prereqs(p, t) }
         ELSE stale[q] \cup { t \in stamps[q] : /\ t = "configure" /\ s = "installed"
                                               /\ p \in Deps[q] }]
    /\ tree' = [tree EXCEPT ![p] = IF s \in {"extract", "rsync"} THEN src[p] ELSE @]
    /\ obj' = [obj EXCEPT ![p] = IF s = "build" THEN tree[p] ELSE @]
    /\ inst' = [inst EXCEPT ![p] = [i \in InstallSteps |-> IF i = s THEN obj[p] ELSE @[i]]]
    /\ UNCHANGED <<listed, before, checked, src, phase, command, pkg, srcAtStart, wanted,
                   cleanq, faults, edits>>

\* The recipe ends with the touch of the stamp.
EndRecipe(p, s) ==
    /\ InRun /\ <<p, s>> \in active
    /\ s = "patch" => listed[p] = NumPatches[p]
    /\ active' = active \ {<<p, s>>}
    /\ ready' = ready \cup {<<p, s>>}
    /\ stamps' = [stamps EXCEPT ![p] = @ \cup {s}]
    /\ stale' = [stale EXCEPT ![p] = (@ \ {s}) \cup { t \in stamps[p] : s \in Prereqs(p, t) }]
    /\ tree' = [tree EXCEPT ![p] = IF s \in {"extract", "rsync"} THEN src[p] ELSE @]
    /\ obj' = [obj EXCEPT ![p] = IF s = "build" THEN tree[p] ELSE @]
    /\ inst' = [inst EXCEPT ![p] = [i \in InstallSteps |-> IF i = s THEN obj[p] ELSE @[i]]]
    /\ UNCHANGED <<listed, before, checked, src, phase, command, pkg, srcAtStart, wanted,
                   cleanq, faults, edits>>

\* (A bug: the stamp is touched though a command of the recipe failed.)
FailTouchesStamp(p, s) ==
    /\ InRun /\ <<p, s>> \in active
    /\ faults < MaxFaults /\ faults' = faults + 1
    /\ active' = active \ {<<p, s>>}
    /\ phase' = "failing"
    /\ stamps' = [stamps EXCEPT ![p] = @ \cup {s}]
    /\ stale' = [stale EXCEPT ![p] = @ \ {s}]
    /\ UNCHANGED <<tree, obj, inst, listed, before, checked, src, command, pkg, srcAtStart,
                   wanted, cleanq, ready, edits>>

\* A command of the recipe fails: make starts no other recipe.
Fail(p, s) ==
    /\ InRun /\ <<p, s>> \in active
    /\ faults < MaxFaults /\ faults' = faults + 1
    /\ active' = active \ {<<p, s>>}
    /\ phase' = "failing"
    /\ UNCHANGED <<disk, src, command, pkg, srcAtStart, wanted, cleanq, ready, edits>>

\* The user interrupts make, or the machine stops.
Interrupt ==
    /\ InRun
    /\ faults < MaxFaults /\ faults' = faults + 1
    /\ active' = {} /\ cleanq' = <<>> /\ ready' = {}
    /\ phase' = "failed"
    /\ UNCHANGED <<disk, src, command, pkg, srcAtStart, wanted, edits>>

Succeed ==
    /\ Running /\ cleanq = <<>> /\ wanted \subseteq ready
    /\ phase' = "ok"
    /\ UNCHANGED <<disk, src, command, pkg, srcAtStart, wanted, cleanq, ready, active,
                   faults, edits>>

GiveUp ==
    /\ phase = "failing" /\ active = {}
    /\ phase' = "failed" /\ cleanq' = <<>> /\ ready' = {}
    /\ UNCHANGED <<disk, src, command, pkg, srcAtStart, wanted, active, faults, edits>>

Edit(p) ==
    /\ p \in Override /\ edits < MaxEdits
    /\ edits' = edits + 1
    /\ src' = [src EXCEPT ![p] = edits + 2]
    /\ UNCHANGED <<disk, run, faults>>

Clean == RemoveStamp \/ RemovePerPackageDir \/ RemoveBuildDir
MakeStep ==
    \/ Clean \/ Succeed \/ GiveUp
    \/ \E p \in Pkgs, s \in Steps :
          FindUpToDate(p, s) \/ StartRecipe(p, s) \/ EndRecipe(p, s)
    \/ \E p \in Pkgs : ApplyPatch(p) \/ FindDuplicatePatch(p)
Next ==
    \/ MakeStep \/ Interrupt
    \/ \E p \in Pkgs, c \in Commands : StartMake(c, p)
    \/ \E p \in Pkgs, s \in Steps : Fail(p, s)
    \/ \E p \in Pkgs : Edit(p)

Spec == Init /\ [][Next]_vars
FairSpec == Spec /\ WF_vars(MakeStep)

--------------------------------------------------------------------------------
(* Properties *)

PkgStamps == [Pkgs -> SUBSET Steps]
TypeOK ==
    /\ stamps \in PkgStamps /\ stale \in PkgStamps
    /\ tree \in [Pkgs -> Artefacts] /\ obj \in [Pkgs -> Artefacts]
    /\ inst \in [Pkgs -> [InstallSteps -> Artefacts]]
    /\ listed \in [Pkgs -> Nat]
    /\ before \in [Pkgs -> BOOLEAN] /\ checked \in [Pkgs -> Artefacts]
    /\ src \in [Pkgs -> Versions] /\ srcAtStart \in [Pkgs -> Versions]
    /\ phase \in {"idle", "running", "failing", "failed", "ok"}
    /\ command \in AllCommands /\ pkg \in Pkgs
    /\ wanted \subseteq Targets /\ ready \subseteq Targets /\ active \subseteq Targets
    /\ cleanq \in Seq(Steps \cup {"per-package dir", "build dir"})
    /\ faults \in 0..MaxFaults /\ edits \in 0..MaxEdits

WhollyInstalled(p) == \A s \in Variants(p) : Whole(inst[p][s])
AtRest(p) == \A s \in Steps : <<p, s>> \notin active
NeedsDeps == {"configure", "build", "installed"} \cup InstallSteps

\* While a package is configured, built or installed, each of its dependencies
\* has all its files in place and no step of it runs, whatever make runs in
\* parallel and whatever was interrupted before (pkg-generic.mk:933).
DepsInstalled ==
    \A p \in Pkgs, s \in NeedsDeps : <<p, s>> \in active =>
        \A q \in Deps[p] : WhollyInstalled(q) /\ AtRest(q)

Complete(p) == stamps[p] = StepsOf(p) /\ stale[p] = {}

\* When make succeeds, each package it had to consider has all its stamps, none
\* older than a prerequisite, and has installed everywhere exactly what was built:
\* a following make has nothing to do, and no clean-for-... that was interrupted
\* leaves an old file behind a stamp.
SuccessMeansInstalled ==
    phase = "ok" => \A p \in Pkgs : <<p, "installed">> \in wanted =>
        /\ Complete(p)
        /\ \A s \in Variants(p) : Whole(obj[p]) /\ inst[p][s] = obj[p]

\* A successful <pkg>-rebuild or <pkg>-reconfigure has installed the override
\* source as it was when the user gave the command, or a later edit of it.
RebuildPicksUpEdits ==
    phase = "ok" /\ command \in {"rebuild", "reconfigure", "rebuild all"} /\ pkg \in Override =>
        \A s \in Variants(pkg) : inst[pkg][s] >= srcAtStart[pkg]

\* A command about one package leaves each other package that is complete as it
\* is: that is what the order-only dependencies are for (pkg-generic.mk:926-933).
OthersUntouched ==
    [][\A q \in Pkgs : InRun /\ q # pkg /\ Complete(q) =>
         /\ Complete(q)' /\ tree'[q] = tree[q] /\ obj'[q] = obj[q] /\ inst'[q] = inst[q]
         /\ \A s \in Steps : <<q, s>> \notin active' \ active]_vars

\* When make succeeds, check_bin_arch has seen what each package it considered
\* has installed in the target directory (pkg-generic.mk:381-387).
BinariesChecked ==
    phase = "ok" => \A p \in Target : <<p, "installed">> \in wanted =>
        checked[p] = inst[p]["install_target"]

\* Every run of make comes to an end: no order of the recipes, of their failures
\* and of the goals leaves make with nothing it may do.  The rules have no cycle: one
\* that waits for itself would wait for ever here, where GNU make drops a prerequisite.
RunEnds == InRun ~> ~InRun

--------------------------------------------------------------------------------
(* Why they hold *)

\* The clean recipe is over before make looks at a stamp, and no clean removes
\* files whose stamps stay.
Orderly == PerPackage => HasWait /\ Commands \cap {"rebuild all", "dirclean"} = {}
OrderlyRun ==
    /\ PerPackage => command \notin {"rebuild all", "dirclean"}
    /\ cleanq \in Seq(Steps \cup {"build dir"})
    /\ cleanq # <<>> => ready = {} /\ active = {}

\* What make has found or brought up to date is, and so are its prerequisites.
ReadyInv ==
    /\ active \subseteq wanted
    /\ ~InRun => active = {}
    /\ \A p \in Pkgs, s \in Steps :
         /\ <<p, s>> \in ready => <<p, s>> \notin active /\ IsUpToDate(p, s)
         /\ <<p, s>> \in ready \cup active => AllPrereqs(p, s) \subseteq ready
    /\ phase = "ok" => wanted \subseteq ready

\* A stamp that is not too old stands for the whole product of its step.
StampsTell(p) ==
    /\ stamps[p] \subseteq StepsOf(p) /\ stale[p] \subseteq StepsOf(p)
    /\ \A s \in SourceSteps(p) \cap {"rsync", "extract"} : IsUpToDate(p, s) => Whole(tree[p])
    /\ IsUpToDate(p, "build") => Whole(obj[p])
    /\ \A s \in Variants(p) : IsUpToDate(p, s) =>
         /\ Whole(inst[p][s])
         /\ IsUpToDate(p, "build") => inst[p][s] = obj[p]
StampInv == \A p \in Pkgs : StampsTell(p)

BuildInv == TypeOK /\ OrderlyRun /\ ReadyInv /\ StampInv

\* No recipe runs for a step that is up to date.  (It keeps a complete package
\* as it is, whatever the commands.)
ActiveInv == \A p \in Pkgs, s \in Steps : <<p, s>> \in active => ~IsUpToDate(p, s)

\* While an override package is rebuilt, whatever of it is up to date and is not
\* still to be removed was made from the source of the start of the run or later.
Rebuilds ==
    /\ phase \in {"running", "failing", "ok"}
    /\ command \in {"rebuild", "reconfigure", "rebuild all"} /\ pkg \in Override
Renewed(s) == IsUpToDate(pkg, s) /\ \A i \in 1..Len(cleanq) : cleanq[i] # s
NothingOlder ==
    /\ Renewed("rsync") => tree[pkg] >= srcAtStart[pkg]
    /\ Renewed("build") => obj[pkg] >= srcAtStart[pkg]
    /\ \A s \in Variants(pkg) : Renewed(s) => inst[pkg][s] >= srcAtStart[pkg]
EditsInv ==
    /\ \A p \in Pkgs : srcAtStart[p] <= src[p] /\ src[p] <= edits + 1
    /\ Rebuilds => <<pkg, "installed">> \in wanted /\ NothingOlder
================================================================================
