# A TLA+ verification of the InConsole 2 system build

The repository is a Buildroot 2025.02 tree with the board support of the
InConsole 2 (`board/ingraw/inconsole2`). Most of its files are data: the
definitions of about three thousand packages. Its own logic is the machinery
that turns these definitions into an image: GNU make rules and shell scripts that
run for hours, in parallel, on shared directories, and that people interrupt,
restart and share between machines; and the configuration system, the C programs
in which a user says what is to be built. This directory models the core of both
in TLA+, checks the models with TLC and proves the main results with TLAPS.

All paths below are relative to `src/`; `kconfig/` stands for `support/kconfig/`.

## 1. Inventory

| Component | State it keeps | Operations | Hard because |
|---|---|---|---|
| **Package steps**, `package/pkg-generic.mk` | stamp files of each build directory, the sources and objects in it, what is installed, `.applied_patches_list`, `.files-list.before` | one recipe per step (download, extract or rsync, patch, configure, build, install x4, installed), `<pkg>-reinstall`, `-rebuild`, `-reconfigure`, `-dirclean` | `make -jN`; a failure or an interrupt between any two commands; stamps that must tell the truth; edits of override sources while a build runs |
| **Download wrapper**, `support/download/dl-wrapper`, `package/pkg-download.mk` | `$(PKG)_DL_DIR` and its `.lock`, temporary files, `.stamp_downloaded` | legacy link, check of an existing file, fetch over a list of URIs, post-process, check, atomic rename | several builds on one directory; kills; full disks; bad mirrors |
| **Hash check**, `support/download/check-hash` | none | a verdict (0, 2, 3, 4) on a name and a content | several hash files, several lines per file |
| **Git cache backend**, `support/download/git` | a git repository with its work tree, kept between runs | fetch, verify, deregister submodules, checkout, clean, submodules, export-subst, archive; wipe and restart on error | what one run leaves to the next; kills inside git; tags that move |
| **Patch application**, `support/scripts/apply-patches.sh` | the sources, `.applied_patches_list`, reject files | a recursive walk of directories, series files and archives; list and apply a patch | steps run again after a failure; pipes whose failures are not seen |
| **Configuration language and values**, `kconfig/expr.c`, `menu.c`, `symbol.c`, `confdata.c`, `zconf.y` | expressions, the menu tree, for each symbol its cached value, visibility and what the user set | parse, finalize, rewrite conditions, find loops; calculate values; set, load, save, presets | three-valued logic; caches; the order of asking; what is written must read back |
| **Configuration by questions**, `kconfig/conf.c` | `.config`, `.config.old`, `auto.conf`, the headers under `include/config`, the temporary files | twelve modes; passes of questions; saving; `syncconfig` before each build | answers that make earlier entries new; kills between file operations; make reads only timestamps |
| **Terminal dialogs**, `kconfig/lxdialog` | position, scroll, screen, buttons; a text with its cursor | menu, checklist, input, text and yes/no boxes, key by key | drawn by increments; a terminal that changes size; lists shorter than the window |
| **Configuration by menus**, `kconfig/mconf.c` | the dialogs that are open one from another, titles, rows, modes, file name | rows of a menu, every key, search and jumps, load, save, exit, SIGINT | early returns; values that change below a screen that is shown again; ends in many ways |
| Other editors, `kconfig/nconf.c`, `gconf.c`, `qconf.cc` | the same with other toolkits | - | - |
| Per-package directories, finalization, `package/pkg-utils.mk:251-293`, `Makefile:722-838` | `per-package/`, `host/`, `target/` | rsync with hard links, path fix-ups | files shared by hard links; stale files |
| Kconfig packages, `package/pkg-kconfig.mk` | the `.config` of linux, busybox, ... and its stamps | merge, fix up, editors, update-config, diff-config | timestamps, interrupted rewrites of the user's configuration |
| Root filesystem images, `fs/common.mk` | images, a copy of the target directory each | one fakeroot script per image | images made in parallel |
| Other backends, post-processing | none between runs | write one file | - |
| mkusers, makedevs, toolchain wrapper, br2-external, graph-depends | none | pure algorithms | boundary cases |
| Console scripts, `board/ingraw/inconsole2/rootfs` | log files, the profile and the first-login flag in `/userdata` | launcher (respawned by init), restart loop, failure screen, first-login reset | power cuts, kills on purpose and crashes |
| Fuel gauge driver, `board/.../patches/linux/0003`, `0004` | cached readings | polling work, interrupt, property reads, removal | three contexts on one device |
| Reports, maintenance utilities, tests, board data | - | - | - |

**How they interact.** `make` considers a package's stamps in the order of the
rules. The `.stamp_downloaded` recipe calls `dl-wrapper` under `flock`, once per
file; `dl-wrapper` calls a backend (`git` keeps its cache next to the output, so
the same lock protects it) and then `check-hash`. The extract recipe reads the
file *without* the lock. `.stamp_patched` calls `apply-patches.sh` for each
patch and patch directory. Install recipes write to directories that
`target-finalize` joins and that the image recipes copy. The lock is the only
synchronisation between builds; stamps and order-only prerequisites are the only
ones inside a build.

The configuration programs share a library: `zconf.y` and `menu.c` make a tree of
`Config.in` files, whose symbols `symbol.c` evaluates with `expr.c`;
`confdata.c` reads and writes `.config`. `conf` asks about it line by line, `mconf` by
opening dialogs of `lxdialog` one from another. The build side meets the
configuration side in the files: before each build `conf --syncconfig` turns `.config` into
`auto.conf` and touches a header for each symbol that changed, and make decides by
the times of these headers what to build again.

**What makes each component correct**

- *Download*: a file is used only if it passed `check-hash`; a good file is never
  removed or replaced; nothing partial appears under the final name; a download
  ends, and succeeds if one URI is good.
- *Package steps*: dependencies are installed before they are used; when make
  succeeds, what was asked for is installed as it was built; a rebuild takes in
  the edits and touches no other package; make ends; what is installed has been
  checked.
- *Git cache*: an archive depends on the changeset only; it is of what the tag
  names; a cache that a kill has broken heals.
- *Patches*: a patched tree has been given every patch, once, in order, and has the
  whole of each that reached `patch` whole.
- *Configuration language*: rewriting a condition keeps its value; an entry has
  every condition written around it, is where the file says and can be reached;
  loops are reported, and only loops.
- *Configuration values*: a value does not depend on what was asked before; it
  keeps its limits; an accepted change takes effect; one value of a choice is y;
  both kinds of file give the configuration back.
- *conf*: a configuration is never lost and never partial; the passes ask
  everything and end; no change of a symbol goes unnoticed by make.
- *Dialogs*: what is highlighted is what Enter takes; the window stays in the
  list; the caller gets an item of its list.
- *menuconfig*: screen and title are current; what is visible can be reached; no
  change is lost without a question.
- *Per-package directories and finalization*: no recipe changes what another
  package has installed; the target holds what the packages install, and no more.
- *Kconfig packages*: the user's configuration is never lost; what is built was
  configured with the `.config` that is there.
- *Console scripts*: the console always ends up with a runtime or a failure
  screen; a reset wins over what the runtime saves.
- *Driver*: no work runs on a device that is gone; a failed read is not reported
  as a value.

`PROJECT.json` lists every component with its status, and the hazards that weigh
most with the line where each bites and the properties that cover it; section 5
has the others.

## 2. Modules

| Module | Models | Extends |
|---|---|---|
| `CheckHash` | `check-hash`: the exit code as an operator | Sequences, FiniteSets |
| `Download` | the download step: `dl-wrapper`, the lock, several builds, kills | `CheckHash` |
| `DownloadStore` | what the download step promises: the abstract specification | - |
| `PackageBuild` | the steps of the packages of a build under make | standard modules |
| `GitCache` | `support/download/git` over many runs | standard modules |
| `ApplyPatches` | the patch step, over reruns | SequencesExt |
| `KconfigTypes` | the types of the symbols and the strings that are valid for each | Integers |
| `KconfigExpr` | `expr.c`: expressions, their value and their rewritings, as functions | `KconfigTypes`, SequencesExt |
| `KconfigRewrite` | two conditions that are rewritten as `menu_finalize` does | `KconfigExpr` |
| `KconfigMenu` | `menu.c`: building and finalizing the tree, as operators | `KconfigExpr` |
| `KconfigLoops` | `symbol.c`: the search for dependency loops | `KconfigMenu` |
| `KconfigTree` | `conf_parse`: statements, finalization, search | `KconfigLoops` |
| `KconfigLanguage` | a condition rewritten or a file parsed | `KconfigRewrite`, `KconfigTree` |
| `KconfigSymbol` | `symbol.c`: calculating and setting values | `KconfigLoops` |
| `KconfigData` | `confdata.c`: reading, writing, presets | `KconfigSymbol` |
| `KconfigSession` | a program that starts from a file and changes values | `KconfigData` |
| `ConfigFiles` | what the saving of a configuration promises: the abstract specification | - |
| `KconfigFiles` | the files `conf` leaves, what make knows of them, and what must be true of them | `KconfigTypes`, instance of `ConfigFiles` |
| `KconfigSaving` | how these files are written, for any values of the symbols: between `ConfigFiles` and `KconfigConf` | `KconfigFiles` |
| `KconfigConf` | `conf`, run again and again on a directory, killed and followed by builds | `KconfigData`, `KconfigFiles`, instance of `KconfigSaving` |
| `Lxdialog`, `DialogResults` | the terminal and the keys common to the dialogs; what each promises its caller | - |
| `Menubox`, `Checklist`, `Inputbox`, `Textbox`, `Yesno` | one dialog each | `Lxdialog` |
| `Dialogs` | all five, called by anyone | the five |
| `MconfScreens` | the calls of `mconf.c` and their titles, for any tree of menus | `DialogResults` |
| `Mconf` | `mconf.c`: the screens over a configuration | `KconfigData`, `MconfScreens` |
| `...Proofs` | the proofs about `Download`, `PackageBuild`, `GitCache`, `ApplyPatches`, `KconfigRewrite`, `KconfigSaving` and, in `DialogProofs`, the five dialogs and `MconfScreens`; those about `ConfigFiles` are in it | their module, TLAPS, the library's theorems |
| `MC...` | the small instances TLC checks | their module |

Operators whose comment begins with "(A bug: ...)" are deliberate faults. No
specification uses them; each shows, put in the place of the definition that
follows it, that a property can fail.

### Download

`pc[b]` is where build `b` is in the recipe and in the script; the values are the
stretches of `dl-wrapper` between two points where another process can see the
difference: `flock` (pkg-download.mk:120), `legacy` and `copy` (66-70: ln, then
cp), `existing` (78-88), `fetch` (94-151), `post`, `check` (171), `cat`, `mv`
(233), then `touch` (the stamp) and `extract`. `output[f]` is the file under its
final name; `tmpf` and `part` are the two temporary files. A content is a member
of `Contents`; `Truncated` is what a partial write leaves. `Serves[i][f]` is what
URI `i` may answer. The backends, mirrors and the disk are the environment:
nondeterministic answers, `DiskFaults` and `Kill`.

`DownloadStore` has two actions: a file that is not good may change, and a build
is stamped while all files are good. `ImplementsStore` says that `Download` is
that, with `Good` the contents that every build of the tree accepts.

### PackageBuild

`stamps[p]` are the stamp files, `stale[p]` those that are older than a normal
prerequisite: two booleans in place of timestamps, which is all that make's
decision needs (`IsUpToDate`). `Prereqs` and `OrderOnly` are the rules of
pkg-generic.mk:874-991. What a step makes is abstracted to the version of the
source it was made from (`tree`, `obj`, `inst`), `Partial` while its recipe runs.
A run of make considers a target when its prerequisites are `ready`
(`Considers`), finds it up to date, or starts its recipe, which ends with the
touch of its stamp, fails, or is interrupted. With `PerPackage` recipes run in
parallel, otherwise one at a time (Makefile:240-245). `CleanFor` is the list of
things the clean-for-* recipes remove, one step per removal; `CanConsider` is
`.WAIT`.

Commands: a whole build, one package, reinstall, rebuild, reconfigure,
dirclean, and `rebuild all`, which is two goals on one command line.
`before` and `checked` are `.files-list.before` and what check_bin_arch was given.

### GitCache

The script runs its ten steps in order; each is an action on the cache as git
sees it: `tags`, `heads`, `head`, `index`, and on the files: `tree` (of which
commit, with whose metadata substituted, with untracked files or not) and `sub`
(the same for a submodule; `linked` while its `.git` is there, which is how git
recognises it). A kill leaves a lock file or a part of the work (`KillGit`,
`KillFiles`, `KillWipe`). `outage` tells whether commands fail in a behaviour,
which `RunHeals` asks about; the history variable `cut` is true from a kill inside
a removal of files until the cache is made afresh. `OnError` and `Wipe` are the ERR
trap. git itself is not in the repository; its part is what the script's commands
do according to their documentation, and the cases the finding rests on were
reproduced with git 2.39 on scratch repositories.

### ApplyPatches

`Walk` is `scan_patchdir` as a recursive function on a bounded depth (`Scan` is one
level of it); the step goes through its result: refuse (missing, duplicate), list, apply. A patch is a
name in a directory, with the type its suffix gives it; `sources` is what `patch` has made of
the patches, one after the other: `got` tells how much of each it has, `"whole"`, `"part"` or
`"none"`.

Line 119 is `uncompress | patch` without `pipefail`, so that a `gunzip` that is missing, dies or
reads a truncated file, or a `cat` of what cannot be read, is not seen. `Given` is what
comes out of it: the whole, a part or nothing (`unzip -d` and `bunzip` give nothing in any
case). `patch` takes an empty input with status 0; one that ends between two hunks too; one that ends
inside a hunk it takes, rejects with a reject file, or refuses without one (each
was tried with GNU patch). `TakePatch` and `RejectPatch` are its two ways out. The history variable `short`
has the patches that did not come whole, until the directory is cleaned.

### The configuration language: KconfigExpr, KconfigMenu, KconfigLoops

An expression is a record with the tag of `enum expr_type`. Every function of
`expr.c` that makes a new expression is an operator on it, under its own name:
`expr_transform`, `expr_trans_bool`, `expr_trans_compare`, `expr_eliminate_dups`,
`expr_eliminate_eq`, `expr_depends_symbol` and so on; `expr_calc_value` is the
value under a valuation, 0, 1 and 2 for n, m and y. C changes expressions in
place; where the second argument is changed too, the operator returns both.
Comparisons of numbers go through `Number`, of strings through `Rank`.

No operator here is `RECURSIVE`, because the rewritings are proved. What recurs over an
expression is a function on the constant `Conditions`, the expressions there are
(`ValuesUnder`, `WithoutYn`, `ComparedWith`, ...). What calls itself on an expression that it has
made (`expr_eq`, which removes what two chains have in common and compares the rest;
`expr_eliminate_dups`, `expr_transform`) is a function on the depth of the calls:
`Equal[n]` is `expr_eq` with at most n calls in each other, and the operator is the
function at `MaxCalls`. The runs nest conditions to depth 12 and calls to depth 60, which none
reaches; the proofs are about conditions of every depth, and about any `MaxCalls`.

The menu tree (`KconfigMenu`) is a record of nodes and properties, numbered as the parser
allocates them; `Statement` is what the grammar's actions do with one statement
(`menu_add_entry`, `menu_add_menu`, `menu_end_menu`, `menu_add_prop`, ...), and
`menu_finalize` the pass over the tree at the end: conditions handed down, types
of choices, automatic submenus, ifs dissolved. `sym_check_deps` is the search for
loops with its marks and its early ends, and `sym_check_print_recursive` cuts the loop
it prints out of the stack of the calls (`dep_stack`).

Two machines exercise them. `KconfigRewrite` starts from any pair of conditions
and applies the rewritings in the order `menu_finalize` may; `KconfigTree` reads a
file statement by statement, finalizes, and then looks for loops in any order of the
symbols, as the order of the hash table. The properties compare with
definitions of their own: the value before and after, the conditions read off the parsed
tree, reachability in the graph of what symbols read.

### The values: KconfigSymbol, KconfigData, KconfigSession

A session `S` is the tree with, for each symbol, the fields of `struct symbol`:
the cached value and whether it is valid, what the user set, visibility, the
limits from dependencies, selects and implies. Because asking a value calculates and
caches it, operators that ask return the session after it. `sym_calc_value`,
`sym_set_tristate_value`, `sym_set_string_value`, `sym_toggle_tristate_value`,
`conf_read`, `conf_write`, `conf_write_defconfig`, `conf_set_all_new_symbols` and
`randomize_choice_values` are these functions, whole. A file is a sequence of
lines (symbol, value); strings and numbers are members of small sets.
`KconfigSession` is any program that starts from a file or a preset and changes
what is visible.

### conf: KconfigConf, KconfigFiles, KconfigSaving, ConfigFiles

The recursion of `conf()` and `check_conf()` over the menus stops at prompts, so
it is an explicit stack, and `Reply` is one answer. After the last pass the
saving goes file operation by file operation: open the temporary file, fill it,
rename `.config` to `.config.old`, rename the temporary file; for `syncconfig`, touch
the headers one by one, then `autoconf.h`, `tristate.conf` and, the last, `auto.conf`,
each with the conversion of its printer. `Kill` may come between any two, and the
next run starts from the files alone. `Build` is make, which rebuilds what has a
header that is newer and forgets the times. `touched`, `built` and `clean` are
what make knows.

The files, and the properties about them, are in `KconfigFiles`, and the steps of the writing
in a module of their own. `KconfigSaving` has, in place of the session, only what it says of each symbol: its
value and whether it counts (`said`, `SYMBOL_WRITE`). How a run comes to that is
one of two actions, `Begin` and `Decide`, which may give any values that the types
allow (`Outcomes`). `KconfigConf` uses its actions (`Saving!OpenTmp` and so on), each
with what it does to the session: `conf_write` and `conf_split_config` calculate values.
`ImplementsSaving` says that its whole behaviour, calls, answers and calculations included, is
one of `KconfigSaving`; in particular that a value is always one of its type, and that
a symbol that takes its value from outside (`SYMBOL_AUTO`) is never written.

`ConfigFiles` has three actions: work on the temporary file, keep the whole old
file under its other name, install a whole new one. `ImplementsFiles` says that
every step of the saving is one of them or a stutter.

### The dialogs: Lxdialog, Menubox, Checklist, Inputbox, Textbox, Yesno

Each dialog is a record with the locals of its function, and what it has drawn:
for each row of the window the item it shows, and the row and button that are
highlighted. An action is a key, with the drawing its code does: a scroll moves the
rows and prints one, nothing is drawn as a whole but at opening and resizing. `lines`
is the height of the terminal, which may change before any key. Returning sets
`res` and `item`, which `DialogResults` promises to callers.

### menuconfig: Mconf

`stack` is the chain of C calls: each entry is a dialog that waits, the last one
on the screen. A screen whose rows are worked out anew is drawn by a step of its own
(`DrawMenu`, `DrawChoice`, `DrawRelations`), after which `drawn` is true and it
waits. A step of the user is a result of the dialog that waits, within what
`DialogResults` promises, with all the code does until the next screen. `Rows` is
`build_conf`; `trail` is the list of titles that menus and searches push and pop,
`subtitles` what is shown of it. `SigHandler` runs `handle_exit` on top of
whatever waits. `stack`, `trail`, `subtitles`, `drawn` and `status` are those of
`MconfScreens`, whose actions say what a step may do to the calls and titles: draw
(`DrawScreen`), stay, open and close a dialog, enter and leave a menu, begin a
search, leave the program. Which of them a key does depends on the configuration,
and that is `Mconf`; each of its steps is one of theirs (`ImplementsScreens`). The
dialogs of `Mconf` are replaced by their promises; that
`Menubox` and `Checklist` keep them is `KeepsPromises`, which is proved.

## 3. Runs

Distinct states are those of the complete search of the passing runs.

| Run | Question | Result |
|---|---|---|
| `download_shared` (159 570) | two builds of one tree, two files, two mirrors that may fail or serve anything, good and bad legacy files, disk faults, one kill, two runs each: is only checked content extracted, is anything partial ever visible, does the directory implement the store? | holds |
| `download_ends` (5 238) | two trees, one without a hash for the patch, a build killed inside the lock: does every download end, and is one good URI enough? | holds |
| `build_parallel` (176 643) | `make -jN`, five commands, one edit, one fault: dependencies first, success means installed, rebuild installs the edit, the other package is not touched | holds |
| `build_ends` (308 132) | per-package directories, a make older than `.WAIT`, a host package, `rebuild all` and dirclean (of both directories) with a fault: does every run of make end? (The rules have no cycle; GNU make would drop one, not wait.) | holds |
| `git_cache` (564 983) | three runs, two tags, commits with different submodules, a tag that moves between two runs or at any step of one, failing commands, two kills anywhere: is each archive that of a fresh clone, does every run end, and make its archive when there is no outage? | holds |
| `git_movedtag` | the same cache without faults, and the tag moves only between two runs (`MovePoints`): is the archive of what the tag names? | **violated** |
| `patches_applied` (107 146) | nested archives, a series, a misfit, a `.bz`, two pipes that end early, three kills, reruns and dirclean: was `patch` given every patch, and have the sources the whole of each that came whole? | holds |
| `language` (50 148) | 857 conditions with each of 6 others, under 36 valuations, through every order of the rewritings; 1128 files of three or four entries in blocks, menus, ifs and choices, with the search in any order: are values kept, entries in place, conditions inherited, texts readable, loops reported? | holds |
| `values` (7 371) | three languages, from no file, three files, four presets or eight random settings, two changes: are cached values right, within limits, as accepted, and given back by both files? | holds |
| `runs` (60 732) | two runs of `conf` in any of twelve modes, any answers, a kill, builds in between: does what it asks, calculates and writes implement `KconfigSaving`, and its saving `ConfigFiles`; does make see every change and do header and `tristate.conf` say what `auto.conf` says; is everything asked, has a second `syncconfig` nothing to do, does each run end? | holds |
| `keys` (197 646) | the five dialogs, all keys, seven heights of terminal, lists of up to six items | holds |
| `menuconfig` (91 053) | four changes of the screen, up to four dialogs deep, with searches, files that cannot be written, SIGINT: are titles and screens right, is what is visible in reach, are changes not lost, does each step implement `MconfScreens`? | holds |

### What the violated run shows

**A moved tag is not seen** (git:146, 187). The fetch of `cset:cset` makes a
branch with the tag's name, which later fetches cannot move and which checkout
prefers. In the shortest trace the first run makes its archive, the tag moves while no run is
going, and the second run fetches the new tag, is refused the branch and archives the
old commit, with exit code 0. The comment at git:142-143 says that the checkout would fail.

### Known deviations

These definitions are in the modules; named as an INVARIANT of the run in
question, TLC shows the behaviour. They are not runs because what they contradict is
either wording or a matter of taste, or because one violated run of a component
is enough to read.

| Definition | In | What happens |
|---|---|---|
| `BinariesChecked` | `PackageBuild` | A second `installed` recipe checks nothing (pkg-generic.mk:131-142, 381-387). The list of the files present before the package is removed as soon as it has been compared; if the recipe then fails in `check_bin_arch`, or runs again for `<pkg>-rebuild`, there is no first list and the check passes. |
| `RebuildPicksUpEdits`, with `"rebuild all"` among the `Commands` | `PackageBuild` | `.WAIT` (pkg-generic.mk:1061) orders the prerequisites of `<pkg>-rebuild`; `all` is another goal, and `make -jN <pkg>-rebuild all`, which the manual proposes (`docs/manual/using-buildroot-development.adoc:73-77`), may look at the stamps before they are removed. |
| `ListedIsApplied` | `ApplyPatches` | Of `uncompress \| patch` only `patch` is heard (apply-patches.sh:119): when the command before it fails or reads a truncated file, the patch is listed, applied in part or not at all, and the step is stamped. So is every `.zip` and `.bz` patch (lines 82-89). |
| `YesSaves` | `Mconf` | SIGINT during the message of a save runs the exit dialog inside it; after yes the file under the old name does not have the changes of the other. |
| `ResultsAreCurrent` | `Mconf` | The results of a search are listed again on every return to them (mconf.c:433-459), but get_symbol_str prints the value at hand without calculating it (menu.c:804): after a jump and a change there, a result whose value follows from what was changed, and which nothing has asked for since, is listed with its old value. |
| `ResizeIsSafe` | `Menubox` | A resize starts again with the old first item (menubox.c:252): when the saved scroll position no longer fits, rows beyond the end of the list are printed. |

Three more that no definition states. `expr_trans_bool` says that it replaces
`bool FOO!=n` and tests for `S_TRISTATE` (expr.c:391-407): a bool is left as it
is, which costs an automatic submenu and no value. A `.config` that does not exist
clears the count of changes before it fails to open (confdata.c:413), so that
the changes made before are not asked about at the exit; `NothingLostUnasked` excepts it
(`failed`). The question after SIGINT says that ESC continues, and the program exits
(mconf.c:965, 1004); the property counts ESC as an answer.

### Where a holding property stops holding

- *A package without a `.hash` file* (dl-wrapper:66-70). The `cp` of a legacy file
  writes to the final name; if it fails after it opened the file, part of it stays,
  and without a `.hash` file `check-hash` accepts it. The comment of line 62 says
  that a download follows. With hashes the file is removed: that is
  `download_shared`; `TruncationDetected` is the assumption of the proofs.
- *A kill inside the `rm -rf` of a submodule* (git:181-192). Once its `.git` is
  gone, `git submodule foreach` skips it, `git clean -ffdx` does not enter it, and
  the files left are archived with the new ones. The kill is in the model and in
  `git_cache`; `ArchiveIsReproducible` excepts the archives made while `cut`
  is true, and no others.
- *A kill between the two removals of dirclean*, with per-package directories
  (pkg-generic.mk:390-392): the stamps stay and the files are gone, and make
  succeeds. `Orderly` excludes it; without per-package directories there is no such
  window.
- *Resizes of a dialog*: the buttons are drawn again with the first one
  highlighted and the one Enter takes is kept (menubox.c:278, checklist.c:202,
  inputbox.c:95, yesno.c:76). The properties about highlighted buttons except the
  time after one (`resized`).
- *A text without a newline at its end* (textbox.c:312): the end is not counted and
  a horizontal scroll moves the page; `TopIsFound` is about the others, which are all
  `mconf.c` shows.
- *A terminal too small for the question at the exit* (mconf.c:972): the error code
  is taken for an answer, and nothing is saved. The property is about ends at which
  nothing was asked or yes was answered.

### Bounds, and why they are enough

- *Two builds, two files.* The lock and the output are per directory; a third
  build only repeats what the second may do. Two files give the recipe an order
  and let a build be stopped between them. The theorems have no bound.
- *Two URIs*: one that may do anything and a last one; the loop has no memory of
  more.
- *Two packages*, one that depends on the other, one with an override source and
  one with two patches. Every rule of pkg-generic.mk relates steps of one package
  or a package and its dependency. The theorems hold for any dependency graph.
- *Three runs, two tags, three commits* in the git cache: something to leave
  behind, something that overwrites it, and a run that observes it; commits
  without a submodule, and with two versions of it; one pair of tags where one
  name does not exist at first.
- *Conditions of up to four symbols and comparisons, three operators deep*: each
  case of a rewriting looks at an operator and its two arguments, and the
  elimination at the two chains they form. The symbols are a bool, a tristate, m
  itself and a number compared with a constant; valuations give them all values, with
  modules and without.
- *Files of three or four entries* with one or two blocks around some: handing down
  a condition, moving an entry and dissolving an if concern an entry, the one before it and
  the blocks around it.
- *Two changes of the user*: one to make something cached, the other to make it
  stale. The starting points include files written under other languages, with
  values out of range and several values of a choice at once.
- *Two runs of conf, one kill*: one leaves something, the other finds it. The menu
  has an entry that a later answer makes visible, so that a second pass is
  needed, and a number that can be refused; the theorems have any symbols, values, runs and kills.
- *Windows of one to five rows, lists of zero to six items, seven heights*: lists
  shorter, equal and longer than the window; heights that are too small for the
  dialog, just enough, and more. The theorems have no bound.
- *Four results of dialogs* in menuconfig that change or open something (closing is
  free), four screens deep: into a menu, a change there, and back through a search or an exit.
- `MaxKills`, `MaxFaults`, `MaxEdits`, `MaxMoves`, `MaxShort`, `MaxRuns`, `MaxSteps`,
  `MaxRefused` bound the environment, never the program. Each run lets at least one
  fault hit every step; two where the second can hit the recovery from the first.
- `Depth` bounds the nesting of patch directories, `MaxDepth` the dialogs opened
  one from another; the instance of the first nests as deep as it allows, and no more.

Deadlock is checked in `runs` and `keys`, which a user or the next run can always
continue. The other programs stop when their bounded environment has no more to
ask of them, menuconfig when it exits.

### Fairness

The liveness properties assume weak fairness of the program's own steps: `Step(b)`
of each build, `MakeStep`, `Step` of the git script, `Steps` of conf. A shell,
make or C program that can go on does; backends, compilers and git commands terminate; the
kernel hands a free flock to a waiter (weak fairness suffices where nobody takes the lock for ever,
since each build downloads finitely many files). Of the user of `conf` it is
assumed that prompts are answered and that after at most `MaxRefused` refused answers
in a run one is accepted: `conf_string` asks again for as long as they are refused
(conf.c:130). Nothing is assumed of faults: no restart, no repair and no answer of
a mirror is ever forced.

## 4. Proofs

All are checked by TLAPS, for every value of the constants that satisfies the
assumptions of the module.

**Download.** `DownloadTypes`: the types and flock's mutual exclusion. The
invariant `DownloadInv` adds to them what each place in the script relies on: the
files a build went past match their hashes (`Passed`), and from the legacy link to
the rename it works on a file that does *not* match, so that the rename destroys
nothing (`Working`). It is needed because `ExtractsCheckedFile` speaks only of the
moment of extraction, after the lock is released: what makes it true is that no
other build changes a file that matches (`KeepsStep`), which holds only if all
builds agree on what matches. `ExtractionIsChecked` and
`DownloadImplementsStore` follow, under `SameTree` (the builds have the same
hashes) and `TruncationDetected` (check-hash does not accept a truncated file,
that is, the file has a hash).

`NothingUnchecked` (`OutputIsChecked`) needs neither: builds of different trees may
share the directory, and a file may have no hash. Its invariant `OutputInv` follows a
content to the final name: what is in `part` before the rename, and in `tmpf` before it is
copied there, check-hash of that build has let through (`MayPublish`), and a
copy in place happens only for a file with a legacy copy.

**PackageBuild.** `BuildTypes`, then the invariant `BuildInv`: what make has found
ready is up to date with all it needs (`ReadyInv`), an up-to-date stamp stands for
a whole product, and an install stamp for what was built (`StampInv`), and the
clean recipe is over before any stamp is considered (`OrderlyRun`). From it
`DependenciesFirst` and `SuccessIsInstalled`, for any packages, any dependency
graph, any number of faults and edits. Both assume `Orderly`: with per-package
directories, a make with `.WAIT`, and neither `rebuild all` nor `dirclean` among
the commands. `rebuild all` breaks it by the deviation above; `dirclean` because it
removes the per-package directory before the build directory, and a kill may come
in between.

`OthersKept` (`OthersUntouched`, an action property) assumes nothing about the commands. Its
invariant, `ActiveInv`, is that no recipe runs for a step that is up to date: a package
that is complete has then no active recipe, and make finds each of its steps up to
date again.

`RebuildInstallsEdits` (`RebuildPicksUpEdits`, under `Orderly`) adds `EditsInv` to `BuildInv`:
while a package with an override source is rebuilt, whatever of it is up to date, and not
among what the clean recipe has still to remove, was made from the source of the
start or a later one. It also needs that the goals of the command
are among what make wants, which is the first step of the recursive function
`Closure`; the lemma `GoalsWanted` unfolds it.

**GitCache.** `GitTypes`, then `GitInv`: a changeset that was verified can be
checked out (`CheckedOut`), the refs are commits the server has named (`RefsInv`),
a submodule's files are there only while git sees a submodule (`SubInv`), and from
the checkout on the files are those of the index, made afresh (`FilesInv`).
`ArchivesReproducible` follows without any assumption on the kills: `SubInv` is the
part that a kill inside `rm -rf` breaks, and it is stated, like the property, for
caches that are not `cut`.

**ApplyPatches.** `PatchedSources` (`Patched`): whatever was killed, refused and run again,
a stamped step has given `patch` every patch of the walk, once and in order, and the sources
have the whole of each that is not in `short` (`Delivered`). The
invariant `PatchInv` says that a step is one of two: it began with an empty
`.applied_patches_list`, and then the list and the sources are exactly the wanted
patches, delivered, up to where it is (`Fresh`; between the listing and the `patch` of one, the list is
one ahead of the sources); or it began with the list of an earlier step, and
then that list starts with the first wanted patch, so that the step cannot
pass it and will be refused (`Doomed`, `ListInv`). So a second attempt after a failure never
goes wrong and never succeeds without dirclean. The theorem is about walks of
any length and depth; the lemmas about `FlattenSeq` (`GatheredSteps`, `FlattenIsGathered`) and about
`Walk` (`WalkType`) are inductions. It assumes nothing of the patches, of their types or of
the commands that uncompress them: what these leave out is in `short`, and only there
(`DeliveredInTurn`).

**KconfigRewrite.** `RewritingsSound` (`RewritingsAreSound`): `expr_transform`,
`expr_eliminate_dups` with the joins of `expr_join_and` and `expr_join_or`, and
`expr_trans_compare` keep what a condition means, in whatever order `menu_finalize` calls
them; and `expr_eq` and `expr_depends_symbol` say yes only where it is true.
`SubmenuImplied` (`SubmenuIsImplied`): what `expr_eliminate_eq` leaves of a pair decides rightly
that an entry belongs to a submenu. The hypothesis `Conditions = AllConditions` says that the
conditions are all the finite expressions over the symbols, of any depth.
`PrintedReads` (`PrintedReadsBack`): what `expr_print` writes of a condition is read to its end by
the grammar of `zconf.y`, and as a condition of the same value: the parentheses that
`expr_compare_type` leaves out are not needed. It assumes that no name is a sign
(`NamesAssumption`); the code prints a quoted constant without its quotes. What is assumed of
symbols and values is `ValuesAssumption`: the text of a bool or a tristate is its value, a bool is
not m, y, m and n are themselves, different texts differ, and the one below about constants.

The argument has three layers. A function on conditions is known by its equation at each
condition (`ValuesUnderIs`, `WithoutYnIs`, ...), and what holds of a condition if it holds of its
operands holds of all (`OfEveryCondition`), because going to an operand is well-founded. A
chain is known by its operands: its value is the one amount that they have together
(`Amounts`), which stays when an operand changes place with one of the same value
(`AmountOfSame`), goes away where it counts for nothing (`AmountWithout`) or is joined to
another (`AmountOfJoined`); with these the loops over pairs of operands are
inductions on the number of pairs. And what calls itself on what it has made is right at any
depth of calls if it is right when the calls within are. The inductive invariant
`RewriteInv` says of each stage what the conditions as rewritten have to do with those as
written, and, for the comparison with n, that the symbols that stand alone are still
switches: that is why each lemma (`TransformKeeps`, `EliminateDupsKeeps`) also says over which
symbols the result is (`Over`). For `SubmenuImplied` it relates the pair before and after:
whatever goes away from the second condition went away from the first (`SharedBy`, `NothingLeft`).

For `PrintedReads` a text is read at three levels: an operand, a chain of && and a chain
of ||. `ReadBy` says that a text is read at its level, whatever may come next, given calls at
least as deep as the text is long, and that nothing after it is touched. An operand
of the level below is a chain of one (`ChainOfOne`) and two chains with the sign
between them are a chain (`ChainOfTwo`), also one that is itself the first part of a longer chain:
that is what `ReadInChain` adds, because the reader groups from the right what
`expr_print` wrote from a tree that may group from the left. With these the parentheses of
`Enclosing` are right by cases, and every condition reads back by the induction on its operands
(`AllRead`). The proof attempt found one definition of the model without a meaning: the reader's
`CASE` had two arms that can hold together, which TLC takes in order and the language does not; a
comparison now needs a name at its front.

Four things that the properties first said turned out to be false when the proof was
attempted, in cases that no condition of the run had. None is a difference from what a doc
says; each is now an exception in the property or the assumption, where its comment names it.
A string or a number that stands alone in a condition counts as n, but is not equal
to n, so that the comparison with n is y (expr.c:914-977): the test is about conditions whose
lone symbols are switches. A string symbol is found to be "depended on" by `S=y`, which
does not make the condition n when its tristate value is. The constant `"2"` is equal to a
tristate that is y, because `expr_parse_string` reads both as the number 2, so that
`T="2" && T!=y`, which `expr_join_and` joins to `T="2"`, is n and becomes y. And an
entry on `!m` would be found to imply the condition `m=n`, which holds nowhere.

**ConfigFiles.** `NobodyReadsAPart` and `ConfigurationSurvives`: two lines of
invariant on the abstract specification. `KconfigSaving` implements it, which is proved
below; the promise about a user's configuration therefore needs no separate check.

**KconfigSaving.** `BuildsSeeChanges` (`BuildSeesChanges`, of which `HeadersFollowAuto` and
`FilesAgree` are the parts) and `SavingImplementsFiles` hold for any set of symbols of any types, any values a session
may come to, any number of runs, kills and builds; the only assumption is that the two
marks for a file that is missing and for one that is partly written differ. The invariant
`SavingInv` (theorem `SavingInvariant`) has four parts. `TypeOK` has the outcomes of the session in it, because
that a tristate is one of n, m and y is what makes `auto.conf` read back as it was
written (lemma `ReadBack`). `FilesInv` says that the temporary file is whole once it was filled,
and `.config` out of the way before the second rename: the refinement follows from it, and with
`ConfigurationSurvives`, carried over it, `NothingIsLost`.
`AutoInv` is about `touched`. The property itself speaks only of the moment when make
may build; but kills leave headers touched for values that never came into
`auto.conf`, and a later run may go back to the old value. What holds at all times is that
each symbol whose value in `auto.conf` is not that of the last build has been touched, and, while the files
are being written, that each symbol that is about to change has been touched or is still
to be (`ChangesAreTouched`: this is what the comparisons of `conf_split_config` come to, case
by case). The order of the code, headers first and `auto.conf` last, is what keeps the
first across the step that replaces `auto.conf`. `AgreeInv` carries the three generated files
from one rename to the next.

The theorems are about `KconfigSaving`; that `conf` with its questions and
calculations implements it is the property `ImplementsSaving`, which TLC checks in `runs`, since
the calculation of the values is recursive. The properties are those of `KconfigFiles`, and the run
checks them of `KconfigConf` too.

**Dialogs.** The theorems are about `Dialogs`, any of the five called again and again; the
invariant `DialogsInv` is the conjunction of one for each, and a step of one leaves the others
alone. For each, an invariant that relates the locals to the screen: the
counters stay in their bounds (`Given`, `Placed`), and the screen is the function
`Drawn` of scroll, size and choice (`LaidOut`). The lemmas about scrolling and printing one row
(that they take one such screen to the next) carry the proofs: `MenuShowsWindow`,
`ListShowsWindow`, `CursorStaysAtPosition` and `AnswerIsLit` are about boxes, lists
and terminals of any size. `HotKeysCycle` shows that the two-part search of a hotkey
goes round all items that have it, and `PromisesAreKept` (`KeepsPromises`, an action
property) what `Mconf` takes for granted.

`PageIsFound` (`TextIsRight`) is about texts of any length: `back_lines` and `get_line` count
the end of the text as a line in one direction and not in the other, and the invariant
`TextInv` says in which place of the text the two agree (`OnPage`).

**MconfScreens.** `TitlesArePath` (`TrailIsPath`): the titles are those of the menus and
searches that are open, for any tree of menus, any searches and any depth of the
dialogs. `mconf.c` appends to and takes from the list in three functions, two of which
return in several places, and `handle_exit` empties the part that is shown. The property
says that the calls with a title are the first of the stack, in the order of the
titles. `ScreensInv` adds what makes that last: the first call is the main menu's or the
exit question's, so that whatever else returns has a call to return to, and the question of a
search is next to the last title, so that the results that replace it stand by
their own. `OpensUntitled`, `OpensTitled` and `Closes` are the three things that happen to
the two lists; each action is one or two of them. That `Mconf` implements
`MconfScreens` is checked (`ImplementsScreens`), not proved: its rows are
recursive operators.

**How induction is done.** The library's `NatInduction` takes an operator as a parameter,
which no prover here can instantiate. Where an induction over numbers is needed, it
is done with a set in place of the operator: a set of numbers that holds 0 and, with each
number, the next one holds all (`AllNumbers`, from the least element that
`NatLessThanWellFounded` and `WFMin` give). A recursive function on `Nat` is unfolded
with `NaturalsInduction!NatInductiveDef`; the local function of `FlattenSeq` is found by
exhibiting one that satisfies its equation. A recursive function on conditions is unfolded
with `WellFoundedInduction!WFInductiveDef` along `Within`, "is an operand of".

**Only model-checked**

- That `conf` implements `KconfigSaving` (`ImplementsSaving`), that everything is asked and
  that a second `syncconfig` has nothing to do (`NothingLeftToDo`, about reading back): they
  depend on the calculation of values.
- That menuconfig implements `MconfScreens` (`ImplementsScreens`): which screen a key opens
  depends on the rows, and those on values.
- Liveness: `RunEnds`, `RunSucceeds`, `RunHeals`. It is out of the prover's reach.
- The tree, the loops, the values and the rest of menuconfig (`TreeIsRight`, `LoopsReported`, the properties of
  `KconfigSession` and `Mconf`). `menu.c` and `symbol.c` work on trees that grow and on caches, and
  are recursive operators here; a module that reaches one cannot be proved about. What was
  done for the expressions, functions on their depth in place of recursive operators,
  would have to be done for the calculation of the values.

## 5. Further hazards

`PROJECT.json` has the hazards that weigh most. Others that were met while reading,
with what becomes of them in the models:

*Build.* An existing file may be of another version (dl-wrapper:78; covered by
`ImplementsStore`); a file without a hash is kept with rc=1 (dl-wrapper:181;
`OutputIsChecked`). An override source edited after the rsync (pkg-generic.mk:228;
`RebuildPicksUpEdits`). A kill in the removal of the cache (git:50; `RunHeals`);
export-subst hints replaced in the cache's own files (git:288;
`ArchiveIsReproducible`); a network failure that costs the whole cache (git:136:
what the script says it does); `git lfs install --local` that outlives a run
(git:219: large files are not modelled). The patch listed before it is applied
(apply-patches.sh:118; `Patched`), its name matched as a regular expression (line
110: names are model values, the match is equality), and `set -e`, which sees only
the last command of a pipe (line 119; `Given`, `ListedIsApplied`).

*Configuration.* The conditions of implies and the bounds of ranges are not
searched for loops (symbol.c:1241: no language of the runs has such a loop).
Whether a choice counts as set by the user is worked out from the values visible
at the time, and the flag is then lost (symbol.c:313); asking for the visibility of
a menu may mark a symbol as set (menu.c:660): both are in the model and nothing
promises otherwise. A number out of range is reset after what depends on it was
calculated (confdata.c:462: calculated again by the next change or save).
`sym_get_string_default` leaves out ranges (symbol.c:732; `FilesReproduce`).
`conf_write_autoconf` calculates every value again, after `.config` was written and compared
(confdata.c:986; that it is the same set of values is `NothingLeftToDo`, and that one set goes
to the three files `BuildSeesChanges`).
The temporary files of `conf_write_autoconf` have no process number
(confdata.c:995: make runs one syncconfig at a time). At the end of its input
`conf_string` goes on with the default, which may be out of range, for ever
(conf.c:130: `FairSpec` assumes an accepted answer).

*Dialogs and menuconfig.* With no items Down lets the choice of a checklist grow
(checklist.c:245: no caller has none, by `OneOfChoice`). `print_position` divides by
the length of a text (textbox.c:405: none is empty). An entry of the main menu
has no jump, one deeper than eight menus an incomplete path (menu.c:716).
`conf_string`, `conf_load` and `conf_save` loop while the terminal is too small for
their box (mconf.c:904: a stutter). `child_count` only grows (mconf.c:278: it
decides indentation, which is left out).

*Not modelled yet.* diff-config keeps the user's configuration in a backup that the
next diff-config overwrites (pkg-kconfig.mk:307); editors do not remove
`.stamp_installed` (pkg-kconfig.mk:243). Hard links between per-package directories
(pkg-utils.mk:261); stale files in the target directory (Makefile:744). The
interrupt of the fuel gauge, freed after remove returns, and its work that
schedules itself (patch 0003:352). The profile removed while the runtime still
runs (inconsole-reset-first-login:7); a runtime killed on purpose shown as a crash,
and restarts without a limit (inconsole-launcher:108).

## 6. Abstractions to keep in mind

- make's search is any order that respects the prerequisites; the real one is one
  of them. A removal of a build directory is one step.
- rsync and extraction take the version the source has when they end. An edit
  during the rsync is therefore taken whole; half an edit is not modelled.
- The disk faults of `Download` are those of ln, cp, cat and mv; the creation of
  temporary files fails like cat.
- `GitCache` has one submodule path, not nested, and no large files. A commit
  named by its hash is not among the changesets, only tags, which can move; what
  a hash names cannot.
- Files left over by a killed build (`output.XXXXXX`, `BUILD_DIR/.<file>.XXXXXX`)
  are never read again, hence not modelled.
- In the configuration modules strings and numbers are names from a small set,
  with tables for their number (`Number`), order (`Rank`) and decimal form
  (`Decimal`); integers do not come near the width of `long long`. The lexer, `option
  env=`, macros, help texts and the checks that only warn are left out.
- The hash table's order of the symbols is a constant of an instance;
  `NothingStale` and `LoopsReported` are about other orders too.
- The random numbers of `randconfig` are a table, `Rolls`.
- The disk of `KconfigConf` takes what is written: its faults are kills.
- The dialogs leave out colours, boxes, wrapping, columns of a text other than the
  horizontal position, and what the update function of a text highlights.
- `Mconf` leaves out indentation, the selected row and scroll position that are
  kept for each menu (`active_menu`), and the pages of more than nine jump keys.
  A terminal that is too small is one of a dialog's results. The loops that try
  again at once are stutters.
- Umask, permissions, the wording of messages and the package hooks are left out.

## 7. Not modelled, and plan

What is not modelled is listed in `PROJECT.json` with the reason. The other
configuration editors add display and events of toolkits that are not in the repository; the
backends, post-processing, legal-info and the reports write one file and keep
nothing; packages, boards and defconfigs are data.

Done: the build side in the order of how much rests on it, then the
configuration side from the expressions up to the menus. Next:

1. `KconfigPackage`: pkg-kconfig.mk composed with the stamps of `PackageBuild`
   (`.stamp_dotconfig`, fix-up, editors, update-config, diff-config). Properties:
   the user's configuration survives an interrupt; a build uses the `.config` that
   is there; update-config causes no rebuild.
2. `PerPackageDirs`: per-package-rsync with hard links, prepare, host- and
   target-finalize, image recipes. Properties: a recipe changes no other package's
   directory unless it writes in place; the target holds what is installed.
3. `Runtime`: inittab, inconsole-launcher, inconsole-reset-first-login and
   bootlog, with kills and power cuts. `FuelGauge`: the driver of patches 0003 and
   0004, with its work, interrupt and removal.
4. A composition of `Download` with `GitCache` as one of its backends: the
   answers of `Serves` become archives, with the lock shared; and of `Mconf` with the
   dialogs themselves in place of their promises.
5. Pure algorithms: mkusers' allocation of ids, makedevs' ranges, the toolchain
   wrapper's argument list, the cycles of graph-depends.
6. Proofs: the calculation of the values, with the recursion of `sym_calc_value` as a
   function on the depth of its calls, as for the expressions.
