------------------------------ MODULE ApplyPatches -----------------------------
(***************************************************************************)
(* The patch step of a package: the .stamp_patched recipe calls            *)
(* support/scripts/apply-patches.sh for each downloaded patch and for each *)
(* patch directory, on the same build directory.  The script walks the     *)
(* directory, writes the name of each patch to .applied_patches_list and   *)
(* pipes the patch, uncompressed, to patch(1).  Of the two commands of the *)
(* pipe only patch is heard: one that uncompresses and ends early goes     *)
(* unseen when patch is content with what it got.  The step may be killed  *)
(* and run again; <pkg>-dirclean gives it a fresh build directory.         *)
(*                                                                         *)
(* A patch is a name in a directory; what it changes is abstracted to how  *)
(* much of it the sources have: the whole, a part, or nothing.             *)
(***************************************************************************)
EXTENDS Integers, SequencesExt

CONSTANTS
    Dirs,      \* the patch directories, the nested ones and the archives included
    Calls,     \* the directories the recipe gives to the script, in order
    Listing,   \* Listing[d]: the names ls gives, sorted (those that match the patterns)
    Series,    \* Series[d]: the names in its series file, or NoSeries
    NoSeries,
    Files,     \* Files[d]: the names that exist
    Nested,    \* Nested[d]: the directory that a name is or unpacks to
    TypeOf,    \* TypeOf[name]: the type its suffix gives it, "other" if none
    Depth,     \* bound on the nesting
    MaxKills,  \* bound on the kills
    MaxShort   \* bound on the patches that do not come through the pipe whole

\* The types the script tells apart; those whose command can write the patch to its
\* output.  "unzip -d file" wants a directory, and there is no bunzip.
Types == {"series", "gzip", "bzip", "bzip2", "xz", "zip", "compress", "diff", "patch", "other"}
Uncompressed == Types \ {"zip", "bzip", "other"}

Names == UNION { Files[d] : d \in Dirs }
Sequence(s) == s \in Seq(ToSet(s))
ASSUME PatchesAssumption ==
    /\ Calls \in Seq(Dirs)
    /\ \A d \in Dirs : /\ Listing[d] \in Seq(Files[d])
                       /\ Series[d] = NoSeries \/ Sequence(Series[d])
                       /\ DOMAIN Nested[d] \subseteq Files[d]
                       /\ \A name \in DOMAIN Nested[d] : Nested[d][name] \in Dirs
    /\ \A name \in Names : TypeOf[name] \in Types
    /\ Depth \in Nat /\ MaxKills \in Nat /\ MaxShort \in Nat

--------------------------------------------------------------------------------
(* The walk *)

Patch(d, name, type) == <<[dir |-> d, name |-> name, type |-> type]>>

\* scan_patchdir: a series file decides alone; otherwise directories and archives are
\* walked where they stand in the listing.
Scan(walked) ==
    [d \in Dirs |->
        IF Series[d] # NoSeries
        THEN FlattenSeq([i \in DOMAIN Series[d] |-> Patch(d, Series[d][i], "series")])
        ELSE FlattenSeq([i \in DOMAIN Listing[d] |->
               LET name == Listing[d][i] IN
                 IF name \notin DOMAIN Nested[d] THEN Patch(d, name, TypeOf[name])
                 ELSE walked[Nested[d][name]]])]
Walk[n \in Nat] == IF n = 0 THEN Scan([d \in Dirs |-> <<>>]) ELSE Scan(Walk[n - 1])
Walked(c) == Walk[Depth][Calls[c]]

--------------------------------------------------------------------------------
VARIABLES
    list,     \* .applied_patches_list
    sources,  \* what patch has made of the patches, one after the other
    rejects,  \* there are reject files
    stamped,  \* .stamp_patched
    short,    \* the patches of which the pipe gave patch a part or nothing
    misfits,  \* the names of the patches that do not apply to these sources
    pc, call, todo,  \* where the step is: the call, the patches it has to go through
    kills

tree == <<list, sources, rejects, stamped, short>>
vars == <<tree, misfits, pc, call, todo, kills>>

\* got: how much of p the sources have
Applied(p, got) == [patch |-> p, got |-> got]

Init ==
    /\ list = <<>> /\ sources = <<>> /\ rejects \in BOOLEAN /\ stamped = FALSE
    /\ short = {}
    /\ misfits \in { m \in SUBSET Names : \A a, b \in m : a = b }
    /\ pc = "idle" /\ call = 0 /\ todo = <<>>
    /\ kills = 0

\* make runs the recipe, unless its stamp is there.
Start ==
    /\ pc \in {"idle", "failed"} /\ ~stamped
    /\ pc' = "call" /\ call' = 1 /\ todo' = <<>>
    /\ UNCHANGED <<tree, misfits, kills>>

\* The script removes the reject files, then walks the directory.
BeginCall ==
    /\ pc = "call" /\ call <= Len(Calls)
    /\ rejects' = FALSE
    /\ todo' = Walked(call)
    /\ pc' = "patch"
    /\ UNCHANGED <<list, sources, stamped, short, misfits, call, kills>>

SkipOther ==
    /\ pc = "patch" /\ todo # <<>> /\ Head(todo).type = "other"
    /\ todo' = Tail(todo)
    /\ UNCHANGED <<tree, misfits, pc, call, kills>>

IsListed(p) == \E i \in DOMAIN list : list[i].name = p.name

\* A patch of the series that is missing, or a name that is listed already.
Refuse ==
    /\ pc = "patch" /\ todo # <<>>
    /\ LET p == Head(todo) IN p.type # "other" /\ (p.name \notin Files[p.dir] \/ IsListed(p))
    /\ pc' = "failed"
    /\ UNCHANGED <<tree, misfits, call, todo, kills>>

\* The patch is listed before it is applied.
ListPatch ==
    /\ pc = "patch" /\ todo # <<>>
    /\ LET p == Head(todo) IN
         /\ p.type # "other" /\ p.name \in Files[p.dir] /\ ~IsListed(p)
         /\ list' = Append(list, p)
    /\ pc' = "apply"
    /\ UNCHANGED <<sources, rejects, stamped, short, misfits, call, todo, kills>>

\* What patch -F0 -N does with all of it: one that is there already does not apply.
Fits(p) ==
    /\ p.name \notin misfits
    /\ \A i \in DOMAIN sources : sources[i].patch = p => sources[i].got = "none"

\* What comes out of the pipe: a file that cannot be read, a truncated archive, a command
\* that is missing or dies leave a part of the patch, or nothing.
Given(p) ==
    CASE p.type \notin Uncompressed -> {"none"}
      [] Cardinality({ q \in short : q.type \in Uncompressed }) < MaxShort ->
             {"whole", "part", "none"}
      [] OTHER -> {"whole"}

\* patch ends well, and the script goes on.
TakePatch(given) ==
    /\ sources' = Append(sources, Applied(Head(todo), given))
    /\ todo' = Tail(todo) /\ pc' = "patch" /\ UNCHANGED rejects

\* It does not: some hunks may be in, and there are rejects unless it found no file to
\* patch or the input made no sense to it.
RejectPatch ==
    /\ sources' \in {sources, Append(sources, Applied(Head(todo), "part"))}
    /\ rejects' \in {rejects, TRUE}

\* (A bug: the status of patch is not looked at.)
ApplyIgnoresStatus ==
    /\ pc = "apply"
    /\ \E given \in Given(Head(todo)) :
         /\ \/ (given = "whole" => Fits(Head(todo))) /\ TakePatch(given)
            \/ /\ given = "part" \/ (given = "whole" /\ ~Fits(Head(todo)))
               /\ RejectPatch /\ todo' = Tail(todo) /\ pc' = "patch"
         /\ short' = IF given = "whole" THEN short ELSE short \cup {Head(todo)}
    /\ UNCHANGED <<list, stamped, misfits, call, kills>>

\* uncompress | patch, without pipefail: the status is that of patch alone.  It takes
\* an empty input for a patch without hunks, and one that ends between two hunks for the
\* whole; one that ends inside a hunk it may take, reject or refuse.
Apply ==
    /\ pc = "apply"
    /\ \E given \in Given(Head(todo)) :
         /\ \/ (given = "whole" => Fits(Head(todo))) /\ TakePatch(given)
            \/ /\ given = "part" \/ (given = "whole" /\ ~Fits(Head(todo)))
               /\ RejectPatch /\ pc' = "failed" /\ UNCHANGED todo
         /\ short' = IF given = "whole" THEN short ELSE short \cup {Head(todo)}
    /\ UNCHANGED <<list, stamped, misfits, call, kills>>

EndCall ==
    /\ pc = "patch" /\ todo = <<>>
    /\ IF rejects THEN pc' = "failed" /\ UNCHANGED call
       ELSE pc' = "call" /\ call' = call + 1
    /\ UNCHANGED <<tree, misfits, todo, kills>>

Stamp ==
    /\ pc = "call" /\ call > Len(Calls)
    /\ stamped' = TRUE /\ pc' = "idle"
    /\ UNCHANGED <<list, sources, rejects, short, misfits, call, todo, kills>>

\* Killed between two commands, or while patch writes the files.
Kill ==
    /\ pc \in {"call", "patch", "apply"}
    /\ kills < MaxKills /\ kills' = kills + 1
    /\ sources' \in {sources} \cup
         IF pc = "apply" /\ Head(todo).type \in Uncompressed
         THEN {Append(sources, Applied(Head(todo), "part"))} ELSE {}
    /\ pc' = "failed"
    /\ UNCHANGED <<list, rejects, stamped, short, misfits, call, todo>>

\* <pkg>-dirclean, and the sources extracted again.
Dirclean ==
    /\ pc \in {"idle", "failed"}
    /\ list' = <<>> /\ sources' = <<>> /\ stamped' = FALSE /\ short' = {}
    /\ rejects' \in BOOLEAN
    /\ pc' = "idle"
    /\ UNCHANGED <<misfits, call, todo, kills>>

Step == BeginCall \/ SkipOther \/ Refuse \/ ListPatch \/ Apply \/ EndCall \/ Stamp
Next == Start \/ Step \/ Kill \/ Dirclean

Spec == Init /\ [][Next]_vars

--------------------------------------------------------------------------------
(* Properties *)

\* What the step is for: the patches of all the calls.
Taken(p) == IF p.type = "other" THEN <<>> ELSE <<p>>
TakenOf(c) == FlattenSeq([i \in DOMAIN Walked(c) |-> Taken(Walked(c)[i])])
Wanted == FlattenSeq([c \in DOMAIN Calls |-> TakenOf(c)])

\* What was made are these patches, one after the other: whole, but for those the pipe
\* cut.
Delivered(made, cut, patches) ==
    /\ Len(made) = Len(patches)
    /\ \A i \in DOMAIN patches : /\ made[i].patch = patches[i]
                                 /\ made[i].got # "whole" => patches[i] \in cut

\* Whatever was killed, failed and run again before: when the step is stamped, patch
\* was given each patch of each call once and in order, no two of them have one name,
\* and the sources have the whole of each, except of those that a command before patch
\* in the pipe of apply-patches.sh:119 gave it a part or nothing of.
Patched ==
    stamped => /\ Delivered(sources, short, Wanted)
               /\ \A i, j \in DOMAIN Wanted : Wanted[i].name = Wanted[j].name => i = j

\* The sources of a patched directory have the whole of each patch that is listed: "the
\* patch will be uncompressed before being applied", "the list of the patches applied"
\* (apply-patches.sh:30-31).
ListedIsApplied ==
    stamped => \A i \in DOMAIN list :
                 \E j \in DOMAIN sources : sources[j] = Applied(list[i], "whole")

--------------------------------------------------------------------------------
(* Why it holds *)

\* What a walk can find, and what patch makes of it.
SeriesNames == UNION { ToSet(Series[d]) : d \in { e \in Dirs : Series[e] # NoSeries } }
Patches == [dir : Dirs, name : Names \cup SeriesNames, type : Types]
Outcomes == [patch : Patches, got : {"whole", "part", "none"}]

\* The wanted patches before the k-th of what call c walks.
Before(c, k) ==
    FlattenSeq([i \in 1..(c - 1) |-> TakenOf(i)])
    \o FlattenSeq([i \in 1..k |-> Taken(Walked(c)[i])])
\* Those the step has gone through: done patches of the call are no more to do.
Position == IF pc = "call" THEN 0 ELSE Len(Walked(call)) - Len(todo)
Done == Before(call, Position)
InStep == pc \in {"call", "patch", "apply"}

\* A list that is not empty starts with the first wanted patch; no name is in it twice.
ListInv ==
    /\ list # <<>> => Wanted # <<>> /\ 1 \in DOMAIN list /\ list[1] = Wanted[1]
    /\ \A i, j \in DOMAIN list : list[i].name = list[j].name => i = j
    /\ list = <<>> => sources = <<>>
\* A step that began with an empty list has listed and applied what it went through; one
\* that began with another list is refused the first patch it comes to.
Fresh ==
    /\ list = IF pc = "apply" THEN Append(Done, Head(todo)) ELSE Done
    /\ Delivered(sources, short, Done)
Doomed == list # <<>> /\ Done = <<>> /\ pc # "apply"
StepInv ==
    /\ call \in 1..(Len(Calls) + 1)
    /\ pc # "call" => /\ call <= Len(Calls) /\ Position \in 0..Len(Walked(call))
                      /\ todo = SubSeq(Walked(call), Position + 1, Len(Walked(call)))
    /\ pc = "apply" => todo # <<>> /\ Head(todo).type # "other"
    /\ Fresh \/ Doomed
PatchInv ==
    /\ pc \in {"idle", "failed", "call", "patch", "apply"}
    /\ sources \in Seq(Outcomes)
    /\ ListInv
    /\ InStep => StepInv /\ ~stamped
    /\ stamped => /\ list = Wanted /\ pc = "idle"
                  /\ Delivered(sources, short, Wanted)
================================================================================
