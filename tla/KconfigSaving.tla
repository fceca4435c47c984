------------------------------ MODULE KconfigSaving ------------------------------
(* What conf writes and make reads, file by file (support/kconfig/confdata.c):    *)
(* .config through a temporary file, the headers of the symbols that changed, and  *)
(* the header, tristate.conf and auto.conf for all. conf is run again and again,   *)
(* killed between any two steps, and followed by builds. How a run comes to its    *)
(* values is left to KconfigConf: here a session is what it says of its symbols.   *)
EXTENDS KconfigFiles

CONSTANTS
    AutoSyms,       \* the symbols with option env or defconfig_list
    Prefixed(_)     \* a hex number with its 0x

(* What a session may say of its symbols: for each a value, and whether it counts    *)
(* (SYMBOL_WRITE). A bool is what its type allows, and the symbols that take their    *)
(* value from outside are never written.                                          *)
Outcomes ==
    {said \in [KnownSyms -> [write : BOOLEAN, value : STRING]] :
        \A s \in KnownSyms :
            /\ SymType[s] = "tristate" => said[s].value \in {"y", "m", "n"}
            /\ SymType[s] = "boolean" => said[s].value \in {"y", "n"}
            /\ s \in AutoSyms => ~said[s].write}

(* auto.conf has no lines for what is n (kconfig_print_symbol with an argument).    *)
IsOn(s, own) == own.write /\ ~(Bool(SymType[s]) /\ own.value = "n")
AutoLines(said) == [s \in {t \in KnownSyms \ ChoiceSyms : IsOn(t, said[t])} |-> said[s].value]

\* The symbols whose headers are touched: those whose value is not what auto.conf
\* says, with the symbols that are gone.
IsTouched(s, own, old) ==
    CASE own.write /\ old # NoStr -> own.value # old
      [] own.write /\ old = NoStr -> ~Bool(SymType[s]) \/ own.value # "n"
      [] OTHER -> old # NoStr
Touched(said, auto) ==
    {s \in KnownSyms \ (ChoiceSyms \cup AutoSyms) : IsTouched(s, said[s], OldValue(s, auto))}
      \cup {s \in DOMAIN auto : ~Known(s)}

\* A #define of the symbol, or of its name with _MODULE after it.
header_print_symbol(s, v) ==
    [module |-> Bool(SymType[s]) /\ v = "m",
     v |-> IF Bool(SymType[s]) THEN "1" ELSE IF SymType[s] = "hex" THEN Prefixed(v) ELSE v]
tristate_print_symbol(v) == IF v = "m" THEN "M" ELSE "Y"
HeaderLines(auto) == [s \in DOMAIN auto |-> header_print_symbol(s, auto[s])]
TristateLines(auto) ==
    [s \in {t \in DOMAIN auto : SymType[t] = "tristate"} |-> tristate_print_symbol(auto[s])]

VARIABLE said   \* what the session says of each symbol
vars == <<said, pc, left, disk, touched, built, clean>>

Init ==
    /\ said \in Outcomes /\ pc = "off" /\ left = Nothing
    /\ DOMAIN disk = Files /\ disk.config # Part
    /\ \A f \in {"old", "tmp", "def"} : disk[f] = None
    /\ \A f \in {"auto", "header", "tristate"} : disk[f] = NoLines
    /\ touched = {} /\ built = NoLines /\ clean = FALSE

(* A run calculates and asks before it writes, and may end without writing.       *)
Before == {"rand", "ask"}
Begin ==
    /\ pc = "off" /\ pc' \in {"off"} \cup Before /\ said' \in Outcomes
    /\ left' = Nothing /\ clean' = FALSE
    /\ UNCHANGED <<disk, touched, built>>
Decide ==
    /\ pc \in Before /\ pc' \in Before \cup {"off", "def", "tmp", "split"} /\ said' \in Outcomes
    /\ UNCHANGED <<left, disk, touched, built, clean>>

(* Writing. Each step changes one file.                                         *)
Writing(at, next) == pc = at /\ pc' = next
OnlyDisk == UNCHANGED <<said, left, touched, built, clean>>
\* What is written to its end: some lines, and the session is further calculated.
Fill(f) ==
    /\ Whole(disk[f]') /\ disk' = [disk EXCEPT ![f] = disk[f]']
    /\ said' \in Outcomes /\ UNCHANGED <<left, touched, built, clean>>

\* (A bug: the old file is put aside before the new one is written.)
OpenTmpLate ==
    /\ Writing("tmp", "fill")
    /\ disk' = [disk EXCEPT !.tmp = Part, !.old = disk.config, !.config = None]
    /\ OnlyDisk

\* conf_write: a temporary file, the old file kept, the new one in its place.
OpenTmp == Writing("tmp", "fill") /\ disk' = [disk EXCEPT !.tmp = Part] /\ OnlyDisk
FillTmp == Writing("fill", "old") /\ Fill("tmp")
RenameOld ==
    /\ Writing("old", "new")
    /\ disk' = IF disk.config = None THEN disk ELSE [disk EXCEPT !.old = disk.config, !.config = None]
    /\ OnlyDisk
\* syncconfig goes on, the other modes end here.
RenameNew ==
    /\ \E next \in {"split", "off"} : Writing("new", next)
    /\ disk' = [disk EXCEPT !.config = disk.tmp, !.tmp = None]
    /\ OnlyDisk

\* (A bug: auto.conf is written before the headers are touched.)
SplitAutoFirst ==
    /\ Writing("split", "touch") /\ said' \in Outcomes
    /\ left' = [touch |-> Touched(said', disk.auto), auto |-> AutoLines(said')]
    /\ disk' = [disk EXCEPT !.auto = AutoLines(said')]
    /\ UNCHANGED <<touched, built, clean>>

\* conf_write_autoconf: every value is calculated again and compared with auto.conf;
\* the headers of what changed, one by one, then the files, auto.conf the last.
conf_split ==
    /\ Writing("split", "touch") /\ said' \in Outcomes
    /\ left' = [touch |-> Touched(said', disk.auto), auto |-> AutoLines(said')]
    /\ UNCHANGED <<disk, touched, built, clean>>
\* The next in the order of the hash table, which is any order.
FirstOf(syms) == CHOOSE s \in syms : TRUE
Touch ==
    /\ pc = "touch" /\ pc' = pc /\ left.touch # {}
    /\ touched' = touched \cup {FirstOf(left.touch)}
    /\ left' = [left EXCEPT !.touch = @ \ {FirstOf(left.touch)}]
    /\ UNCHANGED <<said, disk, built, clean>>
RenameHeader ==
    /\ left.touch = {} /\ Writing("touch", "tristate")
    /\ disk' = [disk EXCEPT !.header = HeaderLines(left.auto)]
    /\ OnlyDisk
RenameTristate ==
    /\ Writing("tristate", "auto")
    /\ disk' = [disk EXCEPT !.tristate = TristateLines(left.auto)]
    /\ OnlyDisk
RenameAuto ==
    /\ Writing("auto", "off")
    /\ disk' = [disk EXCEPT !.auto = left.auto]
    /\ clean' = TRUE /\ left' = Nothing
    /\ UNCHANGED <<said, touched, built>>

\* savedefconfig writes its file in place.
OpenDef == Writing("def", "filldef") /\ disk' = [disk EXCEPT !.def = Part] /\ OnlyDisk
FillDef == Writing("filldef", "off") /\ Fill("def")
Write == \/ OpenTmp \/ FillTmp \/ RenameOld \/ RenameNew \/ OpenDef \/ FillDef
         \/ conf_split \/ Touch \/ RenameHeader \/ RenameTristate \/ RenameAuto

Kill ==
    /\ pc # "off" /\ pc' = "off"
    /\ left' = Nothing /\ clean' = FALSE
    /\ UNCHANGED <<said, disk, touched, built>>

\* make builds what a newer header is used by, after a syncconfig that succeeded.
Build ==
    /\ pc = "off" /\ clean /\ <<built, touched>> # <<disk.auto, {}>>
    /\ built' = disk.auto /\ touched' = {}
    /\ UNCHANGED <<said, pc, left, disk, clean>>

Next == Begin \/ Decide \/ Write \/ Kill \/ Build
Spec == Init /\ [][Next]_vars

--------------------------------------------------------------------------------
(* Why the properties of KconfigFiles hold *)

\* A file that has passed the step that fills it is whole; nobody renames another.
FilesInv ==
    /\ disk.config # Part /\ disk.old # Part
    /\ pc \in {"old", "new"} => Whole(disk.tmp)
    /\ pc = "new" => disk.config = None

\* auto.conf has lines for symbols that may be written, and no bool is n in it.
Lines(auto) ==
    /\ DOMAIN auto \subseteq KnownSyms \ (ChoiceSyms \cup AutoSyms)
    /\ \A s \in DOMAIN auto :
         /\ SymType[s] = "tristate" => auto[s] \in {"y", "m"}
         /\ SymType[s] = "boolean" => auto[s] = "y"
\* While the files for make are written, the headers that are touched or still to be are those
\* of what changes; and at any time those of what has changed since the last build
\* have been touched, for a kill leaves them newer.
AutoInv ==
    /\ Lines(disk.auto)
    /\ \A s \in KnownSyms \ ChoiceSyms : Changed(s, built, disk.auto) => s \in touched
    /\ pc \in {"touch", "tristate", "auto"} =>
         /\ Lines(left.auto)
         /\ pc # "touch" => left.touch = {}
         /\ \A s \in KnownSyms \ ChoiceSyms :
              Changed(s, disk.auto, left.auto) => s \in touched \cup left.touch

\* The header and tristate.conf are made from the auto.conf that is renamed after them.
AgreeInv ==
    /\ clean => pc = "off" /\ disk.header = HeaderLines(disk.auto)
                /\ disk.tristate = TristateLines(disk.auto)
    /\ pc \in {"tristate", "auto"} => disk.header = HeaderLines(left.auto)
    /\ pc = "auto" => disk.tristate = TristateLines(left.auto)
TypeOK ==
    /\ said \in Outcomes /\ clean \in BOOLEAN
    /\ pc \in {"off", "tmp", "fill", "old", "new", "split", "touch", "tristate", "auto", "def", "filldef"} \cup Before
    /\ DOMAIN disk = Files
SavingInv == TypeOK /\ FilesInv /\ AutoInv /\ AgreeInv
================================================================================
