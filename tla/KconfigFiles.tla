------------------------------ MODULE KconfigFiles ------------------------------
(* The files that conf leaves for its next run and for make, and what make knows   *)
(* of them (support/kconfig/confdata.c); how they are written is in KconfigSaving.  *)
EXTENDS KconfigTypes

CONSTANTS
    None,           \* no file
    Part            \* a file that was not written to its end

(* auto.conf for make, the header for C and tristate.conf have one line for each    *)
(* symbol that is on: they are functions from symbols to what the line says.         *)
KnownSyms == {s \in DOMAIN SymType : Known(s)}

\* The value auto.conf has for a symbol, read again.
OldValue(s, auto) ==
    IF s \notin DOMAIN auto THEN NoStr ELSE IF Known(s) THEN conf_set_sym_val(s, auto[s]) ELSE auto[s]

VARIABLES
    pc,             \* "off", "rand" and "ask" before anything is written, or the next step
    left,           \* what is still to be written: the headers to touch, and auto.conf
    disk,           \* the files: [config, old, tmp, def, auto, header, tristate]
    touched,        \* the symbols whose headers are newer than the last build
    built,          \* the auto.conf of the last build
    clean           \* the last run was a syncconfig that succeeded

NoLines == <<>>
Nothing == [touch |-> {}, auto |-> NoLines]
Whole(f) == f \notin {None, Part}
Files == {"config", "old", "tmp", "def", "auto", "header", "tristate"}

--------------------------------------------------------------------------------
(* Properties *)
Promised == INSTANCE ConfigFiles WITH config <- disk.config, old <- disk.old, tmp <- disk.tmp
\* The steps of the saving are the ones ConfigFiles describes: a file that is whole
\* replaces .config, which is .old then, and nothing else changes either of them.
ImplementsFiles == Promised!Spec

\* A header is newer than the last build whenever the value of its symbol is not
\* the one of that build, once make is about to build (confdata.c:843-969), kills
\* and returns to the old value included.
Changed(s, old, new) == OldValue(s, old) # OldValue(s, new)
HeadersFollowAuto ==
    pc = "off" /\ clean =>
        \A s \in KnownSyms \ ChoiceSyms : Changed(s, built, disk.auto) => s \in touched

\* What C reads in the header, make in auto.conf and what tristate.conf says of a symbol:
\* after a syncconfig that succeeded all mean the same value, however each file writes it
\* (confdata.c:995-1059).
HeaderSays(s) ==
    CASE s \notin DOMAIN disk.header -> NoStr
      [] s \in DOMAIN disk.header /\ Bool(SymType[s]) -> IF disk.header[s].module THEN "m" ELSE "y"
      [] OTHER -> disk.header[s].v
MakeReads(s) == IF s \in DOMAIN disk.auto THEN disk.auto[s] ELSE NoStr
TristateSays(s) ==
    CASE s \notin DOMAIN disk.tristate -> NoStr
      [] OTHER -> IF disk.tristate[s] = "M" THEN "m" ELSE "y"
FilesAgree ==
    pc = "off" /\ clean =>
        \A s \in KnownSyms \ ChoiceSyms :
            /\ SymType[s] # "hex" => HeaderSays(s) = MakeReads(s)
            /\ SymType[s] = "tristate" => TristateSays(s) = MakeReads(s)

\* What make sees when it builds is what the configuration says, however often conf
\* was killed before: newer headers for what changed, and three files that agree.
BuildSeesChanges == HeadersFollowAuto /\ FilesAgree
================================================================================
