--------------------------- MODULE KconfigSavingProofs ---------------------------
(* Proofs about KconfigSaving, for any symbols, values, modes and kills: the       *)
(* headers tell make what changed, the files that are written together agree, and  *)
(* the saving of .config implements ConfigFiles. The invariant is SavingInv.       *)
EXTENDS KconfigSaving, TLAPS

--------------------------------------------------------------------------------
(* The comparison of conf_split_config *)

\* A value that is valid is read back as it is.
LEMMA ReadBack ==
    ASSUME NEW s, NEW v, conf_set_sym_val(s, v) # NoStr
    PROVE  conf_set_sym_val(s, v) = v
  BY DEF conf_set_sym_val

\* What a session says is lines, once what is n and what is not written is left out.
LEMMA LinesOfSession ==
    ASSUME NEW own \in Outcomes
    PROVE  Lines(AutoLines(own))
  <1>. DEFINE on == {t \in KnownSyms \ ChoiceSyms : IsOn(t, own[t])}
  <1>1. AutoLines(own) = [s \in on |-> own[s].value]
    BY DEF AutoLines
  <1>2. \A s \in on : s \in KnownSyms \ (ChoiceSyms \cup AutoSyms)
    BY DEF Outcomes, IsOn
  <1>3. \A s \in on : /\ SymType[s] = "tristate" => own[s].value \in {"y", "m"}
                      /\ SymType[s] = "boolean" => own[s].value = "y"
    BY DEF Outcomes, IsOn, Bool
  <1>. HIDE DEF on
  <1>. QED
    BY <1>1, <1>2, <1>3 DEF Lines

\* A line for a bool says y or m.
LEMMA BoolLines ==
    ASSUME NEW auto, Lines(auto), NEW s \in DOMAIN auto, Bool(SymType[s])
    PROVE  auto[s] \in {"y", "m"}
  <1>1. CASE SymType[s] = "tristate"
    BY <1>1 DEF Lines
  <1>2. CASE SymType[s] = "boolean"
    BY <1>2 DEF Lines
  <1>. QED
    BY <1>1, <1>2 DEF Bool

\* Whatever a symbol is read as in the new auto.conf and not in the old is touched.
LEMMA ChangesAreTouched ==
    ASSUME NEW own \in Outcomes, NEW auto, Lines(auto), NEW s \in KnownSyms \ ChoiceSyms,
           Changed(s, auto, AutoLines(own))
    PROVE  s \in Touched(own, auto)
  <1>. DEFINE old == OldValue(s, auto)
              new == OldValue(s, AutoLines(own))
              c(v) == conf_set_sym_val(s, v)
  <1>1. Known(s)
    BY DEF KnownSyms
  <1>2. old = IF s \in DOMAIN auto THEN c(auto[s]) ELSE NoStr
    BY <1>1 DEF OldValue
  <1>3. new = IF IsOn(s, own[s]) THEN c(own[s].value) ELSE NoStr
    BY <1>1 DEF OldValue, AutoLines
  <1>4. s \notin AutoSyms
    <2>1. SUFFICES ASSUME s \in AutoSyms PROVE FALSE
      OBVIOUS
    <2>2. s \notin DOMAIN auto /\ ~IsOn(s, own[s])
      BY <2>1 DEF Lines, Outcomes, IsOn
    <2>. QED
      BY <2>2, <1>2, <1>3 DEF Changed
  <1>5. IsTouched(s, own[s], old)
    <2>1. CASE own[s].write /\ old # NoStr
      <3>1. SUFFICES ASSUME own[s].value = old PROVE FALSE
        BY <2>1 DEF IsTouched
      <3>2. s \in DOMAIN auto /\ old = auto[s] /\ c(old) = old
        BY <2>1, <1>2, ReadBack
      <3>3. ~(Bool(SymType[s]) /\ own[s].value = "n")
        BY <3>1, <3>2, BoolLines
      <3>4. new = old
        BY <3>1, <3>2, <3>3, <2>1, <1>3 DEF IsOn
      <3>. QED
        BY <3>4 DEF Changed
    <2>2. CASE own[s].write /\ old = NoStr
      <3>1. IsOn(s, own[s])
        BY <2>2, <1>3 DEF Changed
      <3>. QED
        BY <2>2, <3>1 DEF IsTouched, IsOn
    <2>3. CASE ~own[s].write
      <3>1. new = NoStr
        BY <2>3, <1>3 DEF IsOn
      <3>. QED
        BY <2>3, <3>1 DEF Changed, IsTouched
    <2>. QED
      BY <2>1, <2>2, <2>3 DEF Outcomes
  <1>. QED
    BY <1>4, <1>5 DEF Touched

--------------------------------------------------------------------------------
(* The invariant *)

\* The first run finds a directory in which nothing was made for make.
LEMMA InitSaving ==
    ASSUME None # Part, Init
    PROVE  SavingInv
  <1>1. TypeOK /\ FilesInv
    BY DEF Init, TypeOK, FilesInv, Whole, Files, Before
  <1>2. disk.auto = NoLines /\ built = NoLines
    BY DEF Init
  <1>3. Lines(NoLines)
    BY DEF Lines, NoLines
  <1>. QED
    BY <1>1, <1>2, <1>3 DEF Init, SavingInv, AutoInv, AgreeInv, Changed

\* What a step that leaves the files for make and the last build alone keeps of AutoInv.
LEMMA AutoStays ==
    ASSUME AutoInv, UNCHANGED <<disk.auto, touched, built>>,
           pc' \notin {"touch", "tristate", "auto"}
    PROVE  AutoInv'
  BY DEF AutoInv, Changed

\* A change of one field of disk leaves the others.
LEMMA OneFile ==
    ASSUME TypeOK, NEW f \in Files, NEW x, disk' = [disk EXCEPT ![f] = x]
    PROVE  DOMAIN disk' = Files /\ disk'[f] = x /\ \A g \in Files \ {f} : disk'[g] = disk[g]
  BY DEF TypeOK

\* Every step keeps SavingInv.
LEMMA SavingStep ==
    ASSUME None # Part, SavingInv, [Next]_vars
    PROVE  SavingInv'
  <1>. USE DEF SavingInv
  <1>files. \A f \in {"config", "old", "tmp", "def", "auto", "header", "tristate"} : f \in Files
    BY DEF Files
  <1>1. CASE Begin
    BY <1>1, AutoStays DEF Begin, TypeOK, FilesInv, AgreeInv, Before
  <1>2. CASE Decide
    BY <1>2, AutoStays DEF Decide, TypeOK, FilesInv, AgreeInv, Before
  <1>3. CASE OpenTmp
    <2>1. disk'.tmp = Part /\ DOMAIN disk' = Files /\ \A g \in Files \ {"tmp"} : disk'[g] = disk[g]
      BY <1>3, <1>files, OneFile DEF OpenTmp
    <2>2. UNCHANGED <<disk.config, disk.old, disk.auto, disk.header, disk.tristate>>
      BY <2>1 DEF Files
    <2>. QED
      BY <1>3, <2>1, <2>2, AutoStays DEF OpenTmp, Writing, OnlyDisk, TypeOK, FilesInv, AgreeInv
  <1>4. CASE FillTmp
    <2>1. Whole(disk'.tmp) /\ DOMAIN disk' = Files /\ \A g \in Files \ {"tmp"} : disk'[g] = disk[g]
      BY <1>4, <1>files, OneFile DEF FillTmp, Fill
    <2>2. UNCHANGED <<disk.config, disk.old, disk.auto, disk.header, disk.tristate>>
      BY <2>1 DEF Files
    <2>. QED
      BY <1>4, <2>1, <2>2, AutoStays DEF FillTmp, Fill, Writing, TypeOK, FilesInv, AgreeInv
  <1>5. CASE RenameOld
    <2>1. CASE disk.config = None
      BY <1>5, <2>1, AutoStays DEF RenameOld, Writing, OnlyDisk, TypeOK, FilesInv, AgreeInv
    <2>2. CASE disk.config # None
      <3>1. disk' = [disk EXCEPT !.old = disk.config, !.config = None]
        BY <1>5, <2>2 DEF RenameOld
      <3>2. /\ DOMAIN disk' = Files /\ disk'.old = disk.config /\ disk'.config = None
            /\ UNCHANGED <<disk.tmp, disk.auto, disk.header, disk.tristate>>
        BY <3>1 DEF TypeOK, Files
      <3>. QED
        BY <1>5, <3>2, AutoStays DEF RenameOld, Writing, OnlyDisk, TypeOK, FilesInv, AgreeInv
    <2>. QED
      BY <2>1, <2>2
  <1>6. CASE RenameNew
    <2>1. /\ DOMAIN disk' = Files /\ disk'.config = disk.tmp
          /\ UNCHANGED <<disk.old, disk.auto, disk.header, disk.tristate>>
      BY <1>6 DEF RenameNew, TypeOK, Files
    <2>2. pc = "new" /\ pc' \in {"split", "off"}
      BY <1>6 DEF RenameNew, Writing
    <2>. QED
      BY <1>6, <2>1, <2>2, AutoStays DEF RenameNew, OnlyDisk, TypeOK, FilesInv, AgreeInv, Whole
  <1>7. CASE conf_split
    <2>1. /\ said' \in Outcomes /\ pc = "split" /\ pc' = "touch"
          /\ left'.touch = Touched(said', disk.auto) /\ left'.auto = AutoLines(said')
          /\ UNCHANGED <<disk, touched, built, clean>>
      BY <1>7 DEF conf_split, Writing
    <2>2. Lines(left'.auto)
      BY <2>1, LinesOfSession
    <2>3. \A s \in KnownSyms \ ChoiceSyms : Changed(s, disk.auto, left'.auto) => s \in left'.touch
      BY <2>1, ChangesAreTouched DEF AutoInv
    <2>4. AutoInv'
      BY <2>1, <2>2, <2>3 DEF AutoInv, Changed
    <2>. QED
      BY <2>1, <2>4 DEF TypeOK, FilesInv, AgreeInv
  <1>8. CASE Touch
    <2>1. /\ pc = "touch" /\ pc' = pc /\ left'.auto = left.auto
          /\ touched \cup left.touch \subseteq touched' \cup left'.touch
          /\ touched \subseteq touched'
          /\ UNCHANGED <<said, disk, built, clean>>
      BY <1>8 DEF Touch
    <2>. QED
      BY <2>1 DEF TypeOK, FilesInv, AutoInv, AgreeInv, Changed
  <1>9. CASE RenameHeader
    <2>1. /\ DOMAIN disk' = Files /\ disk'.header = HeaderLines(left.auto)
          /\ UNCHANGED <<disk.config, disk.old, disk.tmp, disk.auto>>
      BY <1>9 DEF RenameHeader, TypeOK, Files
    <2>. QED
      BY <1>9, <2>1 DEF RenameHeader, Writing, OnlyDisk, TypeOK, FilesInv, AutoInv, AgreeInv, Changed
  <1>10. CASE RenameTristate
    <2>1. /\ DOMAIN disk' = Files /\ disk'.tristate = TristateLines(left.auto)
          /\ UNCHANGED <<disk.config, disk.old, disk.tmp, disk.auto, disk.header>>
      BY <1>10 DEF RenameTristate, TypeOK, Files
    <2>. QED
      BY <1>10, <2>1 DEF RenameTristate, Writing, OnlyDisk, TypeOK, FilesInv, AutoInv, AgreeInv, Changed
  <1>11. CASE RenameAuto
    <2>1. /\ DOMAIN disk' = Files /\ disk'.auto = left.auto
          /\ UNCHANGED <<disk.config, disk.old, disk.tmp, disk.header, disk.tristate>>
      BY <1>11 DEF RenameAuto, TypeOK, Files
    <2>2. pc = "auto" /\ pc' = "off" /\ UNCHANGED <<said, touched, built>> /\ clean' = TRUE
      BY <1>11 DEF RenameAuto, Writing
    <2>3. \A s \in KnownSyms \ ChoiceSyms : Changed(s, built, left.auto) => s \in touched
      BY <2>2 DEF AutoInv, Changed
    <2>4. AutoInv'
      BY <2>1, <2>2, <2>3 DEF AutoInv
    <2>. QED
      BY <2>1, <2>2, <2>4 DEF TypeOK, FilesInv, AgreeInv
  <1>12. CASE OpenDef
    <2>1. DOMAIN disk' = Files /\ UNCHANGED <<disk.config, disk.old, disk.auto, disk.header, disk.tristate>>
      BY <1>12 DEF OpenDef, TypeOK, Files
    <2>. QED
      BY <1>12, <2>1, AutoStays DEF OpenDef, Writing, OnlyDisk, TypeOK, FilesInv, AgreeInv
  <1>13. CASE FillDef
    <2>1. DOMAIN disk' = Files /\ UNCHANGED <<disk.config, disk.old, disk.auto, disk.header, disk.tristate>>
      BY <1>13 DEF FillDef, Fill, TypeOK, Files
    <2>. QED
      BY <1>13, <2>1, AutoStays DEF FillDef, Fill, Writing, TypeOK, FilesInv, AgreeInv
  <1>14. CASE Kill
    BY <1>14, AutoStays DEF Kill, TypeOK, FilesInv, AgreeInv
  <1>15. CASE Build
    <2>1. pc = "off" /\ clean /\ built' = disk.auto /\ UNCHANGED <<said, pc, left, disk, clean>>
      BY <1>15 DEF Build
    <2>. QED
      BY <2>1 DEF TypeOK, FilesInv, AutoInv, AgreeInv, Changed
  <1>16. CASE UNCHANGED vars
    BY <1>16 DEF vars, TypeOK, FilesInv, AutoInv, AgreeInv, Changed
  <1>. QED
    BY <1>1, <1>2, <1>3, <1>4, <1>5, <1>6, <1>7, <1>8, <1>9, <1>10, <1>11, <1>12, <1>13, <1>14, <1>15, <1>16
       DEF Next, Write

\* The types of the saving, which file is whole when, and which headers have been touched.
THEOREM SavingInvariant == ASSUME None # Part PROVE Spec => []SavingInv
  <1>1. Init => SavingInv
    BY InitSaving
  <1>2. SavingInv /\ [Next]_vars => SavingInv'
    BY SavingStep
  <1>. QED
    BY <1>1, <1>2, PTL DEF Spec

--------------------------------------------------------------------------------
(* Theorems *)

\* For any symbols and any kills: when make is about to build, every symbol whose value is not
\* that of the last build has a newer header (conf_split_config before the rename of
\* auto.conf, confdata.c:843-1059).
LEMMA HeadersAreTouched == ASSUME None # Part PROVE Spec => []HeadersFollowAuto
  <1>1. SavingInv => HeadersFollowAuto
    BY DEF SavingInv, AutoInv, HeadersFollowAuto
  <1>. QED
    BY <1>1, SavingInvariant, PTL

\* Lines of the header and of tristate.conf mean what the line of auto.conf says.
LEMMA SameMeaning ==
    ASSUME Lines(disk.auto), disk.header = HeaderLines(disk.auto),
           disk.tristate = TristateLines(disk.auto), NEW s
    PROVE  /\ SymType[s] # "hex" => HeaderSays(s) = MakeReads(s)
           /\ SymType[s] = "tristate" => TristateSays(s) = MakeReads(s)
  <1>. DEFINE v == disk.auto[s]
  <1>1. /\ DOMAIN disk.header = DOMAIN disk.auto
        /\ DOMAIN disk.tristate = {t \in DOMAIN disk.auto : SymType[t] = "tristate"}
    BY DEF HeaderLines, TristateLines
  <1>2. CASE s \notin DOMAIN disk.auto
    BY <1>1, <1>2 DEF HeaderSays, TristateSays, MakeReads
  <1>3. CASE s \in DOMAIN disk.auto
    <2>1. Bool(SymType[s]) => v \in {"y", "m"}
      BY <1>3, BoolLines
    <2>2. disk.header[s] = header_print_symbol(s, v)
      BY <1>3 DEF HeaderLines
    <2>3. SymType[s] # "hex" => HeaderSays(s) = v
      <3>1. CASE Bool(SymType[s])
        <4>1. disk.header[s].module = (Bool(SymType[s]) /\ v = "m")
          BY <2>2 DEF header_print_symbol
        <4>2. HeaderSays(s) = IF disk.header[s].module THEN "m" ELSE "y"
          BY <1>1, <1>3, <3>1 DEF HeaderSays
        <4>3. CASE v = "m"
          BY <4>1, <4>2, <4>3, <3>1
        <4>4. CASE v = "y"
          BY <4>1, <4>2, <4>4
        <4>. QED
          BY <2>1, <3>1, <4>3, <4>4
      <3>2. CASE ~Bool(SymType[s])
        BY <1>1, <1>3, <2>2, <3>2 DEF HeaderSays, header_print_symbol
      <3>. QED
        BY <3>1, <3>2
    <2>4. SymType[s] = "tristate" => TristateSays(s) = v
      <3>1. SUFFICES ASSUME SymType[s] = "tristate" PROVE TristateSays(s) = v
        OBVIOUS
      <3>2. s \in DOMAIN disk.tristate /\ disk.tristate[s] = tristate_print_symbol(v)
        BY <1>3, <3>1 DEF TristateLines
      <3>. QED
        BY <2>1, <3>1, <3>2 DEF TristateSays, tristate_print_symbol, Bool
    <2>. QED
      BY <1>3, <2>3, <2>4 DEF MakeReads
  <1>. QED
    BY <1>2, <1>3

\* After a syncconfig that succeeded the header and tristate.conf have for each symbol the
\* value that auto.conf has, wherever earlier runs were killed (confdata.c:995-1059).
LEMMA GeneratedFilesAgree == ASSUME None # Part PROVE Spec => []FilesAgree
  <1>1. SavingInv => FilesAgree
    BY SameMeaning DEF SavingInv, AutoInv, AgreeInv, FilesAgree
  <1>. QED
    BY <1>1, SavingInvariant, PTL

\* Both: make builds what changed, and with one set of values (confdata.c:843-1059).
THEOREM BuildsSeeChanges == ASSUME None # Part PROVE Spec => []BuildSeesChanges
  <1>1. HeadersFollowAuto /\ FilesAgree => BuildSeesChanges
    BY DEF BuildSeesChanges
  <1>. QED
    BY <1>1, HeadersAreTouched, GeneratedFilesAgree, PTL

\* Every run of conf saves as ConfigFiles promises: what replaces .config is whole, and what it
\* replaces is kept (confdata.c:740-841).
THEOREM SavingImplementsFiles == ASSUME None # Part PROVE Spec => ImplementsFiles
  <1>1. Init => Promised!Init
    BY DEF Init, Promised!Init
  <1>2. SavingInv /\ [Next]_vars => [Promised!Next]_(Promised!vars)
    <2>. SUFFICES ASSUME SavingInv, [Next]_vars
                  PROVE  [Promised!Next]_(Promised!vars)
      OBVIOUS
    <2>. USE DEF SavingInv
    <2>1. CASE RenameOld
      <3>1. CASE disk.config = None
        BY <2>1, <3>1 DEF RenameOld, Promised!vars
      <3>2. CASE disk.config # None
        <4>1. disk' = [disk EXCEPT !.old = disk.config, !.config = None]
          BY <2>1, <3>2 DEF RenameOld
        <4>2. disk'.old = disk.config /\ disk'.config = None /\ disk'.tmp = disk.tmp
          BY <4>1 DEF TypeOK, Files
        <4>3. Promised!Whole(disk.config) /\ Promised!Whole(disk.tmp)
          BY <2>1, <3>2 DEF RenameOld, Writing, FilesInv, Whole, Promised!Whole
        <4>. QED
          BY <4>2, <4>3 DEF Promised!Next, Promised!Keep
      <3>. QED
        BY <3>1, <3>2
    <2>2. CASE RenameNew
      <3>1. disk'.config = disk.tmp /\ disk'.tmp = None /\ disk'.old = disk.old
        BY <2>2 DEF RenameNew, TypeOK, Files
      <3>2. disk.config = None /\ Promised!Whole(disk.tmp)
        BY <2>2 DEF RenameNew, Writing, FilesInv, Whole, Promised!Whole
      <3>. QED
        BY <3>1, <3>2 DEF Promised!Next, Promised!Install
    <2>3. CASE ~RenameOld /\ ~RenameNew
      <3>1. disk' = disk \/ \E f \in Files \ {"config", "old"} : \E x : disk' = [disk EXCEPT ![f] = x]
        BY <2>3 DEF Next, Write, Begin, Decide, OpenTmp, FillTmp, Fill, conf_split, Touch, RenameHeader,
                    RenameTristate, RenameAuto, OpenDef, FillDef, Kill, Build, Files, vars
      <3>2. UNCHANGED <<disk.config, disk.old>>
        BY <3>1 DEF TypeOK, Files
      <3>. QED
        BY <3>2 DEF Promised!Next, Promised!Scratch
    <2>. QED
      BY <2>1, <2>2, <2>3
  <1>. QED
    BY <1>1, <1>2, SavingInvariant, PTL DEF Spec, ImplementsFiles, Promised!Spec

\* Once there is a whole configuration there is one for ever, under its name or as .old,
\* however often conf is run and killed (confdata.c:774-841).
THEOREM NothingIsLost == ASSUME None # Part PROVE Spec => Promised!Survives
  <1>1. Promised!Spec => Promised!Survives
    BY Promised!ConfigurationSurvives
  <1>. QED
    BY <1>1, SavingImplementsFiles, PTL DEF ImplementsFiles
================================================================================
