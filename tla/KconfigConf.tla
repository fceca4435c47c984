------------------------------- MODULE KconfigConf -------------------------------
(* The program conf (support/kconfig/conf.c), which make runs to ask for what   *)
(* is new in a configuration (oldconfig), to complete it without asking, and     *)
(* before every build to bring auto.conf and the headers up to date              *)
(* (syncconfig). It is run again and again on the files of one directory, and    *)
(* may be killed between any two of its steps. The recursion of conf() and        *)
(* check_conf() over the menus is an explicit stack, for it stops at the prompts. *)
EXTENDS KconfigData, KconfigFiles

CONSTANTS
    Tree,           \* what conf_parse gives
    Configs,        \* the .config files the first run may find, None for none
    Named,          \* the files that --defconfig and KCONFIG_ALLCONFIG may name, or None
    Replies,        \* what the user may answer to a prompt
    Rolls,          \* the random numbers of randconfig
    Modes,          \* the input modes the program is run in
    MaxRuns,        \* how many times it is run
    MaxKills,       \* how many times it is killed
    MaxRefused      \* how many answers that are refused the user gives in a run

VARIABLES
    input_mode,
    S,              \* the session
    stack,          \* the calls under way, the innermost first
    conf_cnt,       \* a question was found in this pass
    rootEntry,      \* the menu whose new symbols are being asked
    runs, kills, refused
vars == <<pc, input_mode, S, stack, conf_cnt, rootEntry, left, disk, touched, built, clean, runs, kills, refused>>
files == <<left, disk, touched, built, clean, runs, kills>>

NewMode == [allnoconfig |-> "no", allyesconfig |-> "yes", allmodconfig |-> "mod",
            alldefconfig |-> "default", defconfig |-> "default"]
Seeded == {"allnoconfig", "allyesconfig", "allmodconfig", "alldefconfig", "randconfig"}
Asking == {"oldconfig", "syncconfig", "listnewconfig"}

\* A call: the function, its menu, the place of the next child in the list of the
\* menu (0 before the menu itself), and for a choice whether it was new.
Call(f, m, i) == [f |-> f, m |-> m, i |-> i, new |-> FALSE]
SymOf(m) == S.tree.menu[m].sym
IsMenu(m) == S.tree.prop[S.tree.menu[m].prompt].type = "MENU"
RECURSIVE menu_get_parent_menu(_)
menu_get_parent_menu(m) ==
    IF m = ROOT \/ (S.tree.menu[m].prompt # 0 /\ IsMenu(m)) THEN m ELSE menu_get_parent_menu(S.tree.menu[m].parent)

Init ==
    /\ pc = "off" /\ input_mode = "oldconfig" /\ S = NewSession(Tree)
    /\ stack = <<>> /\ conf_cnt = FALSE /\ rootEntry = ROOT /\ left = Nothing
    /\ disk \in [config : Configs, old : {None}, tmp : {None}, def : {None},
                 auto : {<<>>}, header : {<<>>}, tristate : {<<>>}]
    /\ touched = {} /\ built = <<>> /\ clean = FALSE /\ runs = 0 /\ kills = 0 /\ refused = 0

(* main.                                                                       *)

\* What a mode reads. file is the one that is named.
ReadFor(mode, file, config) ==
    CASE mode \in Seeded -> IF file = None THEN NewSession(Tree) ELSE conf_read_simple(NewSession(Tree), file)
      [] mode \notin Seeded /\ config = None -> sym_calc_value(NewSession(Tree), modules_sym)
      [] OTHER -> conf_read(NewSession(Tree), config)
Answered(X, mode) == IF mode \in DOMAIN NewMode THEN conf_set_all_new_symbols(X, NewMode[mode]) ELSE X

\* The program fails before it does anything: no .config to bring up to date, or
\* one that needs to be asked about when the user does not want it.
Fails(X, mode, file, nosilentupdate) ==
    \/ mode = "syncconfig" /\ (disk.config = None \/ (nosilentupdate /\ X.changed))
    \/ mode = "defconfig" /\ file = None
FirstCall(mode) == CASE mode = "oldaskconfig" -> <<Call("conf", ROOT, 0)>>
                     [] mode \in Asking -> <<Call("check_conf", ROOT, 0)>>
                     [] OTHER -> <<>>
Begins(X, mode, fails) ==
    IF fails THEN pc' = "off" /\ UNCHANGED <<S, stack>>
    ELSE /\ pc' = IF mode = "randconfig" THEN "rand" ELSE "ask"
         /\ S' = Answered(X, mode)
         /\ stack' = FirstCall(mode)
Read(X, mode, file, nosilentupdate) == Begins(X, mode, Fails(X, mode, file, nosilentupdate))
main(mode, file, nosilentupdate) ==
    /\ pc = "off" /\ runs < MaxRuns /\ runs' = runs + 1
    /\ input_mode' = mode /\ clean' = FALSE
    /\ conf_cnt' = FALSE /\ rootEntry' = ROOT /\ refused' = 0 /\ left' = Nothing
    /\ Read(ReadFor(mode, file, IF mode = "defconfig" THEN file ELSE disk.config), mode, file, nosilentupdate)
    /\ UNCHANGED <<disk, touched, built, kills>>

\* randconfig answers at random until nothing new is left but choices that are not y.
Randomized(r) == S' = r.S /\ pc' = IF r.changed THEN "rand" ELSE "ask"
Randomize(roll) ==
    /\ pc = "rand"
    /\ Randomized(conf_set_all_random(S, roll))
    /\ UNCHANGED <<input_mode, stack, conf_cnt, rootEntry, refused>> /\ UNCHANGED files

\* What follows the last pass (conf.c:691-716).
AfterPass == CASE input_mode = "listnewconfig" -> "off" [] input_mode = "savedefconfig" -> "def"
               [] input_mode = "syncconfig" /\ ~S.changed -> "split" [] OTHER -> "tmp"
\* (A bug: the count is not reset.)
PassEndsCounting ==
    /\ pc = "ask" /\ stack = <<>> /\ UNCHANGED <<S, rootEntry, refused, input_mode>> /\ UNCHANGED files
    /\ IF conf_cnt THEN stack' = <<Call("check_conf", ROOT, 0)>> /\ pc' = pc
       ELSE stack' = stack /\ pc' = AfterPass
    /\ conf_cnt' = conf_cnt

\* (A bug: syncconfig does not save what it was told.)
PassEndsUnsaved ==
    /\ pc = "ask" /\ stack = <<>> /\ UNCHANGED <<S, rootEntry, refused, input_mode>> /\ UNCHANGED files
    /\ IF conf_cnt THEN stack' = <<Call("check_conf", ROOT, 0)>> /\ pc' = pc
       ELSE stack' = stack /\ pc' = IF input_mode = "syncconfig" THEN "split" ELSE AfterPass
    /\ conf_cnt' = FALSE

\* The menus have been gone through: again, until nothing new was found.
PassEnds ==
    /\ pc = "ask" /\ stack = <<>>
    /\ input_mode' = IF input_mode = "oldaskconfig" THEN "oldconfig" ELSE input_mode
    /\ IF input_mode = "oldaskconfig" \/ conf_cnt
       THEN stack' = <<Call("check_conf", ROOT, 0)>> /\ pc' = pc
       ELSE /\ stack' = stack
            /\ pc' = CASE input_mode = "listnewconfig" -> "off"
                       [] input_mode = "savedefconfig" -> "def"
                       [] input_mode = "syncconfig" /\ ~S.changed -> "split"
                       [] OTHER -> "tmp"
    /\ conf_cnt' = FALSE
    /\ UNCHANGED <<S, rootEntry, refused>> /\ UNCHANGED files

(* Asking. Each step is one of the call on top of the stack; Next1 replaces it.  *)
Going(f) == pc = "ask" /\ stack # <<>> /\ Head(stack).f = f
Replace(calls) == stack' = calls \o Tail(stack)
Asked == UNCHANGED <<pc, input_mode>> /\ UNCHANGED files
Quiet == UNCHANGED <<conf_cnt, rootEntry, refused>> /\ Asked

\* check_conf: a menu, then its children.
IsNew(X, s) == /\ s # NoSym /\ ~X.sym[s].user
               /\ sym_is_changable(X, s) \/ (s \in ChoiceSyms /\ X.sym[s].tri = yes)
Found(X, m) == IsNew(X, SymOf(m)) /\ input_mode # "listnewconfig"
Checked(shown, m, again) ==
    IF ~shown.ok THEN Replace(<<>>) /\ UNCHANGED <<conf_cnt, rootEntry>>
    ELSE IF ~Found(shown.S, m) THEN Replace(<<again>>) /\ UNCHANGED <<conf_cnt, rootEntry>>
    ELSE /\ Replace(<<Call("conf", menu_get_parent_menu(m), 0), again>>)
         /\ conf_cnt' = TRUE /\ rootEntry' = menu_get_parent_menu(m)
CheckShown(shown, m) == S' = shown.S /\ Checked(shown, m, Call("check_conf", m, 1))
check_conf ==
    /\ Going("check_conf") /\ Head(stack).i = 0
    /\ CheckShown(menu_is_visible(S, Head(stack).m), Head(stack).m)
    /\ UNCHANGED refused /\ Asked

\* The next child of check_conf, and of conf and conf_choice ("conf_childs").
Child(f, g) ==
    /\ Going(f) /\ Head(stack).i > 0
    /\ LET c == Head(stack)
           list == S.tree.menu[c.m].list
       IN  Replace(IF c.i > Len(list) THEN <<>> ELSE <<Call(g, list[c.i], 0), [c EXCEPT !.i = @ + 1]>>)
    /\ S' = S /\ Quiet

PromptCall(m) == CASE SymOf(m) \in ChoiceSyms -> <<[Call("conf_choice", m, 0) EXCEPT !.new = ~S.sym[SymOf(m)].user]>>
                   [] SymOf(m) \notin ChoiceSyms /\ Bool(SymType[SymOf(m)]) -> <<Call("conf_sym", m, 0)>>
                   [] OTHER -> <<Call("conf_string", m, 0)>>
CallsOf(m, childs) ==
    CASE IsMenu(m) /\ input_mode # "oldaskconfig" /\ rootEntry # m -> <<Call("check_conf", m, 0)>>
      [] ~(IsMenu(m) /\ input_mode # "oldaskconfig" /\ rootEntry # m) /\ SymOf(m) \in ChoiceSyms ->
           PromptCall(m) \o <<Call("conf_after", m, 0)>>
      [] OTHER -> (IF SymOf(m) = NoSym THEN <<>> ELSE PromptCall(m)) \o <<childs>>
ConfShown(shown, m) == S' = shown.S /\ Replace(IF shown.ok THEN CallsOf(m, Call("conf_childs", m, 1)) ELSE <<>>)
conf == Going("conf") /\ ConfShown(menu_is_visible(S, Head(stack).m), Head(stack).m) /\ Quiet

\* The values of a choice that is m are asked one by one.
conf_after ==
    /\ Going("conf_after")
    /\ Replace(IF S.sym[SymOf(Head(stack).m)].tri = mod THEN <<Call("conf_childs", Head(stack).m, 1)>> ELSE <<>>)
    /\ S' = S /\ Quiet

\* A symbol that cannot change is not asked, nor one that has a value, but for
\* oldaskconfig (conf_askvalue).
conf_askvalue(s) == sym_is_changable(S, s) /\ (input_mode = "oldaskconfig" \/ ~S.sym[s].user)
Prompting(f) == Going(f) /\ conf_askvalue(SymOf(Head(stack).m))
NotAsked(f) == Going(f) /\ ~conf_askvalue(SymOf(Head(stack).m)) /\ Replace(<<>>) /\ S' = S /\ Quiet

\* A reply is taken and the call returns, or the question is put again.
Take(r) ==
    /\ IF r.ok THEN S' = r.S /\ Replace(<<>>) /\ UNCHANGED refused
       ELSE /\ refused < MaxRefused /\ refused' = refused + 1
            /\ S' = r.S /\ UNCHANGED stack
    /\ UNCHANGED <<conf_cnt, rootEntry>> /\ Asked
Refuse == [S |-> S, ok |-> FALSE]

\* An empty reply stands for the value that is shown, ? asks for help.
conf_string(a) ==
    /\ Prompting("conf_string")
    /\ LET s == SymOf(Head(stack).m)
       IN  Take(IF a = "?" THEN Refuse ELSE sym_set_string_value(S, s, IF a = "" THEN sym_get_string_value(S, s) ELSE a))
conf_sym(a) ==
    /\ Prompting("conf_sym")
    /\ LET s == SymOf(Head(stack).m)
       IN  Take(IF a \notin {"", "y", "m", "n"} THEN Refuse
                ELSE sym_set_tristate_value(S, s, IF a = "" THEN S.sym[s].tri ELSE ConstTri[a]))

\* A choice is asked as a symbol first; if it is n it ends there, if it is m its
\* values come one by one (conf_after).
conf_choice ==
    /\ Going("conf_choice") /\ Head(stack).i = 0
    /\ LET c == Head(stack)
           s == SymOf(c.m)
       IN  Replace(IF sym_is_changable(S, s) THEN <<Call("conf_sym", c.m, 0), [c EXCEPT !.i = 1]>> ELSE <<[c EXCEPT !.i = 1]>>)
    /\ S' = S /\ Quiet

\* Which of the values that are shown: the k-th. The only one is taken as it is,
\* and so is the present one of a choice that was not new, but for oldaskconfig.
ShownValues(X, m) == SelectSeq(X.tree.menu[m].list, LAMBDA v : X.tree.menu[v].sym # NoSym /\ menu_is_visible(X, v).ok)
RefuseChoice(X) == refused < MaxRefused /\ refused' = refused + 1 /\ S' = X /\ UNCHANGED stack
PickValue(X, v) ==
    /\ S' = sym_set_tristate_value(X, X.tree.menu[v].sym, yes).S
    /\ Replace(<<Call("conf_childs", v, 1)>>)
    /\ UNCHANGED refused
PickedOf(X, s, values) ==
    IF Len(values) = 1 THEN 1 ELSE CHOOSE i \in DOMAIN values : X.tree.menu[values[i]].sym = X.sym[s].val
PickFrom(X, c, s, values, k) ==
    /\ IF Len(values) # 1 /\ (c.new \/ input_mode = "oldaskconfig") THEN k \in DOMAIN values \cup {0}
       ELSE k = PickedOf(X, s, values)
    /\ IF k = 0 THEN RefuseChoice(X) ELSE PickValue(X, values[k])
ChooseFrom(X, c, s, k) ==
    IF X.sym[s].tri # yes THEN k = 0 /\ S' = X /\ Replace(<<>>) /\ UNCHANGED refused
    ELSE PickFrom(X, c, s, ShownValues(X, c.m), k)
conf_choice_value(k) ==
    /\ Going("conf_choice") /\ Head(stack).i = 1
    /\ LET c == Head(stack) IN ChooseFrom(sym_calc_value(S, SymOf(c.m)), c, SymOf(c.m), k)
    /\ UNCHANGED <<conf_cnt, rootEntry>> /\ Asked

Ask == \/ check_conf \/ Child("check_conf", "check_conf") \/ conf \/ Child("conf_childs", "conf") \/ conf_after
       \/ NotAsked("conf_string") \/ NotAsked("conf_sym") \/ conf_choice
Reply == \/ \E a \in Replies : conf_string(a) \/ conf_sym(a)
         \/ \E k \in 0..Cardinality(DOMAIN SymType) : conf_choice_value(k)

(* Writing. The steps are those of KconfigSaving; here is what the session does in them. *)
\* A session is to it what it says of the symbols.
Said(X) == [s \in {t \in DOMAIN SymType : Known(t)} |-> [write |-> X.sym[s].write, value |-> sym_get_string_value(X, s)]]
Saving == INSTANCE KconfigSaving WITH said <- Said(S)
Saved == UNCHANGED <<input_mode, stack, conf_cnt, rootEntry, refused, runs, kills>>
At(step) == pc = step /\ S' = S

\* What conf_write or conf_write_defconfig gives: the session after it, and the lines.
Filled(w, f) == S' = w.S /\ disk' = [disk EXCEPT ![f] = w.lines]
OpenTmp == At("tmp") /\ Saving!OpenTmp /\ Saved
FillTmp == pc = "fill" /\ Filled(conf_write(S), "tmp") /\ Saving!FillTmp /\ Saved
RenameOld == At("old") /\ Saving!RenameOld /\ Saved
RenameNew == At("new") /\ pc' = (IF input_mode = "syncconfig" THEN "split" ELSE "off") /\ Saving!RenameNew /\ Saved
OpenDef == At("def") /\ Saving!OpenDef /\ Saved
FillDef == pc = "filldef" /\ Filled(conf_write_defconfig(S), "def") /\ Saving!FillDef /\ Saved

\* conf_write_autoconf: the session forgets its values and calculates them again.
conf_split == pc = "split" /\ S' = conf_split_config(sym_clear_all_valid(S)) /\ Saving!conf_split /\ Saved
Touch == At("touch") /\ Saving!Touch /\ Saved
RenameHeader == At("touch") /\ Saving!RenameHeader /\ Saved
RenameTristate == At("tristate") /\ Saving!RenameTristate /\ Saved
RenameAuto == At("auto") /\ Saving!RenameAuto /\ Saved
Write == \/ OpenTmp \/ FillTmp \/ RenameOld \/ RenameNew \/ OpenDef \/ FillDef
         \/ conf_split \/ Touch \/ RenameHeader \/ RenameTristate \/ RenameAuto

Kill ==
    /\ S' = S /\ Saving!Kill
    /\ kills < MaxKills /\ kills' = kills + 1
    /\ stack' = <<>> /\ UNCHANGED <<input_mode, conf_cnt, rootEntry, runs, refused>>

\* make, once it is told that the configuration is up to date.
Build == At("off") /\ Saving!Build /\ Saved

Start == \E mode \in Modes, file \in Named, nosilentupdate \in BOOLEAN : main(mode, file, nosilentupdate)
Steps == (\E roll \in Rolls : Randomize(roll)) \/ PassEnds \/ Ask \/ Reply \/ Write
\* Nothing is run any more.
Finished == pc = "off" /\ runs = MaxRuns /\ UNCHANGED vars
Next == Start \/ Steps \/ Kill \/ Build \/ Finished
Spec == Init /\ [][Next]_vars
\* The program goes on, and the user answers, in the end with something accepted:
\* WF_vars(Steps), for Steps is enabled while the program runs (no deadlock is found).
FairSpec == Spec /\ ([]<>(pc = "off") \/ []<><<Steps>>_vars)

--------------------------------------------------------------------------------
\* What is read, written and touched, and when, is what KconfigSaving says of it: what is
\* proved of that for any values holds for those that conf comes to.
ImplementsSaving == Saving!Spec

\* When the passes are over nothing that is shown is left new (conf.c:683-687).
Settled(shown, s) == shown.ok => ~IsNew(shown.S, s)
NothingNewLeft ==
    pc \in {"tmp", "split"} /\ input_mode \in Asking =>
        \A m \in DOMAIN S.tree.menu \ {ROOT} : Settled(menu_is_visible(S, m), SymOf(m))
\* After a syncconfig that succeeded running it again changes nothing, which make relies on
\* when it builds (conf.c:691-716, confdata.c:843-1059).
NothingToSplit(X) == Saving!Touched(Said(X), disk.auto) = {} /\ Saving!AutoLines(Said(X)) = disk.auto
NothingToDo(X) == ~X.changed /\ NothingToSplit(conf_split_config(sym_clear_all_valid(X)))
SyncedOnce == pc = "off" /\ clean => NothingToDo(conf_read(NewSession(S.tree), disk.config))
\* A run does all it has to: it asks everything, and saves what it then knows.
NothingLeftToDo == NothingNewLeft /\ SyncedOnce

\* Every run comes to its end.
RunEnds == pc # "off" ~> pc = "off"
================================================================================
