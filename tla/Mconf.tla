---------------------------------- MODULE Mconf ----------------------------------
(* menuconfig (support/kconfig/mconf.c): the dialogs it opens one from another    *)
(* over a configuration. Each is a call that waits for a key, so the state is the *)
(* stack of those calls; what a dialog returns is what module DialogResults       *)
(* promises. One step is a result, with all the code does until the next dialog    *)
(* is shown, or the drawing of that dialog. Which row is lit first, scroll         *)
(* positions and texts are left out.                                               *)
EXTENDS KconfigData, MconfScreens

CONSTANTS
    Tree,           \* what conf_parse gives
    Disks,          \* the files there may be at first: for each name, lines or NoFile
    NoFile,
    Unwritable,     \* the names of files that cannot be created
    Configname,     \* conf_get_configname()
    Searches,       \* what may be searched: [all, exact], the symbols each matches
    Typed,          \* what may be typed in conf_string
    MaxSteps,       \* how many results may change something or open a dialog
    MaxDepth        \* how many dialogs may be open from a menu

VARIABLES
    S,              \* the session
    items,          \* the rows of dialog_menu or dialog_checklist
    single_menu_mode, show_all_options,
    opened,         \* the menus whose data is 1: unrolled, in single_menu_mode
    save_and_exit, filename,
    disk,           \* the files
    asked,          \* what dialog_yesno returned in the last handle_exit
    failed,         \* changes were there when a load failed
    steps
vars == <<S, stack, drawn, trail, subtitles, items, single_menu_mode, show_all_options, opened,
          save_and_exit, filename, disk, asked, failed, status, steps>>
exits == <<save_and_exit, filename, disk, asked, failed, status>>
modes == <<single_menu_mode, show_all_options, opened>>

node(m) == S.tree.menu[m]
PromptType(X, m) == X.tree.prop[X.tree.menu[m].prompt].type

(* build_conf: the rows of a menu, with the session after it.                     *)
Item(m, tag) == [m |-> m, tag |-> tag]
AddItem(b, m, tag) == [b EXCEPT !.items = Append(@, Item(m, tag))]

\* The entry of a choice that is its value, 0 if that is not visible.
FoundValue(x, d, m) == [d EXCEPT !.S = x.S, !.m = IF x.ok /\ x.S.tree.menu[m].sym = d.value THEN m ELSE @]
RECURSIVE FindValue(_, _)
FindValue(d, ms) ==
    IF ms = <<>> THEN d ELSE FindValue(FoundValue(menu_is_visible(d.S, Head(ms)), d, Head(ms)), Tail(ms))
def_menu(X, m) ==
    FindValue([S |-> X, m |-> 0, value |-> X.sym[X.tree.menu[m].sym].val], X.tree.menu[m].list)

RECURSIVE build_conf(_, _, _), BuildList(_, _, _)
BuildList(b, ms, how) == IF ms = <<>> THEN b ELSE BuildList(build_conf(b, Head(ms), how), Tail(ms), how)
BuildBelow(b, m, how) == BuildList(b, b.S.tree.menu[m].list, how)

\* A choice that is y shows its value, and what is below that.
AddChoice(b, def, m, s) ==
    AddItem([b EXCEPT !.S = def.S], m, IF sym_is_changable(def.S, s) \/ def.m # 0 THEN "t" ELSE ":")
BelowChoice(b, def, m, s, how) ==
    CASE b.S.sym[s].tri # yes -> BuildBelow(b, m, how)
      [] b.S.sym[s].tri = yes /\ def.m # 0 /\ b.S.tree.menu[def.m].list # <<>> -> build_conf(b, def.m, how)
      [] OTHER -> b
\* (A bug: what is below the value of a choice is left out.)
ChoiceAlone(b, def, m, s, how) == AddChoice(b, def, m, s)

WithValue(b, def, m, s, how) == BelowChoice(AddChoice(b, def, m, s), def, m, s, how)
BuildChoice(b, m, s, how) == WithValue(b, def_menu(b.S, m), m, s, how)

\* A menu is a row of its own, unrolled in place in single_menu_mode; so is a symbol
\* with a menu. The entry that is shown itself is a title, if it is a symbol.
TagOf(X, m, s) ==
    CASE s = NoSym -> IF PromptType(X, m) = "MENU" THEN "m" ELSE ":"
      [] s # NoSym /\ IsChoiceValue(X, s) /\ X.sym[s].tri = yes -> ":"
      [] OTHER -> IF Bool(SymType[s]) THEN "t" ELSE "s"
BuildRow(b, m, tag, how) ==
    CASE PromptType(b.S, m) # "MENU" \/ tag = "s" -> BuildBelow(AddItem(b, m, tag), m, how)
      [] PromptType(b.S, m) = "MENU" /\ tag = "m" /\ how.single ->
           IF m \in how.opened THEN BuildBelow(AddItem(b, m, tag), m, how) ELSE AddItem(b, m, tag)
      [] OTHER -> [AddItem(b, m, tag) EXCEPT !.S = menu_is_empty(b.S, m).S]

\* how: current_menu, show_all_options, single_menu_mode and the menus unrolled
BuildSeen(b, seen, m, s, how) ==
    CASE IF how.all THEN b.S.tree.menu[m].prompt = 0 ELSE ~seen -> b
      [] (IF how.all THEN b.S.tree.menu[m].prompt # 0 ELSE seen) /\ s \in ChoiceSyms -> BuildChoice(b, m, s, how)
      [] OTHER -> IF m # how.current THEN BuildRow(b, m, TagOf(b.S, m, s), how)
                  ELSE BuildBelow(IF s = NoSym THEN b ELSE AddItem(b, m, ":"), m, how)
BuildShown(b, shown, m, how) == BuildSeen([b EXCEPT !.S = shown.S], shown.ok, m, b.S.tree.menu[m].sym, how)
build_conf(b, m, how) == BuildShown(b, menu_is_visible(b.S, m), m, how)
Rows(X, m, how) == build_conf([S |-> X, items |-> <<>>], m, how)

\* The rows of conf_choice: the values that are visible, X at the one that is y.
ChoiceTag(X, s) == CASE s = NoSym -> ":" [] s # NoSym /\ X.sym[ChoiceOf(X.tree, s)].val = s -> "X" [] OTHER -> ""
ChoiceRow(b, x, m) ==
    IF ~x.ok THEN [b EXCEPT !.S = x.S]
    ELSE AddItem([b EXCEPT !.S = x.S], m, ChoiceTag(x.S, x.S.tree.menu[m].sym))
RECURSIVE AddValues(_, _)
AddValues(b, ms) ==
    IF ms = <<>> THEN b ELSE AddValues(ChoiceRow(b, menu_is_visible(b.S, Head(ms)), Head(ms)), Tail(ms))
ChoiceRows(X, m) == AddValues([S |-> X, items |-> <<>>], X.tree.menu[m].list)

(* Searching. *)
\* The symbols a search matches: first those it matches exactly, each group sorted.
Alphabetical(syms) == SetToSortSeq(syms, LAMBDA s, t : Rank(s) < Rank(t))
sym_re_search(p) == Alphabetical(p.exact) \o Alphabetical(p.all \ p.exact)
\* They are calculated in the order of the hash table.
Calculated(X, p) == Calculate(X, SelectSeq(Symbols, LAMBDA s : s \in p.all))

\* The menus around an entry up to the root, the innermost that is visible: the location.
RECURSIVE Location(_, _)
Located(l, x, m) ==
    Location([S |-> x.S, at |-> IF l.at = 0 /\ x.ok THEN m ELSE l.at], l.S.tree.menu[m].parent)
Location(l, m) == IF m = ROOT THEN l ELSE Located(l, menu_is_visible(l.S, m), m)
\* (A bug: a jump goes to the entry, visible or not.)
JumpToEntry(r, l, m) == [r EXCEPT !.S = l.S, !.jumps = IF l.at = 0 THEN @ ELSE Append(@, m)]

\* A jump goes to the entry of the prompt, to its location when that is not visible.
JumpTo(r, x, m, at) == [r EXCEPT !.S = x.S, !.jumps = Append(@, IF x.ok THEN m ELSE at)]
AddJump(r, l, m) == IF l.at = 0 THEN [r EXCEPT !.S = l.S] ELSE JumpTo(r, menu_is_visible(l.S, m), m, l.at)
get_prompt_str(r, m) == AddJump(r, Location([S |-> r.S, at |-> 0], r.S.tree.menu[m].parent), m)
RECURSIVE PromptStrs(_, _)
PromptStrs(r, is) == IF is = <<>> THEN r ELSE PromptStrs(get_prompt_str(r, r.S.tree.prop[Head(is)].menu), Tail(is))
\* The value that is printed is the one at hand: sym_get_string_value calculates nothing.
Ranged(X, s) == IF SymType[s] \in {"int", "hex"} THEN sym_get_range_prop(X, s).S ELSE X
get_symbol_str(r, s) ==
    PromptStrs([r EXCEPT !.S = Ranged(@, s), !.shown = Append(@, [s |-> s, v |-> sym_get_string_value(r.S, s)])],
               PropsOf(r.S.tree, s, Prompts))
RECURSIVE SymbolStrs(_, _)
SymbolStrs(r, ss) == IF ss = <<>> THEN r ELSE SymbolStrs(get_symbol_str(r, Head(ss)), Tail(ss))
get_relations_str(X, syms) == SymbolStrs([S |-> X, shown |-> <<>>, jumps |-> <<>>], syms)

(* The dialog on top of the calls st comes next, over the session X.               *)
Show(X, st, tr) == S' = X /\ items' = <<>> /\ Goes(st, tr)
Stay(X) == Show(X, stack, trail)
Return(X) == Show(X, Front(stack), trail)
Open(X, frame) == Show(X, Append(stack, frame), trail)
Text(X) == Open(X, Frame("text", 0))
show_help(m) == Open(S, Frame("help", m))
Enter(frame) == Len(stack) < MaxDepth /\ Open(S, frame)
conf(m) == Len(stack) < MaxDepth /\ Show(S, Append(stack, Frame("menu", m)), Append(trail, TitleOf(m)))

How(m) == [current |-> m, all |-> show_all_options, single |-> single_menu_mode, opened |-> opened]
Draws(f) == status = Running /\ Top.f = f /\ ~drawn /\ drawn' = TRUE
Undisturbed == UNCHANGED <<trail, steps>> /\ UNCHANGED modes /\ UNCHANGED exits
Built(b) == S' = b.S /\ items' = b.items
DrawMenu ==
    /\ Draws("menu") /\ Built(Rows(S, Top.m, How(Top.m)))
    /\ subtitles' = Titles(trail)
    /\ UNCHANGED stack /\ Undisturbed
DrawChoice ==
    /\ Draws("choice") /\ Built(ChoiceRows(S, Top.m))
    /\ UNCHANGED <<stack, subtitles>> /\ Undisturbed
Listed(r) == S' = r.S /\ stack' = IF Top.f = "help" THEN stack
                                  ELSE Append(Front(stack), [Top EXCEPT !.shown = r.shown, !.jumps = r.jumps])
DrawRelations ==
    /\ \/ Draws("results") /\ subtitles' = Titles(trail)
       \/ Draws("help") /\ UNCHANGED subtitles
    /\ Listed(get_relations_str(S, IF Top.f = "results" THEN Top.syms
                                   ELSE SelectSeq(<<node(Top.m).sym>>, LAMBDA s : s # NoSym)))
    /\ UNCHANGED items /\ Undisturbed

Waits(f) == Waiting({f})
Counted == steps < MaxSteps /\ steps' = steps + 1

(* The menus. A result is about a row, or none when there is no row.               *)
At(i) == IF i = 0 THEN Item(0, "") ELSE items[i]
SymAt(i) == IF i = 0 THEN NoSym ELSE node(items[i].m).sym
On(res, i) == Waits("menu") /\ [res |-> res, item |-> i - 1] \in MenuPromise(Len(items)) /\ Counted

\* Select on a menu enters it or unrolls it, on a choice that is y opens it.
Unroll(m) == opened' = (opened \ {m}) \cup ({m} \ opened) /\ Stay(S)
SelectSymbol(i) ==
    IF SymAt(i) \in ChoiceSyms /\ S.sym[SymAt(i)].tri = yes THEN Enter(Frame("choice", At(i).m))
    ELSE IF PromptType(S, At(i).m) = "MENU" THEN conf(At(i).m) ELSE Stay(S)

Select(i) ==
    /\ On("select", i)
    /\ CASE At(i).tag = "m" /\ ~single_menu_mode -> conf(At(i).m)
         [] At(i).tag = "m" /\ single_menu_mode -> Unroll(At(i).m)
         [] At(i).tag = "t" -> SelectSymbol(i)
         [] At(i).tag = "s" -> Enter(Frame("string", At(i).m))
         [] OTHER -> Stay(S)
    /\ ~(At(i).tag = "m" /\ single_menu_mode) => UNCHANGED opened
    /\ UNCHANGED <<single_menu_mode, show_all_options>> /\ UNCHANGED exits

Help(i) ==
    /\ On("help", i)
    /\ IF SymAt(i) = NoSym THEN Open(S, Frame("readme", 0)) ELSE show_help(At(i).m)
    /\ UNCHANGED modes /\ UNCHANGED exits
Files(res, i) ==
    res \in {"save", "load"} /\ On(res, i) /\ Enter(Frame(res, 0)) /\ UNCHANGED modes /\ UNCHANGED exits
Search(i) == On("search", i) /\ Enter(Frame("ask", 0)) /\ UNCHANGED modes /\ UNCHANGED exits

\* y, n, m and the space bar change a bool or a tristate; y on what cannot be y
\* sets it to m and says so.
Wanted == [yes |-> yes, mod |-> mod, no |-> no]
OrMod(r) == IF r.ok THEN Text(r.S) ELSE Stay(r.S)
SetElse(r, s, res) ==
    IF r.ok \/ res # "yes" THEN Stay(r.S) ELSE OrMod(sym_set_tristate_value(r.S, s, mod))
SetRow(res, i) ==
    /\ res \in {"yes", "no", "mod", "toggle"} /\ On(res, i)
    /\ CASE At(i).tag = "t" /\ res # "toggle" ->
              SetElse(sym_set_tristate_value(S, SymAt(i), Wanted[res]), SymAt(i), res)
         [] At(i).tag = "t" /\ res = "toggle" -> Stay(sym_toggle_tristate_value(S, SymAt(i)).S)
         [] At(i).tag = "m" /\ res = "toggle" -> conf(At(i).m)
         [] OTHER -> Stay(S)
    /\ UNCHANGED modes /\ UNCHANGED exits
ShowAll(i) ==
    /\ On("all", i)
    /\ show_all_options' = ~show_all_options /\ Stay(S)
    /\ UNCHANGED <<single_menu_mode, opened>> /\ UNCHANGED exits

(* Leaving: from the main menu to handle_exit, which asks when something changed.  *)
Stop(answer, code) == asked' = answer /\ status' = code
handle_exit(st, tr, signal) ==
    /\ save_and_exit' = TRUE
    /\ IF S.changed
       THEN /\ Show(S, Append(st, [f |-> "exit", m |-> 0, signal |-> signal]), tr)
            /\ UNCHANGED <<asked, status>>
       ELSE /\ Stop("not", "0") /\ stack' = st /\ trail' = tr /\ subtitles' = <<>>
            /\ UNCHANGED <<S, items, drawn>>
    /\ UNCHANGED <<filename, disk, failed, steps>> /\ UNCHANGED modes
LeaveMenu ==
    /\ Waits("menu") /\ Len(stack) > 1
    /\ Show(S, Front(stack), Front(trail))
    /\ UNCHANGED steps /\ UNCHANGED modes /\ UNCHANGED exits
LeaveRoot == Waits("menu") /\ Len(stack) = 1 /\ handle_exit(<<>>, <<>>, FALSE)

\* A second SIGINT waits for the handler of the first.
SigHandler == status = Running /\ ~(Top.f = "exit" /\ Top.signal) /\ handle_exit(stack, trail, TRUE)

Wrote(w, name) == S' = w.S /\ disk' = [disk EXCEPT ![name] = w.lines]
\* y writes the file; Esc goes back to the main menu, but a signal ends the program.
AnswerYes ==
    /\ Waits("exit")
    /\ IF filename \in Unwritable
       THEN Stop("yes", "1") /\ UNCHANGED <<S, disk>>
       ELSE Stop("yes", "0") /\ Wrote(conf_write(S), filename)
    /\ UNCHANGED <<stack, drawn, trail, subtitles, items, save_and_exit, filename, failed, steps>>
    /\ UNCHANGED modes
AnswerNo ==
    /\ Waits("exit") /\ \E res \in {"no", ERRDISPLAYTOOSMALL} : Stop(res, "0")
    /\ UNCHANGED <<S, disk, stack, drawn, trail, subtitles, items, save_and_exit, filename, failed, steps>>
    /\ UNCHANGED modes
\* (A bug: Esc goes back to the main menu from the handler of SIGINT too.)
AnswerEscToMenu ==
    /\ Waits("exit")
    /\ Show(S, <<Frame("menu", ROOT)>>, <<TitleOf(ROOT)>>) /\ asked' = KEY_ESC
    /\ UNCHANGED <<save_and_exit, filename, disk, failed, status, steps>> /\ UNCHANGED modes

AnswerEsc ==
    /\ Waits("exit")
    /\ IF Top.signal
       THEN Stop(KEY_ESC, KEY_ESC) /\ UNCHANGED <<S, stack, drawn, trail, subtitles, items>>
       ELSE Show(S, <<Frame("menu", ROOT)>>, <<TitleOf(ROOT)>>) /\ asked' = KEY_ESC /\ UNCHANGED status
    /\ UNCHANGED <<save_and_exit, filename, disk, failed, steps>> /\ UNCHANGED modes

(* The dialogs a menu opens. In conf_string, conf_load and conf_save a terminal     *)
(* that is too small changes nothing: the dialog is called again at once.          *)
\* A text was read; the message of conf_write comes before the changes are saved.
CloseText ==
    /\ Waiting({"text", "readme", "help"})
    /\ Return(S) /\ UNCHANGED steps /\ UNCHANGED modes /\ UNCHANGED exits
\* (A bug: a save under another name does not become the file to write.)
CloseSavedElsewhere ==
    /\ Waits("saved")
    /\ Return([S EXCEPT !.changed = FALSE])
    /\ failed' = FALSE
    /\ UNCHANGED <<filename, save_and_exit, disk, asked, status, steps>> /\ UNCHANGED modes

CloseSaved ==
    /\ Waits("saved")
    /\ Return([S EXCEPT !.changed = FALSE])
    /\ filename' = Top.name /\ failed' = FALSE
    /\ UNCHANGED <<save_and_exit, disk, asked, status, steps>> /\ UNCHANGED modes

\* Esc, or no value, in the dialogs that have an Ok.
LeaveDialog ==
    /\ Waiting({"choice", "string", "load", "save", "ask"})
    /\ Return(S)
    /\ UNCHANGED steps /\ UNCHANGED modes /\ UNCHANGED exits
HelpDialog ==
    /\ Waiting({"string", "load", "save", "ask"})
    /\ Counted
    /\ IF Top.f = "string" THEN show_help(Top.m) ELSE Text(S)
    /\ UNCHANGED modes /\ UNCHANGED exits

\* conf_choice
OnChoice(res, i) ==
    /\ Waits("choice") /\ [res |-> res, item |-> i - 1] \in ListPromise(Len(items)) /\ Counted
    /\ UNCHANGED modes /\ UNCHANGED exits
ChoiceOk(i) ==
    /\ OnChoice("ok", i)
    /\ IF SymAt(i) = NoSym THEN Stay(S) ELSE Return(sym_set_tristate_value(S, SymAt(i), yes).S)
ChoiceHelp(i) == OnChoice("help", i) /\ show_help(items[i].m)

\* conf_string
StringSet(r) == IF r.ok THEN Return(r.S) ELSE Text(r.S)
StringOk(str) ==
    /\ Waits("string") /\ Counted
    /\ StringSet(sym_set_string_value(S, node(Top.m).sym, str))
    /\ UNCHANGED modes /\ UNCHANGED exits

\* conf_load: the session takes the values of the file, and is to be saved.
LoadOk(name) ==
    /\ Waits("load") /\ Counted
    /\ IF disk[name] # NoFile
       THEN /\ Return([conf_read(S, disk[name]) EXCEPT !.changed = TRUE])
            /\ filename' = name /\ failed' = FALSE
       ELSE /\ Text(sym_calc_value([S EXCEPT !.changed = FALSE], modules_sym))
            /\ failed' = (failed \/ S.changed) /\ UNCHANGED filename
    /\ UNCHANGED <<save_and_exit, disk, asked, status>> /\ UNCHANGED modes

\* conf_save: conf_write says what it wrote, on the screen until handle_exit was called.
Saving(w, name) ==
    /\ disk' = [disk EXCEPT ![name] = w.lines]
    /\ IF save_and_exit
       THEN Return(w.S) /\ filename' = name /\ failed' = FALSE
       ELSE /\ Show([w.S EXCEPT !.changed = TRUE],
                    Append(Front(stack), [f |-> "saved", m |-> 0, name |-> name]), trail)
            /\ UNCHANGED <<filename, failed>>
SaveOk(name) ==
    /\ Waits("save") /\ Counted
    /\ IF name \in Unwritable THEN Text(S) /\ UNCHANGED <<filename, disk, failed>>
       ELSE Saving(conf_write(S), name)
    /\ UNCHANGED <<save_and_exit, asked, status>> /\ UNCHANGED modes

\* search_conf
Results(syms) == [f |-> "results", m |-> 0, syms |-> syms, shown |-> <<>>, jumps |-> <<>>]
AskOk(p) ==
    /\ Waits("ask") /\ Counted
    /\ Show(Calculated(S, Searches[p]), Append(Front(stack), Results(sym_re_search(Searches[p]))), Append(trail, -p))
    /\ UNCHANGED modes /\ UNCHANGED exits
\* The key of a jump opens the menu its target is in.
Jump(j) ==
    /\ Counted
    /\ conf(node(Top.jumps[j]).parent)
    /\ UNCHANGED modes /\ UNCHANGED exits
\* (A bug: the title of the search stays.)
LeaveResultsOnly ==
    /\ Waits("results") /\ Show(S, Front(stack), trail)
    /\ UNCHANGED steps /\ UNCHANGED modes /\ UNCHANGED exits

LeaveResults ==
    /\ Waits("results")
    /\ Show(S, Front(stack), Front(trail))
    /\ UNCHANGED steps /\ UNCHANGED modes /\ UNCHANGED exits

(* main. The main menu has a row to show at first: child_count, which is never      *)
(* reset, stops conf only as long as there was none.                               *)
Init ==
    /\ single_menu_mode \in BOOLEAN /\ show_all_options = FALSE /\ opened = {}
    /\ disk \in Disks
    /\ S = IF disk[Configname] = NoFile THEN sym_calc_value(NewSession(Tree), modules_sym)
           ELSE conf_read(NewSession(Tree), disk[Configname])
    /\ ScreensInit /\ items = <<>>
    /\ save_and_exit = FALSE /\ filename = Configname /\ asked = "not" /\ failed = FALSE
    /\ steps = 0

OnRow(i) == \/ Select(i) \/ Help(i) \/ Search(i) \/ ShowAll(i)
            \/ \E res \in {"save", "load"} : Files(res, i)
            \/ \E res \in {"yes", "no", "mod", "toggle"} : SetRow(res, i)
Next == \/ \E i \in 0..Len(items) : OnRow(i) \/ ChoiceOk(i) \/ ChoiceHelp(i)
        \/ DrawMenu \/ DrawChoice \/ DrawRelations
        \/ LeaveMenu \/ LeaveRoot \/ SigHandler \/ AnswerYes \/ AnswerNo \/ AnswerEsc
        \/ CloseText \/ CloseSaved \/ LeaveDialog \/ HelpDialog \/ LeaveResults
        \/ \E str \in Typed : StringOk(str)
        \/ \E name \in DOMAIN disk : LoadOk(name) \/ SaveOk(name)
        \/ \E p \in DOMAIN Searches : AskOk(p)
        \/ Waits("results") /\ \E j \in DOMAIN Top.jumps : Jump(j)
Spec == Init /\ [][Next]_vars

--------------------------------------------------------------------------------
\* Every key does one of the steps of MconfScreens: what is proved of those holds
\* whatever is configured.
ImplementsScreens == ScreensSpec

\* Every symbol calculated now.
Now == Calculate(S, Symbols)
ValuesOf(X) == [s \in ToSet(Symbols) |-> sym_get_string_value(X, s)]
Menus == {m \in DOMAIN S.tree.menu : node(m).prompt # 0}

Entries(rows) == {rows[i].m : i \in DOMAIN rows}
RowsOf(X, m, unrolled) == Rows(X, m, [How(m) EXCEPT !.opened = unrolled]).items
\* The menus whose rows tell whether the screen is right.
Looked == CASE Waits("menu") -> {Top.m}
            [] Waits("results") /\ ~show_all_options -> {node(Top.jumps[j]).parent : j \in DOMAIN Top.jumps}
            [] OTHER -> {}
InRows(m, rows) ==
    IF Top.f = "menu" THEN items = rows
    ELSE \A j \in DOMAIN Top.jumps : node(Top.jumps[j]).parent = m =>
            Top.jumps[j] \in Entries(rows) \/ (node(m).sym \in ChoiceSyms /\ m \in Entries(rows))
Current(X) == /\ \A m \in Looked : InRows(m, RowsOf(X, m, opened))
              /\ Waits("choice") => items = ChoiceRows(X, Top.m).items
\* The rows of a menu are those of the present values, and a search jumps to what
\* is shown there (of a choice that is y, to the choice): get_prompt_str, which says
\* where a result leads, and build_conf, which makes the rows there, agree.
ScreenIsCurrent == Current(Now)

\* The rows one gets to from the row of a menu or a choice.
Below(X, m) ==
    IF node(m).sym \in ChoiceSyms /\ X.sym[node(m).sym].tri = yes THEN Entries(ChoiceRows(X, m).items)
    ELSE IF m = ROOT \/ PromptType(X, m) = "MENU" THEN Entries(RowsOf(X, m, Menus)) ELSE {}
RECURSIVE Reached(_, _, _)
More(X, seen, more) == Reached(X, seen \cup more, more \ seen)
Reached(X, seen, ms) == IF ms = {} THEN seen ELSE More(X, seen, UNION {Below(X, m) : m \in ms})
AllReached(X) == \A m \in Menus \ Reached(X, {ROOT}, {ROOT}) : ~menu_is_visible(X, m).ok
\* Everything that is visible can be reached from the main menu, through the rows of
\* menus (all of them unrolled, in single_menu_mode) and the values of choices.
NothingOutOfReach == AllReached(Now)

HoldsAll(name) ==
    /\ disk[name] # NoFile
    /\ ValuesOf(Calculate(conf_read(NewSession(S.tree), disk[name]), Symbols)) = ValuesOf(Now)
\* The program never ends without a question while the file it would write says
\* something else, and after yes the file says the same: unless a load failed since,
\* or a signal came while a save said what it wrote.
NothingLostUnasked ==
    status = "0" /\ asked \in {"not", "yes"} /\ ~failed /\ (\A i \in DOMAIN stack : stack[i].f # "saved")
        => HoldsAll(filename)

\* After yes to "Do you wish to save your new configuration?" the file has it
\* (mconf.c:962-979).
YesSaves == status = "0" /\ asked = "yes" => HoldsAll(filename)

\* The results of a search are the current ones (mconf.c:254-258).  They are listed
\* again on every return, but with the values at hand (menu.c:804), which a change
\* may have made old.
ResultsAreCurrent ==
    Waits("results") => \A i \in DOMAIN Top.shown : Top.shown[i].v = sym_get_string_value(Now, Top.shown[i].s)
==================================================================================
