------------------------------- MODULE KconfigData -------------------------------
(* The files of the configuration (support/kconfig/confdata.c): reading a       *)
(* .config into a session, writing it, the minimal defconfig and auto.conf, and  *)
(* answering every new symbol at once. A file is a sequence of lines [s, v]: a   *)
(* symbol and its value, NotSet for "# S is not set".                            *)
EXTENDS KconfigSymbol

CONSTANT AllNoConfigY   \* the symbols with option allnoconfig_y

NotSet == "is not set"
Line(s, v) == [s |-> s, v |-> v]
Symbols == SelectSeq(HashOrder, Known)

(* Reading. The session also counts what it does not like while it reads.        *)
Warned(S) == [S EXCEPT !.warned = TRUE]
TriOf(v) == CASE v = "y" -> yes [] v = "m" -> mod [] v = "n" -> no

SetUser(S, s, v) ==
    IF Bool(SymType[s]) THEN [S EXCEPT !.sym[s].user = TRUE, !.sym[s].utri = TriOf(v)]
    ELSE [S EXCEPT !.sym[s].user = TRUE, !.sym[s].ustr = v]
\* (A bug: the choice is not told which of its values was read.)
SetNoChoice(S, s) == S

\* A choice value also sets its choice.
SetChoiceFrom(S, s) ==
    LET c == ChoiceOf(S.tree, s)
        t == S.sym[s].utri
        old == S.sym[c].utri
        U == CASE t = mod /\ old = yes -> [Warned(S) EXCEPT !.sym[c].user = FALSE]
               [] t = yes -> [(IF old # no THEN Warned(S) ELSE S) EXCEPT !.sym[c].uval = s]
               [] OTHER -> S
    IN  IF c = NoSym THEN S ELSE [U EXCEPT !.sym[c].utri = Greater(old, t)]

ReadValue(S, s, v) == IF v = NoStr THEN Warned(S) ELSE SetChoiceFrom(SetUser(S, s, v), s)
ReadLine(S, line) ==
    LET s == line.s
        unset == line.v = NotSet
        again == IF S.sym[s].user THEN Warned(S) ELSE S
    IN  CASE ~Known(s) -> [S EXCEPT !.changed = TRUE]
          [] Known(s) /\ unset /\ ~Bool(SymType[s]) -> again
          [] Known(s) /\ ~(unset /\ ~Bool(SymType[s])) ->
               ReadValue(again, s, IF unset THEN "n" ELSE conf_set_sym_val(s, line.v))
RECURSIVE ReadLines(_, _)
ReadLines(S, lines) == IF lines = <<>> THEN S ELSE ReadLines(ReadLine(S, Head(lines)), Tail(lines))

\* Every symbol is forgotten, then the lines are read. A choice counts as set.
Forget(s, x) == IF ~Known(s) THEN x
                ELSE [x EXCEPT !.valid = FALSE, !.user = s \in ChoiceSyms, !.utri = no, !.ustr = NoStr, !.uval = NoSym]
conf_read_simple(S, lines) == ReadLines([Update(S, Forget) EXCEPT !.warned = FALSE], lines)

\* The calculated value is not what the file says.
Differs(S, s) ==
    LET own == S.sym[s]
    IN  /\ s \notin ChoiceSyms \cup AutoSyms
        /\ IF own.user /\ own.write
           THEN IF Bool(SymType[s]) THEN own.utri # own.tri ELSE own.ustr # own.str
           ELSE own.user \/ own.write

\* What an invisible symbol was set to is forgotten, unless the file is out of
\* step with the menus; a number out of its range too.
Unseen(S, s) == IF S.sym[s].visible = no /\ ~S.unsaved THEN [S EXCEPT !.sym[s].user = FALSE] ELSE S
KeepInRange(r, s) ==
    IF r.ok THEN r.S ELSE [r.S EXCEPT !.sym[s].valid = FALSE, !.sym[s].user = FALSE, !.unsaved = TRUE]
ForgetHidden(S, s) ==
    IF Bool(SymType[s]) THEN Unseen(S, s)
    ELSE KeepInRange(sym_string_within_range(Unseen(S, s), s, S.sym[s].ustr), s)
RECURSIVE ForgetHiddens(_, _)
ForgetHiddens(S, ss) ==
    CASE ss = <<>> -> S
      [] ss # <<>> /\ (~S.sym[Head(ss)].user \/ IsChoiceValue(S, Head(ss))) -> ForgetHiddens(S, Tail(ss))
      [] OTHER -> ForgetHiddens(ForgetHidden(S, Head(ss)), Tail(ss))

Compared(S) == [S EXCEPT !.unsaved = \E s \in ToSet(Symbols) : Differs(S, s)]
ToSave(S) == [S EXCEPT !.changed = @ \/ S.warned \/ S.unsaved]
\* The modules switch is calculated first, then every symbol.
InOrder == <<modules_sym>> \o Symbols
conf_read(S, lines) ==
    ToSave(ForgetHiddens(Compared(Calculate(conf_read_simple([S EXCEPT !.changed = FALSE], lines), InOrder)), Symbols))

(* Writing. A result is the session and the lines.                              *)
\* conf_write_symbol with the printer of .config
kconfig_print_symbol(s, v) == Line(s, IF Bool(SymType[s]) /\ v = "n" THEN NotSet ELSE v)
LineOf(S, s) == kconfig_print_symbol(s, sym_get_string_value(S, s))
RECURSIVE PreOrder(_, _)
PreOrder(T, m) == <<m>> \o FlattenSeq([i \in DOMAIN T.menu[m].list |-> PreOrder(T, T.menu[m].list[i])])

\* The menus are walked in order. Each symbol that is to be written is written
\* once, at its first entry.
WriteIt(S, lines, s) ==
    IF S.sym[s].write THEN [S |-> [S EXCEPT !.sym[s].write = FALSE], lines |-> Append(lines, LineOf(S, s))]
    ELSE [S |-> S, lines |-> lines]
WriteEntry(w, m, s) ==
    CASE s = NoSym -> [w EXCEPT !.S = menu_is_visible(w.S, m).S]
      [] s \in ChoiceSyms -> w
      [] OTHER -> WriteIt(sym_calc_value(w.S, s), w.lines, s)
RECURSIVE WriteEntries(_, _)
WriteEntries(w, ms) ==
    IF ms = <<>> THEN w ELSE WriteEntries(WriteEntry(w, Head(ms), w.S.tree.menu[Head(ms)].sym), Tail(ms))
EntriesInOrder(T) == Tail(PreOrder(T, ROOT))
conf_write(S) ==
    [WriteEntries([S |-> IF S.changed THEN S ELSE sym_clear_all_valid(S), lines |-> <<>>], EntriesInOrder(S.tree))
        EXCEPT !.S.changed = FALSE]

\* The value of a choice that it would have anyway.
IsChoiceDefault(S, s) ==
    /\ IsChoiceValue(S, s)
    /\ ChoiceOf(S.tree, s) \notin OptionalChoices
    /\ sym_choice_default(S, ChoiceOf(S.tree, s)).s = s
    /\ SymType[s] = "boolean" /\ S.sym[s].tri = yes

\* Only what the user can change and has changed is written.
WriteNotDefault(d, lines, s) ==
    IF sym_get_string_value(d.S, s) = d.str \/ IsChoiceDefault(d.S, s) THEN [S |-> d.S, lines |-> lines]
    ELSE [S |-> d.S, lines |-> Append(lines, LineOf(d.S, s))]
WriteDefIt(S, lines, s) ==
    IF ~(S.sym[s].write /\ sym_is_changable(S, s)) THEN [S |-> [S EXCEPT !.sym[s].write = FALSE], lines |-> lines]
    ELSE WriteNotDefault(sym_get_string_default([S EXCEPT !.sym[s].write = FALSE], s), lines, s)
WriteDefEntry(w, m, s) ==
    CASE s = NoSym -> [w EXCEPT !.S = menu_is_visible(w.S, m).S]
      [] s \in ChoiceSyms -> w
      [] OTHER -> WriteDefIt(sym_calc_value(w.S, s), w.lines, s)
RECURSIVE WriteDefEntries(_, _)
WriteDefEntries(w, ms) ==
    IF ms = <<>> THEN w ELSE WriteDefEntries(WriteDefEntry(w, Head(ms), w.S.tree.menu[Head(ms)].sym), Tail(ms))
conf_write_defconfig(S) == WriteDefEntries([S |-> sym_clear_all_valid(S), lines |-> <<>>], EntriesInOrder(S.tree))

(* Answering every new symbol.                                                  *)
AllNew(mode, s) ==
    CASE mode = "yes" -> yes [] mode = "mod" -> mod
      [] mode = "no" -> IF s \in AllNoConfigY THEN yes ELSE no
New(S, s) == s \in ToSet(Symbols) /\ ~S.sym[s].user /\ ~S.sym[s].valid /\ Bool(sym_get_type(S, s))

AskChoices(S) == Update(S, LAMBDA s, x : [x EXCEPT !.need = @ \/ (s \in ChoiceSyms /\ ~x.user) \/ IsChoiceValue(S, s)])
ChoiceSet(S, c) == IF S.sym[c].user THEN S ELSE set_all_choice_values(sym_calc_value(S, c), c)
RECURSIVE SetChoices(_, _)
SetChoices(S, cs) == IF cs = <<>> THEN S ELSE SetChoices(ChoiceSet(S, Head(cs)), Tail(cs))
ChoicesInOrder == SelectSeq(Symbols, LAMBDA s : s \in ChoiceSyms)
conf_set_all_new_symbols(S, mode) ==
    SetChoices(AskChoices(sym_clear_all_valid(
        IF mode = "default" THEN S
        ELSE Update(S, LAMBDA s, x : IF New(S, s) THEN [x EXCEPT !.utri = AllNew(mode, s), !.user = TRUE] ELSE x))),
        ChoicesInOrder)

\* randconfig: roll has the value each symbol gets at random, and which value each
\* choice that is y gets. A choice that was not y stays new. The result says whether
\* to go on, which is what the last choice says, if one was left.
RandomTri(s, t) == IF SymType[s] # "tristate" /\ t = mod THEN yes ELSE t
RandomChoice(S, c, picked) ==
    [Update(S, LAMBDA s, x : IF ~Contains(S.tree.vals[c], s) THEN x ELSE
                [x EXCEPT !.utri = IF s = picked THEN yes ELSE no, !.user = TRUE, !.valid = FALSE])
        EXCEPT !.sym[c].uval = picked, !.sym[c].user = TRUE, !.sym[c].valid = FALSE]
randomize_choice_values(S, c, roll) ==
    IF S.sym[c].tri # yes THEN [S |-> S, changed |-> FALSE]
    ELSE [S |-> RandomChoice(S, c, S.tree.vals[c][1 + (roll.pick % Len(S.tree.vals[c]))]), changed |-> TRUE]
RECURSIVE RandomChoices(_, _, _)
RandomNext(r, cs, roll) ==
    IF r.S.sym[Head(cs)].user THEN r
    ELSE randomize_choice_values(sym_calc_value(r.S, Head(cs)), Head(cs), roll)
RandomChoices(r, cs, roll) == IF cs = <<>> THEN r ELSE RandomChoices(RandomNext(r, cs, roll), Tail(cs), roll)
conf_set_all_random(S, roll) ==
    RandomChoices(
        [S |-> sym_clear_all_valid(Update(S, LAMBDA s, x :
                   IF New(S, s) THEN [x EXCEPT !.utri = RandomTri(s, roll.tri[s]), !.user = s \notin ChoiceSyms] ELSE x)),
         changed |-> \E s \in ToSet(Symbols) : New(S, s)],
        ChoicesInOrder, roll)

(* What is written for make is in KconfigSaving. Before, auto.conf is read, and every  *)
(* symbol is calculated again.                                                     *)
conf_split_config(S) == Calculate(Update(S, LAMBDA s, x : [x EXCEPT !.valid = @ /\ ~Known(s)]), InOrder)
================================================================================
