----------------------------- MODULE KconfigSession -----------------------------
(* A configuration editor at work (menuconfig and its kin): a configuration is  *)
(* read, or every symbol answered at once, then the user sets what is visible   *)
(* and saves. The entries are reached through menu_is_visible, as the editors   *)
(* and conf.c do.                                                               *)
EXTENDS KconfigData

CONSTANTS
    Trees,          \* what conf_parse may give
    Configs,        \* the .config files there may be
    Rolls,          \* the random numbers of randconfig
    Strings,        \* what the user may type for a number or a string
    MaxSteps        \* how many changes the user makes

VARIABLES
    S,              \* the session
    set,            \* the last change asked: [s, v, ok], v what was asked
    steps           \* how many changes were made
vars == <<S, set, steps>>

Nothing == [s |-> NoSym, v |-> NoStr, ok |-> FALSE]
\* conf_read of a file that is not there.
Unread(T) == sym_calc_value(NewSession(T), modules_sym)
Modes == {"yes", "mod", "no", "default"}
RECURSIVE Randomized(_, _)
Again(r, roll) == IF r.changed THEN Randomized(r.S, roll) ELSE r.S
Randomized(X, roll) == Again(conf_set_all_random(X, roll), roll)

\* What was read, and what is new in it answered.
Sessions(T) ==
    {Unread(T)} \cup {conf_read(NewSession(T), c) : c \in Configs}
      \cup {conf_set_all_new_symbols(NewSession(T), mode) : mode \in Modes}
      \cup {conf_set_all_new_symbols(conf_read(NewSession(T), c), "default") : c \in Configs}
      \cup {Randomized(NewSession(T), roll) : roll \in Rolls}

Init == /\ S \in UNION {Sessions(T) : T \in Trees}
        /\ set = Nothing
        /\ steps = 0

\* The user changes the symbol s of an entry that is shown, over the session X.
Ask(s, r, v) ==
    /\ steps < MaxSteps
    /\ S' = r.S
    /\ set' = [s |-> s, v |-> v, ok |-> r.ok]
    /\ steps' = steps + 1
SetTristate(X, s, t) == Bool(SymType[s]) /\ Ask(s, sym_set_tristate_value(X, s, t), Letter[t])
SetString(X, s, str) == ~Bool(SymType[s]) /\ Ask(s, sym_set_string_value(X, s, str), str)
Toggled(s, r) == Ask(s, [S |-> r.S, ok |-> TRUE], Letter[r.t])
Toggle(X, s) == Bool(SymType[s]) /\ Toggled(s, sym_toggle_tristate_value(X, s))
Change(shown, s) ==
    /\ s \in ToSet(Symbols) /\ shown.ok
    /\ \/ \E t \in tristate : SetTristate(shown.S, s, t)
       \/ \E str \in Strings : SetString(shown.S, s, str)
       \/ Toggle(shown.S, s)
Save == /\ S' = conf_write(S).S
        /\ set' = Nothing
        /\ steps < MaxSteps /\ steps' = steps + 1

Next == \/ \E m \in DOMAIN S.tree.menu : Change(menu_is_visible(S, m), S.tree.menu[m].sym)
        \/ Save
Spec == Init /\ [][Next]_vars

--------------------------------------------------------------------------------
\* Every symbol calculated, in some order, from what the user set alone.
Forgotten(X) == Update(X, LAMBDA s, x : [x EXCEPT !.valid = s \in DOMAIN ConstTri])
Now == Calculate(S, Symbols)
Result(X) == [s \in ToSet(Symbols) |-> IF s \in ChoiceSyms THEN <<X.sym[s].tri, X.sym[s].val>>
                                       ELSE <<sym_get_string_value(X, s), X.sym[s].visible>>]

\* A value that is kept is the value that would be calculated now, and the values
\* do not depend on the symbol that is asked first (symbol.c:357-376).
NothingStale ==
    Cardinality({Result(Calculate(x[1], x[2])) :
                    x \in {<<S, Symbols>>, <<Forgotten(S), InOrder>>,
                           <<Forgotten(S), <<modules_sym>> \o Reverse(Symbols)>>}}) = 1

OneOf(X, c, values) ==
    /\ X.sym[c].tri = yes =>
          \E s \in values : /\ X.sym[c].val = s
                            /\ \A t \in values : X.sym[t].visible # no => (X.sym[t].tri = yes) = (t = s)
    /\ \A s \in values : X.sym[s].tri <= X.sym[c].tri
EachOneOf(X) ==
    \A c \in ChoiceSyms \cap {X.tree.menu[m].sym : m \in DOMAIN X.tree.menu} : OneOf(X, c, ToSet(X.tree.vals[c]))
\* A visible choice that is y has exactly one value y and it is the chosen one;
\* a value of a choice is never more than the choice.
OneOfChoice == EachOneOf(Now)

BoundIn(X, b) == RangeVal(sym_calc_value(X, b), b, 10)
RangeOf(X, s) == {X.tree.prop[i].expr : i \in {sym_get_range_prop(X, s).i} \ {0}}
Within(X, s, own) ==
    /\ Bool(SymType[s]) /\ ~IsChoiceValue(X, s) => own.tri >= own.rev
    /\ Bool(SymType[s]) /\ own.user /\ own.visible # no => own.tri <= Greater(own.visible, own.rev)
    /\ SymType[s] = "boolean" => own.tri # mod
    /\ SymType[s] \in {"int", "hex"} =>
          \A bounds \in RangeOf(X, s) :
              /\ BoundIn(X, bounds.s) <= strtoll(own.str, BaseOf(s))
              /\ strtoll(own.str, BaseOf(s)) <= BoundIn(X, bounds.c)
EachWithin(X) == \A s \in ToSet(Symbols) : Within(X, s, X.sym[s])
\* A select is a lower limit; the visibility is an upper one for what the user set;
\* a number stays within its range whatever the file said (symbol.c:155, 391-470).
WithinLimits == EachWithin(Now)

\* A change that is accepted takes effect, whatever else it makes change.
AcceptedTakesEffect ==
    set.ok => sym_get_string_value(Now, set.s) = set.v

Reread(lines) == conf_read(NewSession(S.tree), lines)
\* Saving and reading again gives the same values, and the same file
\* (confdata.c:407-476, 740-841).
SavedAgain(lines, X, is) == Result(Calculate(X, Symbols)) = is /\ conf_write(X).lines = lines
SavedReadsBack(lines, is) == SavedAgain(lines, Reread(lines), is)

\* The minimal defconfig gives back the configuration it was made from
\* (confdata.c:667-738).
DefconfigReproduces(lines, is) ==
    Result(Calculate(conf_set_all_new_symbols(Reread(lines), "default"), Symbols)) = is

Reproduced(is) == /\ SavedReadsBack(conf_write(S).lines, is)
                  /\ DefconfigReproduces(conf_write_defconfig(S).lines, is)
\* A configuration is what its files say: both of them give it back, whatever was set
\* in which order (confdata.c:407-841).
FilesReproduce == Reproduced(Result(Now))
================================================================================
