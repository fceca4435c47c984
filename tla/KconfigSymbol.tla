------------------------------ MODULE KconfigSymbol ------------------------------
(* The values of the symbols (support/kconfig/symbol.c): calculated on demand   *)
(* from what the user set, the visibility of the prompts, the selects and the   *)
(* defaults, and kept until SYMBOL_VALID is cleared. A session S holds the      *)
(* finalized tree, the symbols, the visibility last calculated of each prompt   *)
(* (prop->visible.tri), modules_val and whether there is anything to save.      *)
EXTENDS KconfigLoops

CONSTANTS
    AutoSyms,       \* the symbols with option env or defconfig_list
    HashOrder,      \* the symbols, in the order of for_all_symbols
    Decimal(_),     \* a number as sprintf writes it
    Prefixed(_)     \* a hex number with its 0x


\* A symbol: flags, the calculated value (tri, str and, for a choice, the value
\* chosen), the limits, and what the user set (def[S_DEF_USER]).
NewSym == [valid |-> FALSE, write |-> FALSE, user |-> FALSE, need |-> FALSE,
           tri |-> no, str |-> "", val |-> NoSym,
           visible |-> no, dir |-> no, rev |-> no, imp |-> no,
           utri |-> no, ustr |-> NoStr, uval |-> NoSym]
ConstTri == [y |-> yes, m |-> mod, n |-> no]

\* conf_parse has just read the files.
NewSession(T) ==
    [tree |-> T,
     sym |-> [s \in DOMAIN SymType |-> IF s \in DOMAIN ConstTri
                                       THEN [NewSym EXCEPT !.valid = TRUE, !.tri = ConstTri[s], !.str = s]
                                       ELSE NewSym],
     seen |-> [i \in DOMAIN T.prop |-> no],
     modules_val |-> no,
     changed |-> TRUE, warned |-> FALSE, unsaved |-> FALSE]

(* Reading the state. *)
IsChoiceValue(S, s) == ChoiceOf(S.tree, s) # NoSym
sym_get_type(S, s) ==
    IF /\ SymType[s] = "tristate"
       /\ (IsChoiceValue(S, s) /\ S.sym[s].visible = yes) \/ S.modules_val = no
    THEN "boolean" ELSE SymType[s]
\* m is shown as n when modules_sym is n.
TriString(S, t) == CASE t = no -> "n" [] t = yes -> "y"
                     [] t = mod -> IF S.sym[modules_sym].tri = no THEN "n" ELSE "m"
sym_get_string_value(S, s) == IF Bool(SymType[s]) THEN TriString(S, S.sym[s].tri) ELSE S.sym[s].str
Values(S) == [s \in DOMAIN SymType |-> [tri |-> S.sym[s].tri, str |-> sym_get_string_value(S, s)]]
sym_is_changable(S, s) == S.sym[s].visible > S.sym[s].rev

\* The properties of a symbol of some types, in order.
PropsOf(T, s, types) == SelectSeq([i \in DOMAIN T.prop |-> i],
                                  LAMBDA i : T.prop[i].sym = s /\ T.prop[i].type \in types)

\* Each symbol s, now x, becomes New(s, x). (@@ <<>> leaves a function as it is and
\* has TLC write it out.)
Update(S, New(_, _)) == [S EXCEPT !.sym = [s \in DOMAIN @ |-> New(s, @[s])] @@ <<>>]

(* Calculating. Each operator gives the session after it, and Eval and           *)
(* FirstVisible a result c or d with it: a session S and a value. What comes after *)
(* a session is calculated is an operator on that session.                        *)
RECURSIVE sym_calc_value(_, _), Calculate(_, _)

\* The symbols ss that are not valid, one after the other.
Calculate(S, ss) ==
    CASE ss = <<>> -> S
      [] ss # <<>> /\ S.sym[Head(ss)].valid -> Calculate(S, Tail(ss))
      [] OTHER -> Calculate(sym_calc_value(S, Head(ss)), Tail(ss))

\* expr_calc_value: every symbol of the expression is calculated, left to right.
Valued(S, e) == [S |-> S, v |-> expr_calc_value(e, Values(S))]
Eval(S, e) == Valued(Calculate(S, SymbolsOf(e)), e)

\* The first of the properties whose condition is not n, 0 if there is none.
RECURSIVE FirstVisible(_, _)
ThisOrNext(c, is) == IF c.v # no THEN [S |-> c.S, i |-> Head(is), v |-> c.v] ELSE FirstVisible(c.S, Tail(is))
FirstVisible(S, is) ==
    IF is = <<>> THEN [S |-> S, i |-> 0, v |-> no] ELSE ThisOrNext(Eval(S, S.tree.prop[Head(is)].cond), is)
sym_get_default_prop(S, s) == FirstVisible(S, PropsOf(S.tree, s, {"DEFAULT"}))
sym_get_range_prop(S, s) == FirstVisible(S, PropsOf(S.tree, s, {"RANGE"}))
ExprOf(d) == d.S.tree.prop[d.i].expr

strtoll(str, base) == IF Number(str, base) = NoNumber THEN 0 ELSE Number(str, base)
NumberOf(S, s) == strtoll(S.sym[s].str, BaseOf(s))
\* A bound of a range, read in its own base.
RangeVal(S, s, base) == strtoll(S.sym[s].str,
                                IF SymType[s] \in {"int", "hex"} THEN BaseOf(s) ELSE base)
SetNumber(S, s, n) == [S EXCEPT !.sym[s].str = Decimal(n)]
\* (A bug: only the lower bound is enforced.)
NoMoreAtAll(S, s, b) == S

\* A number out of its range becomes the bound it passes.
NoMore(S, s, b) ==
    IF NumberOf(S, s) <= RangeVal(S, b, BaseOf(s)) THEN S ELSE SetNumber(S, s, RangeVal(S, b, BaseOf(s)))
NoLess(S, s, bounds) ==
    IF NumberOf(S, s) < RangeVal(S, bounds.s, BaseOf(s)) THEN SetNumber(S, s, RangeVal(S, bounds.s, BaseOf(s)))
    ELSE NoMore(sym_calc_value(S, bounds.c), s, bounds.c)
WithinRange(r, s) == IF r.i = 0 THEN r.S ELSE NoLess(sym_calc_value(r.S, ExprOf(r).s), s, ExprOf(r))
sym_validate_range(S, s) ==
    IF SymType[s] \notin {"int", "hex"} THEN S ELSE WithinRange(sym_get_range_prop(S, s), s)

\* m counts as y for a symbol that can only be y.
Raised(t, bool) == IF t = mod /\ bool THEN yes ELSE t

\* The prompts of a symbol: one of a tristate value of a y choice is not visible at m.
Hidden(c, s) == /\ IsChoiceValue(c.S, s) /\ SymType[s] = "tristate" /\ c.v = mod
                /\ c.S.sym[ChoiceOf(c.S.tree, s)].tri = yes
SeePrompt(c, s, i) == [c.S EXCEPT !.seen[i] = IF Hidden(c, s) THEN no ELSE c.v]
RECURSIVE SeePrompts(_, _, _)
SeePrompts(S, s, is) ==
    IF is = <<>> THEN S
    ELSE SeePrompts(SeePrompt(Eval(S, S.tree.prop[Head(is)].cond), s, Head(is)), s, Tail(is))
SetVisible(S, s) ==
    LET tri == Max({no} \cup {S.seen[i] : i \in ToSet(PropsOf(S.tree, s, Prompts))})
    IN  [S EXCEPT !.sym[s].visible = Raised(tri, SymType[s] # "tristate" \/ S.modules_val = no)]

\* The limits of a symbol, each from its expression when there is one: what it
\* depends on, what selects it and, unless it depends on something n, what implies it.
LimitOf(S, s, field) ==
    IF S.tree[field][s] = Null \/ (field = "imp" /\ S.sym[s].dir = no)
    THEN [S |-> S, v |-> IF field = "dir" THEN yes ELSE no]
    ELSE Eval(S, S.tree[field][s])
SetLimit(c, s, field) ==
    [c.S EXCEPT !.sym[s][field] = Raised(c.v, sym_get_type(c.S, s) = "boolean")]
RECURSIVE SetLimits(_, _, _)
SetLimits(S, s, fields) ==
    IF fields = <<>> THEN S
    ELSE SetLimits(SetLimit(LimitOf(S, s, Head(fields)), s, Head(fields)), s, Tail(fields))

sym_calc_visibility(S, s) ==
    SetLimits(SetVisible(SeePrompts(S, s, PropsOf(S.tree, s, Prompts)), s), s,
              IF IsChoiceValue(S, s) THEN <<>> ELSE <<"dir", "rev", "imp">>)

(* Choices. *)
VisibleValues(S, c) == SelectSeq(S.tree.vals[c], LAMBDA s : S.sym[s].visible # no)

\* The first visible default of a choice, or its first visible value.
RECURSIVE DefaultOf(_, _)
DefaultOrNext(d, is) ==
    IF d.i = 0 THEN [S |-> d.S, s |-> NoSym]
    ELSE IF d.S.sym[ExprOf(d).s].visible # no THEN [S |-> d.S, s |-> ExprOf(d).s]
    ELSE DefaultOf(d.S, SelectSeq(is, LAMBDA i : i > d.i))
DefaultOf(S, is) == DefaultOrNext(FirstVisible(S, is), is)
OrFirstValue(d, c) ==
    IF d.s = NoSym /\ VisibleValues(d.S, c) # <<>> THEN [d EXCEPT !.s = Head(VisibleValues(d.S, c))] ELSE d
sym_choice_default(S, c) == OrFirstValue(DefaultOf(S, PropsOf(S.tree, c, {"DEFAULT"})), c)

\* The value chosen: the user's while it is visible. A choice counts as set by the
\* user only while all its visible values do.
RECURSIVE SeeValues(_, _)
SeeValues(S, ss) == IF ss = <<>> THEN S ELSE SeeValues(sym_calc_visibility(S, Head(ss)), Tail(ss))
SetByUser(S, c) ==
    [S EXCEPT !.sym[c].user = @ /\ \A s \in ToSet(VisibleValues(S, c)) : S.sym[s].user]
ChooseDefault(d, c) == [d.S EXCEPT !.sym[c].val = d.s, !.sym[c].tri = IF d.s = NoSym THEN no ELSE @]
ChooseUsers(S, c) ==
    IF Contains(VisibleValues(S, c), S.sym[c].uval) THEN [S EXCEPT !.sym[c].val = S.sym[c].uval]
    ELSE ChooseDefault(sym_choice_default(S, c), c)
sym_calc_choice(S, c) == ChooseUsers(SetByUser(SeeValues(S, S.tree.vals[c]), c), c)

\* The values of a choice that the user did not set count as set to n.
set_all_choice_values(S, c) ==
    Update(S, LAMBDA s, x : CASE Contains(S.tree.vals[c], s) /\ ~x.user -> [x EXCEPT !.utri = no]
                              [] s = c -> [x EXCEPT !.user = TRUE, !.valid = FALSE, !.need = FALSE]
                              [] OTHER -> x)

(* Values. *)

\* A visible bool or tristate takes the user's value; otherwise its first visible
\* default and the implies. Never less than its selects.
ByUser(S, s) == S.sym[s].visible # no /\ S.sym[s].user
AtMost(c, t) == [c EXCEPT !.v = Lesser(@, t)]
DefaultTri(d) == IF d.i = 0 THEN [S |-> d.S, v |-> no] ELSE AtMost(Eval(d.S, ExprOf(d)), d.v)
SetTri(c, s) ==
    LET own == c.S.sym[s]
        byUser == ByUser(c.S, s)
        implied == IF byUser \/ s \in ChoiceSyms THEN no ELSE own.imp
        new == Greater(IF byUser THEN Lesser(own.utri, own.visible) ELSE Greater(c.v, implied), own.rev)
    IN  [c.S EXCEPT !.sym[s].write = @ \/ (~byUser /\ (own.rev # no \/ c.v # no \/ implied # no)),
                    !.sym[s].tri = Raised(new, sym_get_type(c.S, s) = "boolean" \/ own.imp = yes)]
CalcTristate(S, s) ==
    SetTri(IF ByUser(S, s) \/ s \in ChoiceSyms THEN [S |-> S, v |-> no]
           ELSE DefaultTri(sym_get_default_prop(S, s)), s)
\* (A bug: a value of a choice is what it was set to.)
CalcOwn(S, s) == [S EXCEPT !.sym[s].tri = IF S.sym[s].user THEN S.sym[s].utri ELSE no]

\* A visible choice value is y if it is the value chosen.
CalcChosen(S, s) == [S EXCEPT !.sym[s].tri = IF S.sym[ChoiceOf(S.tree, s)].val = s THEN yes ELSE no]

CopyString(S, s, from) == [S EXCEPT !.sym[s].str = S.sym[from].str, !.sym[s].write = TRUE]
DefaultString(d, s) == IF d.i = 0 THEN d.S ELSE CopyString(sym_calc_value(d.S, ExprOf(d).s), s, ExprOf(d).s)
CalcString(S, s) ==
    IF ByUser(S, s) THEN [S EXCEPT !.sym[s].str = S.sym[s].ustr]
    ELSE DefaultString(sym_get_default_prop(S, s), s)
CalcOne(S, s) ==
    CASE Bool(SymType[s]) /\ IsChoiceValue(S, s) /\ S.sym[s].visible = yes -> CalcChosen(S, s)
      [] Bool(SymType[s]) /\ ~(IsChoiceValue(S, s) /\ S.sym[s].visible = yes) -> CalcTristate(S, s)
      [] OTHER -> sym_validate_range(CalcString(S, s), s)

\* After a choice is calculated its visible values are written with it.
WriteValues(S, c) ==
    [Update(S, LAMBDA s, x : IF Contains(S.tree.vals[c], s) /\ S.sym[c].write /\ x.visible # no
                             THEN [x EXCEPT !.write = TRUE] ELSE x) EXCEPT !.sym[c].write = FALSE]
AfterChoice(S, c) ==
    IF c \notin ChoiceSyms THEN S
    ELSE WriteValues(IF S.sym[c].tri = yes THEN sym_calc_choice(S, c) ELSE S, c)

\* A new value of a choice has its choice calculated first.
ChoiceFirst(S, s) ==
    IF S.sym[s].need /\ IsChoiceValue(S, s)
    THEN sym_calc_value([S EXCEPT !.sym[s].need = FALSE], ChoiceOf(S.tree, s)) ELSE S
Begin(S, s) == [S EXCEPT !.sym[s].valid = TRUE, !.sym[s].write = FALSE]
NoValueYet(S, s) ==
    [S EXCEPT !.sym[s].write = @ \/ S.sym[s].visible # no, !.sym[s].tri = no,
              !.sym[s].str = IF Bool(SymType[s]) THEN "n" ELSE "", !.sym[s].val = NoSym]
\* (A bug: what comes from the environment is written too.)
KeepAuto(S, s) == [S EXCEPT !.modules_val = IF s = modules_sym THEN S.sym[s].tri ELSE @]

Keep(S, s) == [S EXCEPT !.modules_val = IF s = modules_sym THEN S.sym[s].tri ELSE @,
                        !.sym[s].write = @ /\ s \notin AutoSyms]
SetNewValues(S, s) == IF S.sym[s].need /\ s \in ChoiceSyms THEN set_all_choice_values(S, s) ELSE S
SeeThenCalc(S, s) == AfterChoice(CalcOne(NoValueYet(sym_calc_visibility(S, s), s), s), s)

sym_calc_value(S, s) ==
    IF S.sym[s].valid THEN S
    ELSE IF SymType[s] = "unknown" THEN [S EXCEPT !.sym[s].valid = TRUE, !.sym[s].str = s, !.sym[s].tri = no]
    ELSE SetNewValues(Keep(SeeThenCalc(Begin(ChoiceFirst(S, s), s), s), s), s)
\* (A bug: only the switch for modules is calculated again.)
ClearModules(S) == sym_calc_value([S EXCEPT !.sym[modules_sym].valid = FALSE, !.changed = TRUE], modules_sym)

sym_clear_all_valid(S) ==
    sym_calc_value([Update(S, LAMBDA s, x : [x EXCEPT !.valid = s \in DOMAIN ConstTri]) EXCEPT !.changed = TRUE],
                   modules_sym)

(* Setting. Each operator gives the session and whether the value was accepted. *)
\* (A bug: a bool may be set to m, an implied symbol too.)
WithinLimitsOnly(S, s, t) ==
    LET own == S.sym[s]
    IN  /\ own.visible > own.rev
        /\ IF IsChoiceValue(S, s) /\ own.visible = yes THEN t = yes ELSE own.rev <= t /\ t <= own.visible

sym_tristate_within_range(S, s, t) ==
    LET own == S.sym[s]
    IN  /\ own.visible > own.rev
        /\ Bool(SymType[s])
        /\ t = mod => sym_get_type(S, s) = "tristate" /\ own.imp # yes
        /\ IF IsChoiceValue(S, s) /\ own.visible = yes THEN t = yes ELSE own.rev <= t /\ t <= own.visible

\* A value set in a choice makes the choice and its visible values set.
ChooseValue(S, s, t) ==
    LET c == ChoiceOf(S.tree, s)
    IN  IF c = NoSym \/ t # yes THEN S
        ELSE Update(S, LAMBDA o, x :
                CASE o = c -> [x EXCEPT !.uval = s, !.user = TRUE]
                  [] Contains(S.tree.vals[c], o) /\ x.visible # no -> [x EXCEPT !.user = TRUE]
                  [] OTHER -> x)

SetUserTri(S, s, t) == [ChooseValue([S EXCEPT !.sym[s].user = TRUE], s, t) EXCEPT !.sym[s].utri = t]
sym_set_tristate_value(S, s, t) ==
    CASE S.sym[s].tri = t -> [S |-> SetUserTri(S, s, t), ok |-> TRUE]
      [] S.sym[s].tri # t /\ sym_tristate_within_range(S, s, t) ->
           [S |-> sym_clear_all_valid(SetUserTri(S, s, t)), ok |-> TRUE]
      [] OTHER -> [S |-> S, ok |-> FALSE]

\* The next value that is accepted after the present one (n, m, y, n ...), t, is set.
RECURSIVE ToggleTo(_, _, _, _)
ToggleEnd(r, s, t, old) == IF r.ok \/ t = old THEN [S |-> r.S, t |-> t] ELSE ToggleTo(r.S, s, (t + 1) % 3, old)
ToggleTo(S, s, t, old) == ToggleEnd(sym_set_tristate_value(S, s, t), s, t, old)
sym_toggle_tristate_value(S, s) == ToggleTo(S, s, (S.sym[s].tri + 1) % 3, S.sym[s].tri)

\* A number is within its range if it is on the right side of each of the bounds bs, the
\* lower one first.
RightSide(S, s, n, bs) ==
    IF Len(bs) = 2 THEN RangeVal(S, Head(bs), BaseOf(s)) <= n ELSE n <= RangeVal(S, Head(bs), BaseOf(s))
RECURSIVE BetweenBounds(_, _, _, _)
ThisBoundFirst(S, s, n, bs) ==
    IF RightSide(S, s, n, bs) THEN BetweenBounds(S, s, n, Tail(bs)) ELSE [S |-> S, ok |-> FALSE]
BetweenBounds(S, s, n, bs) ==
    IF bs = <<>> THEN [S |-> S, ok |-> TRUE] ELSE ThisBoundFirst(sym_calc_value(S, Head(bs)), s, n, bs)
NumberInRange(r, s, str) ==
    BetweenBounds(r.S, s, strtoll(str, BaseOf(s)), IF r.i = 0 THEN <<>> ELSE <<ExprOf(r).s, ExprOf(r).c>>)
sym_string_within_range(S, s, str) ==
    IF SymType[s] = "string" \/ ~sym_string_valid(s, str) THEN [S |-> S, ok |-> sym_string_valid(s, str)]
    ELSE NumberInRange(sym_get_range_prop(S, s), s, str)

StoreString(r, s, str, new) ==
    IF ~r.ok THEN r
    ELSE [S |-> IF r.S.sym[s].ustr = str /\ new = str THEN [r.S EXCEPT !.sym[s].user = TRUE]
                ELSE sym_clear_all_valid([r.S EXCEPT !.sym[s].user = TRUE, !.sym[s].ustr = new]), ok |-> TRUE]
sym_set_string_value(S, s, str) ==
    StoreString(sym_string_within_range(S, s, str), s, str, IF SymType[s] = "hex" THEN Prefixed(str) ELSE str)

\* The value a symbol would have had the user not set it, with the session.
Letter == [t \in tristate |-> CASE t = no -> "n" [] t = mod -> "m" [] t = yes -> "y"]
RaisedDefault(c, s) ==
    LET sel == Greater(c.v, c.S.sym[s].rev)
        raise == SymType[s] = "boolean" \/ (~IsChoiceValue(c.S, s) /\ c.S.sym[modules_sym].tri = no)
    IN  [S |-> c.S, str |-> Letter[Greater(Raised(sel, raise), c.S.sym[s].imp)]]
CalculatedString(S, s) == [S |-> S, str |-> S.sym[s].str]
StringDefault(d, s) ==
    CASE Bool(SymType[s]) -> RaisedDefault(DefaultTri(d), s)
      [] ~Bool(SymType[s]) /\ d.i = 0 -> [S |-> d.S, str |-> ""]
      [] OTHER -> CalculatedString(sym_calc_value(d.S, ExprOf(d).s), ExprOf(d).s)
sym_get_string_default(S, s) ==
    StringDefault(sym_get_default_prop(sym_calc_value(sym_calc_visibility(S, s), modules_sym), s), s)

(* What is shown (menu.c:630-666): an entry with a visible prompt, or a symbol  *)
(* that is not n with something visible below. Asking marks the symbol as set.  *)
RECURSIVE menu_is_visible(_, _), AnyVisible(_, _)
NotSeen(S) == [S |-> S, ok |-> FALSE]
ThisOrLater(x, ms) == IF x.ok THEN x ELSE AnyVisible(x.S, ms)
AnyVisible(S, ms) == IF ms = <<>> THEN NotSeen(S) ELSE ThisOrLater(menu_is_visible(S, Head(ms)), Tail(ms))

\* Whether the condition of the menu's "visible if", then its prompt, are not n.
VisibleIf(S, m) == IF S.tree.menu[m].vis = Null THEN [S |-> S, v |-> yes] ELSE Eval(S, S.tree.menu[m].vis)
SymbolPrompt(S, i) == [S |-> S, v |-> S.seen[i]]
MenuPrompt(c, i) == [S |-> [c.S EXCEPT !.seen[i] = c.v], v |-> c.v]
OwnPrompt(S, node) ==
    IF node.sym # NoSym THEN SymbolPrompt(sym_calc_value(S, node.sym), node.prompt)
    ELSE MenuPrompt(Eval(S, S.tree.prop[node.prompt].cond), node.prompt)
MarkSet(x, s) == IF x.ok THEN [x EXCEPT !.S.sym[s].user = TRUE] ELSE x
PromptOrBelow(c, node) ==
    CASE c.v # no -> [S |-> c.S, ok |-> TRUE]
      [] c.v = no /\ (node.sym = NoSym \/ c.S.sym[node.sym].tri = no) -> NotSeen(c.S)
      [] OTHER -> MarkSet(AnyVisible(c.S, node.list), node.sym)
SeeUnder(c, node) == IF c.v = no THEN NotSeen(c.S) ELSE PromptOrBelow(OwnPrompt(c.S, node), node)
menu_is_visible(S, m) ==
    IF S.tree.menu[m].prompt = 0 THEN NotSeen(S) ELSE SeeUnder(VisibleIf(S, m), S.tree.menu[m])
NoneVisible(x) == [S |-> x.S, ok |-> ~x.ok]
menu_is_empty(S, m) == NoneVisible(AnyVisible(S, S.tree.menu[m].list))
====================================================================================
