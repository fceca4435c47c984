------------------------------ MODULE KconfigMenu ------------------------------
(* The menu tree the configuration language is read into, and what            *)
(* menu_finalize makes of it (support/kconfig/menu.c, zconf.y): conditions     *)
(* propagated from the menus to the entries and their properties, reverse      *)
(* dependencies, automatic submenus, choices, ifs flattened. A tree T has the  *)
(* nodes T.menu (node 1 is the root), the properties T.prop in the order they  *)
(* were added, the current entry and menu of the parser, and what the symbols  *)
(* gather: rev, imp, dir (expressions) and the values of each choice.          *)
EXTENDS KconfigExpr

CONSTANTS
    OptionalChoices,\* the choices declared optional
    modules_sym     \* the symbol with option modules, "n" when there is none

NoSym == "none"     \* the symbol of a menu, an if, a comment
NoText == "no text" \* the condition of a property that is not a prompt
ROOT == 1

Node(s, parent) == [sym |-> s, parent |-> parent, dep |-> Null, vis |-> Null, prompt |-> 0, list |-> <<>>]
Property(type, s, m, expr, cond) == [type |-> type, sym |-> s, menu |-> m, expr |-> expr, cond |-> cond]
Prompts == {"PROMPT", "MENU", "COMMENT"}

_menu_init ==
    [menu |-> <<[Node(NoSym, 0) EXCEPT !.prompt = 1]>>,
     prop |-> <<Property("MENU", NoSym, ROOT, Null, Null)>>,
     entry |-> ROOT, top |-> ROOT,
     rev |-> [s \in DOMAIN SymType |-> Null], imp |-> [s \in DOMAIN SymType |-> Null],
     dir |-> [s \in DOMAIN SymType |-> Null], vals |-> [c \in ChoiceSyms |-> <<>>]]

\* The conditions "visible if" of the menus around node m.
RECURSIVE UpperVisibility(_, _)
UpperVisibility(T, m) ==
    IF m = 0 THEN Null
    ELSE expr_alloc_and(T.menu[m].vis, UpperVisibility(T, T.menu[m].parent))

menu_add_prop(T, type, expr, cond) ==
    LET node == T.menu[T.entry]
        upper == IF type = "PROMPT" THEN UpperVisibility(T, node.parent) ELSE Null
        U == [T EXCEPT !.prop = Append(@, Property(type, node.sym, T.entry, expr, expr_alloc_and(cond, upper)))]
    IN  IF type \in Prompts THEN [U EXCEPT !.menu[T.entry].prompt = Len(U.prop)] ELSE U

menu_add_entry(T, s) ==
    LET n == Len(T.menu) + 1
        U == [T EXCEPT !.menu = Append([@ EXCEPT ![T.top].list = Append(@, n)], Node(s, T.top)), !.entry = n]
    IN  IF s = NoSym THEN U ELSE menu_add_prop(U, "SYMBOL", Sym(s), Null)

menu_add_menu(T) == [T EXCEPT !.top = T.entry]

menu_end_menu(T) == [T EXCEPT !.top = T.menu[T.top].parent]
menu_add_dep(T, dep) == [T EXCEPT !.menu[T.entry].dep = expr_alloc_and(@, dep)]
menu_add_visibility(T, e) == [T EXCEPT !.menu[T.entry].vis = expr_alloc_and(@, e)]

(* The statements of a file, each with its options in order. *)
AddOption(T, o) ==
    CASE o.o = "depends" -> menu_add_dep(T, o.cond)
      [] o.o = "visible" -> menu_add_visibility(T, o.cond)
      [] OTHER -> menu_add_prop(T, o.o, o.expr, o.cond)
RECURSIVE AddOptions(_, _)
AddOptions(T, opts) == IF opts = <<>> THEN T ELSE AddOptions(AddOption(T, Head(opts)), Tail(opts))

\* config, menu, if, comment and choice, and the ends of the blocks.
EnterBlock(T, st) ==
    IF st.k = "choice" THEN menu_add_prop(menu_add_entry(T, st.s), "CHOICE", Null, Null)
    ELSE menu_add_entry(T, IF st.k \in {"config", "comment"} THEN st.s ELSE NoSym)
AddEntry(T, st) == AddOptions(EnterBlock(T, st), st.opts)
Statement(T, st) ==
    CASE st.k = "end" -> menu_end_menu(T)
      [] st.k \in {"config", "comment"} -> AddEntry(T, st)
      [] st.k \in {"menu", "if", "choice"} -> menu_add_menu(AddEntry(T, st))

(* menu_finalize. *)
IsChoice(T, m) == T.menu[m].sym \in ChoiceSyms
CondOfPrompt(T, m) == T.prop[T.menu[m].prompt].cond
HasPrompt(T, m) == T.menu[m].prompt # 0

RECURSIVE rewrite_m(_)
rewrite_m(e) ==
    CASE e.t = "NOT" -> Not(rewrite_m(e.l))
      [] e.t \in {"OR", "AND"} -> Two(e.t, rewrite_m(e.l), rewrite_m(e.r))
      [] e = Sym("m") -> expr_alloc_and(e, Sym(modules_sym))
      [] OTHER -> e

\* A condition below another, rewritten and simplified.
Under(above, e) == expr_eliminate_dups(expr_alloc_and(above, expr_transform(rewrite_m(e))))

\* A select or an imply gives its symbol a reverse dependency.
AddReverse(T, p, cond) ==
    LET es == p.expr.s
        by(e) == expr_alloc_or(e, expr_alloc_and(Sym(p.sym), cond))
    IN  CASE p.type = "SELECT" -> [T EXCEPT !.rev[es] = by(@)]
          [] p.type = "IMPLY" -> [T EXCEPT !.imp[es] = by(@)]
          [] OTHER -> T

CondFor(s, dep) == IF s # NoSym /\ SymType[s] # "tristate" THEN expr_trans_bool(dep) ELSE dep
PutCond(T, i, cond) == AddReverse([T EXCEPT !.prop[i].cond = cond], T.prop[i], cond)
PropagateToProp(T, i, basedep) == PutCond(T, i, CondFor(T.prop[i].sym, Under(basedep, T.prop[i].cond)))
RECURSIVE PropagateToProps(_, _, _), PropagateToNodes(_, _, _)
PropagateToProps(T, is, basedep) ==
    IF is = <<>> THEN T ELSE PropagateToProps(PropagateToProp(T, Head(is), basedep), Tail(is), basedep)

\* A child gets the condition basedep, and its properties with it.
PropagateToNode(T, m, basedep) ==
    PropagateToProps([T EXCEPT !.menu[m].dep = basedep],
                     SelectSeq([i \in 1..Len(T.prop) |-> i], LAMBDA i : T.prop[i].menu = m), basedep)
PropagateToNodes(T, ms, parentdep) ==
    IF ms = <<>> THEN T
    ELSE PropagateToNodes(PropagateToNode(T, Head(ms), Under(parentdep, T.menu[Head(ms)].dep)), Tail(ms), parentdep)

\* The dependencies of a node become those of its children and their properties.
Propagate(T, parent) ==
    PropagateToNodes(T, T.menu[parent].list,
                     CASE IsChoice(T, parent) -> Sym(T.menu[parent].sym)
                       [] ~IsChoice(T, parent) /\ HasPrompt(T, parent) -> CondOfPrompt(T, parent)
                       [] OTHER -> T.menu[parent].dep)

\* The node after m in the list of node c, 0 at the end.
NextOf(T, c, m) ==
    LET list == T.menu[c].list
        i == CHOOSE j \in 1..Len(list) : list[j] = m
    IN  IF i = Len(list) THEN 0 ELSE list[i + 1]

Simplified(e) == expr_eliminate_dups(expr_transform(expr_trans_compare(e, "UNEQUAL", "n")))
\* (A bug: mentioning the symbol is enough.)
BelongsIfMentioned(T, p, m) == HasPrompt(T, m) /\ expr_contains_symbol(CondOfPrompt(T, m), T.menu[p].sym)

\* Node m belongs in the submenu of node p.
BelongsUnder(T, p, m) ==
    LET sym == T.menu[p].sym
        dep == IF HasPrompt(T, m) THEN CondOfPrompt(T, m) ELSE T.menu[m].dep
        base == IF HasPrompt(T, p) THEN CondOfPrompt(T, p) ELSE Null
    IN  /\ expr_contains_symbol(dep, sym)
        /\ \/ expr_depends_symbol(dep, sym)
           \/ expr_is_yes(expr_eliminate_eq(Simplified(dep), Simplified(base))[2])

RECURSIVE menu_finalize(_, _, _), FinalizeFrom(_, _, _), Absorb(_, _, _, _)

\* The nodes of the list of c from m on.
FinalizeAfter(T, c, m) == FinalizeFrom(T, c, NextOf(T, c, m))
FinalizeFrom(T, c, m) == IF m = 0 THEN T ELSE FinalizeAfter(menu_finalize(T, m, c), c, m)

\* The nodes after last that belong under node p are taken into its list.
Absorb(T, p, c, last) ==
    LET m == NextOf(T, c, last)
    IN  IF m # 0 /\ BelongsUnder(T, p, m)
        THEN Absorb([menu_finalize(T, m, c) EXCEPT !.menu[m].parent = p], p, c, m)
        ELSE LET list == T.menu[c].list
                 from == CHOOSE j \in 1..Len(list) : list[j] = p
                 to == CHOOSE j \in 1..Len(list) : list[j] = last
             IN  [T EXCEPT !.menu[p].list = SubSeq(list, from + 1, to),
                           !.menu[c].list = SubSeq(list, 1, from) \o SubSeq(list, to + 1, Len(list))]

\* A symbol in the block of a choice becomes a value of it, once. Values of a
\* tristate choice that are not tristate need it to be y.
AddChoiceValue(T, parent, m) ==
    LET c == T.menu[parent].sym
        s == T.menu[m].sym
        onlyY == Comp("EQUAL", c, "y")
        U == IF SymType[c] = "tristate" /\ SymType[s] # "tristate"
             THEN [T EXCEPT !.menu[m].dep = expr_alloc_and(onlyY, @),
                            !.prop = [i \in DOMAIN @ |-> IF @[i].menu = m /\ @[i].sym = s
                                        THEN [@[i] EXCEPT !.cond = expr_alloc_and(onlyY, @)] ELSE @[i]]]
             ELSE T
    IN  IF c \in ChoiceSyms /\ s # NoSym /\ \A d \in ChoiceSyms : ~Contains(T.vals[d], s)
        THEN [U EXCEPT !.vals[c] = Append(@, s)]
        ELSE T

\* The list of a node without a prompt takes its place after it.
Flatten(T, parent, m) ==
    LET list == T.menu[parent].list
        i == CHOOSE j \in 1..Len(list) : list[j] = m
        own == T.menu[m].list
    IN  IF HasPrompt(T, m) THEN T
        ELSE [T EXCEPT !.menu = [n \in DOMAIN @ |->
                CASE n = parent -> [@[n] EXCEPT !.list = SubSeq(list, 1, i) \o own \o SubSeq(list, i + 1, Len(list))]
                  [] n = m -> [@[n] EXCEPT !.list = <<>>]
                  [] Contains(own, n) -> [@[n] EXCEPT !.parent = parent]
                  [] OTHER -> @[n]]]

RECURSIVE Gather(_, _, _)
GatherAfter(T, parent, m) == Gather(T, parent, NextOf(T, parent, m))
Gather(T, parent, m) ==
    IF m = 0 THEN T ELSE GatherAfter(Flatten(AddChoiceValue(T, parent, m), parent, m), parent, m)

First(list) == IF list = <<>> THEN 0 ELSE Head(list)

\* A choice that is not optional cannot be n while its prompt is visible.
ForceChoice(T, parent) ==
    LET c == T.menu[parent].sym
    IN  IF c \in ChoiceSyms \ OptionalChoices /\ HasPrompt(T, parent)
        THEN [T EXCEPT !.rev[c] = expr_alloc_or(@, expr_alloc_and(CondOfPrompt(T, parent), Sym("m")))]
        ELSE T

\* What is done before the list of the node is gone through for choice values.
FinalizeList(T, parent) == FinalizeFrom(T, parent, First(T.menu[parent].list))
AddDirectDep(T, parent) == [T EXCEPT !.dir[T.menu[parent].sym] = expr_alloc_or(@, T.menu[parent].dep)]
FinalizeBelow(T, parent, c) ==
    CASE T.menu[parent].list # <<>> -> FinalizeList(Propagate(T, parent), parent)
      [] T.menu[parent].list = <<>> /\ T.menu[parent].sym # NoSym -> AddDirectDep(Absorb(T, parent, c, parent), parent)
      [] OTHER -> T
GatherList(T, parent) == ForceChoice(Gather(T, parent, First(T.menu[parent].list)), parent)
menu_finalize(T, parent, c) == GatherList(FinalizeBelow(T, parent, c), parent)

\* A whole file.
RECURSIVE Statements(_, _)
Statements(T, sts) == IF sts = <<>> THEN T ELSE Statements(Statement(T, Head(sts)), Tail(sts))
conf_parse(file) == menu_finalize(Statements(_menu_init, file), ROOT, 0)
================================================================================
