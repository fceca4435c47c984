------------------------------ MODULE KconfigLoops ------------------------------
(* The search for recursive dependencies (support/kconfig/symbol.c:1099-1344), *)
(* run over every symbol before any value is calculated: a value that is       *)
(* calculated from itself would depend on which symbol is asked for first.     *)
EXTENDS KconfigMenu

\* The walk of one search: the symbols on the path (SYMBOL_CHECK), those met
\* (SYMBOL_CHECKED), the calls under way (dep_stack), the symbol whose loop was
\* found, or NoSym, and the loops that were printed on the way.
Unwalked == [check |-> {}, checked |-> {}, stack |-> <<>>, found |-> NoSym, printed |-> {}]
dep_stack_insert(w, s) == [w EXCEPT !.stack = Append(@, s)]
dep_stack_remove(w) == [w EXCEPT !.stack = Front(@)]
Meet(w, ss) == [w EXCEPT !.check = @ \cup ss, !.checked = @ \cup ss]
ChoiceOf(T, s) == LET cs == {c \in ChoiceSyms : Contains(T.vals[c], s)}
                  IN  IF cs = {} THEN NoSym ELSE CHOOSE c \in cs : TRUE

\* The symbols of an expression, from left to right.
RECURSIVE SymbolsOf(_)
SymbolsOf(e) == CASE e.t \in {"AND", "OR"} -> SymbolsOf(e.l) \o SymbolsOf(e.r)
                  [] e.t = "NOT" -> SymbolsOf(e.l)
                  [] e.t = "SYMBOL" -> <<e.s>>
                  [] e.t \in Relations -> <<e.s, e.c>>
                  [] OTHER -> <<>>

\* What the value of a symbol is calculated from: the selects, the conditions of
\* its properties, its defaults.
ReadsOf(s, p) == CASE p.sym # s \/ p.type \in {"CHOICE", "SELECT"} -> <<>>
                   [] p.sym = s /\ p.type = "DEFAULT" /\ s \notin ChoiceSyms -> <<p.cond, p.expr>>
                   [] OTHER -> <<p.cond>>
CheckedExprs(T, s) == <<T.rev[s]>> \o FlattenSeq([i \in DOMAIN T.prop |-> ReadsOf(s, T.prop[i])])

\* The loop that is printed: what is on the stack from the last call for the symbol
\* that was met again, nothing if it is not there ("unexpected"). For a value of a
\* choice it is the choice that is looked for.
Unexpected == <<>>
FromLast(stack, s) ==
    LET at == {i \in DOMAIN stack : stack[i] = s}
    IN  IF at = {} THEN Unexpected ELSE SubSeq(stack, Max(at), Len(stack))
sym_check_print_recursive(T, w, s) ==
    LET c == ChoiceOf(T, s)
        loop == IF c = NoSym THEN FromLast(w.stack, s) ELSE FromLast(Append(w.stack, s), c)
    IN  [w EXCEPT !.printed = @ \cup {loop}]

\* Each step of a walk is skipped once a loop is found.
RECURSIVE sym_check_deps(_, _, _), sym_check_expr_deps(_, _, _), CheckExprs(_, _, _), CheckValues(_, _, _)
sym_check_expr_deps(T, w, ss) ==
    IF w.found # NoSym \/ ss = <<>> THEN w ELSE sym_check_expr_deps(T, sym_check_deps(T, w, Head(ss)), Tail(ss))
CheckExprs(T, w, es) ==
    IF w.found # NoSym \/ es = <<>> THEN w ELSE CheckExprs(T, sym_check_expr_deps(T, w, SymbolsOf(Head(es))), Tail(es))
sym_check_sym_deps(T, w, s) == dep_stack_remove(CheckExprs(T, dep_stack_insert(w, s), CheckedExprs(T, s)))

\* A choice and its values are searched together.
CheckValues(T, w, ss) ==
    IF w.found # NoSym \/ ss = <<>> THEN w
    ELSE CheckValues(T, sym_check_sym_deps(T, w, Head(ss)), Tail(ss))
LeaveChoice(w, c, values) == [w EXCEPT !.check = @ \ values, !.found = IF @ \in values THEN c ELSE @]
CheckFromChoice(T, w, c) ==
    LeaveChoice(CheckValues(T, [w EXCEPT !.check = @ \ {c}], T.vals[c]), c, ToSet(T.vals[c]))
sym_check_choice_deps(T, w, c) ==
    dep_stack_remove(CheckFromChoice(T,
        sym_check_sym_deps(T, Meet(dep_stack_insert(w, c), ToSet(T.vals[c]) \cup {c}), c), c))
\* For a value of a choice the search starts with the choice.
CheckChoiceOf(T, w, s) == dep_stack_remove(sym_check_deps(T, dep_stack_insert(w, s), ChoiceOf(T, s)))

CheckSymbolDeps(T, w, s) == [sym_check_sym_deps(T, Meet(w, {s}), s) EXCEPT !.check = @ \ {s}]
NotItself(w, s) == [w EXCEPT !.found = IF @ = s THEN NoSym ELSE @]
\* (A bug: a symbol met in an earlier search counts as part of a loop.)
CheckMetAgain(T, w, s) ==
    IF s \in w.checked THEN [sym_check_print_recursive(T, w, s) EXCEPT !.found = s]
    ELSE NotItself(CheckSymbolDeps(T, w, s), s)

sym_check_deps(T, w, s) ==
    IF s \in w.check THEN [sym_check_print_recursive(T, w, s) EXCEPT !.found = s]
    ELSE IF s \in w.checked THEN w
    ELSE NotItself(CASE ChoiceOf(T, s) # NoSym -> CheckChoiceOf(T, w, s)
                     [] s \in ChoiceSyms -> sym_check_choice_deps(T, w, s)
                     [] OTHER -> CheckSymbolDeps(T, w, s),
                   s)
================================================================================
