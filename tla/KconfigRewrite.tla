----------------------------- MODULE KconfigRewrite -----------------------------
(* What the menu builder does to the condition of an entry and to the          *)
(* condition of the symbol before it (menu_finalize in support/kconfig/menu.c): *)
(* simplifications in any order, then the comparison of both with n and the    *)
(* removal of what they share, by which the entry becomes part of the symbol's *)
(* submenu or not. The conditions as they were written are kept beside.        *)
EXTENDS KconfigExpr

CONSTANTS
    Deps,           \* the conditions an entry may have
    Bases,          \* the conditions the symbol before it may have
    Valuations      \* the values the symbols may take: [tri, str] for each

ASSUME ConditionsAssumption == Deps \cup Bases \subseteq Conditions

\* The text of a bool or a tristate is its value, as nothing is m when there are no
\* modules, and a bool is not m; y, m and n are themselves and are no numbers
\* (symbol.c:14-30, 803-825). Different texts, and different constants, differ; no
\* constant is the number of a value: a tristate T that is y is equal to the
\* constant "2", and T="2" && T!=y is joined.
TextOf == <<"n", "m", "y">>
ValuationIs(v) ==
    /\ \A s \in DOMAIN SymType :
          /\ v[s].tri \in tristate /\ Rank(v[s].str) \in Int
          /\ Bool(SymType[s]) \/ s \in {"y", "m", "n"} => v[s].str = TextOf[v[s].tri + 1]
          /\ SymType[s] = "boolean" => v[s].tri # mod
          /\ \A z \in DOMAIN SymType : Rank(v[s].str) = Rank(v[z].str) => v[s].str = v[z].str
    /\ v["y"].tri = yes /\ v["m"].tri = mod /\ v["n"].tri = no
    /\ \A c, d \in ConstSyms : v[c].str = v[d].str => c = d
    /\ \A c \in ConstSyms : Number(v[c].str, 0) \in {NoNumber} \cup (Int \ tristate)
ASSUME ValuesAssumption ==
    /\ {"y", "m", "n"} \subseteq ConstSyms /\ ConstSyms \subseteq DOMAIN SymType
    /\ \A c \in ConstSyms : SymType[c] = "unknown"
    /\ \A c \in {"y", "m", "n"} : Number(c, 0) = NoNumber
    /\ \A v \in Valuations : ValuationIs(v)

VARIABLES
    written,        \* the two conditions as written: [dep, base]
    now,            \* the two conditions as rewritten
    stage           \* "value": simplified; "test": compared with n; "shared": without
                    \* what they share; "unused": there is none

rewrite_vars == <<written, now, stage>>

RewriteInit ==
    /\ written \in [dep : Deps, base : Bases]
    /\ now = written
    /\ stage = "value"

Both(Op(_)) == now' = [dep |-> Op(now.dep), base |-> Op(now.base)]

Transform == stage # "shared" /\ Both(expr_transform) /\ UNCHANGED <<written, stage>>
EliminateDups == stage # "shared" /\ Both(expr_eliminate_dups) /\ UNCHANGED <<written, stage>>

TransCompare ==
    /\ stage = "value"
    /\ Both(LAMBDA e : expr_trans_compare(e, "UNEQUAL", "n"))
    /\ stage' = "test"
    /\ UNCHANGED written

EliminateEq ==
    /\ stage = "test"
    /\ LET rest == expr_eliminate_eq(now.dep, now.base)
       IN  now' = [dep |-> rest[1], base |-> rest[2]]
    /\ stage' = "shared"
    /\ UNCHANGED written

RewriteNext == stage # "unused" /\ (Transform \/ EliminateDups \/ TransCompare \/ EliminateEq)
RewriteSpec == RewriteInit /\ [][RewriteNext]_rewrite_vars

--------------------------------------------------------------------------------
\* No symbol is m.
WithoutModules == {v \in Valuations : \A s \in DOMAIN SymType \ {"m"} : v[s].tri # mod}
Value(e, v) == expr_calc_value(e, v)
Test(e, v) == IF Value(e, v) = no THEN no ELSE yes

\* The symbols that are part of a condition without being compared.
Alone[e \in Conditions] ==
    CASE e.t = "NOT" -> Alone[e.l]
      [] e.t = "SYMBOL" -> {e.s}
      [] e.t \in {"AND", "OR"} -> Alone[e.l] \cup Alone[e.r]
      [] OTHER -> {}
SaysM(e) == "m" \in Alone[e]
\* The symbols that are n exactly if they are equal to n.
Switches == {s \in DOMAIN SymType : Bool(SymType[s])} \cup {"y", "m", "n"}

\* Every simplification keeps the value of a condition whatever the values of
\* the symbols: what the user sees is what the file says (menu.c:348-395). The
\* comparison with n is never y where the condition is n, and is exact where no
\* symbol is m (menu.c:448-450; a negated m is m, but its comparison is n: m
\* itself is left out, which rewrite_m joins to MODULES). A number, a text or a
\* symbol that is not defined counts as n alone, but is not equal to n.
SameValue ==
    \A f \in {"dep", "base"} :
        /\ stage = "value" => \A v \in Valuations : Value(now[f], v) = Value(written[f], v)
        /\ stage = "test" /\ Alone[written[f]] \subseteq Switches =>
              /\ \A v \in Valuations : Value(now[f], v) <= Test(written[f], v)
              /\ ~SaysM(written[f]) => \A v \in WithoutModules : Value(now[f], v) = Test(written[f], v)

\* An entry is put into the submenu of the symbol before it only if, without
\* modules, it is never visible without that symbol: nothing left of the symbol's
\* condition means that the entry's condition implies it (menu.c:472-481). The
\* conditions are those whose comparison with n is exact, as above: an entry on !m
\* would be found to imply the condition m=n.
SubmenuIsImplied ==
    /\ stage = "shared" /\ expr_is_yes(now.base)
    /\ Alone[written.dep] \cup Alone[written.base] \subseteq Switches /\ ~SaysM(written.dep)
    => \A v \in WithoutModules : Test(written.dep, v) <= Test(written.base, v)

\* Two conditions expr_eq takes for one have the same value (expr.c:251-295),
\* and a condition found to depend on a bool or a tristate is n when that is n
\* (expr.c:871-898).
EqualIsSame ==
    stage = "value" =>
        /\ expr_eq(now.dep, now.base) =>
              \A v \in Valuations : Value(now.dep, v) = Value(now.base, v)
        /\ \A s \in DOMAIN SymType : Bool(SymType[s]) /\ expr_depends_symbol(now.dep, s) =>
              \A v \in Valuations : v[s].tri = no => Value(now.dep, v) = no

\* What menu_finalize asks of the rewritings: they keep the value of a condition, and
\* find two conditions equal, or one to depend on a symbol, only if they are
\* (expr.c:251-295, 686-720, 871-898).
RewritingsAreSound == SameValue /\ EqualIsSame

(* Reading the tokens of a condition by the grammar of zconf.y (zconf.y:504-516),   *)
(* from the front: what is read, and the tokens that are left. A reader calls       *)
(* others on fewer tokens. A chain is grouped from the right, where the parser's    *)
(* %left groups from the left: the value is the same. The names are words: one in   *)
(* quotes, that may be a sign, is printed without the quotes and is not read back.  *)
Signs == {"!", "(", ")", "&&", "||"} \cup {Token[t] : t \in Relations}
Words == DOMAIN SymType \cup Signs
ASSUME NamesAssumption == DOMAIN SymType \cap Signs = {}

\* Whether a relation follows a name, and the comparison of the words around it.
Compares(ts) == ts[1] \notin Signs /\ Len(ts) > 1 /\ ts[2] \in {Token[t] : t \in Relations}
ComparisonFrom(ts) ==
    [e |-> Comp(CHOOSE t \in Relations : Token[t] = ts[2], ts[1], ts[3]), rest |-> SubSeq(ts, 4, Len(ts))]
\* What was read, x, after a ! and after a (, with the ) that ends it.
Negated(x) == [e |-> Not(x.e), rest |-> x.rest]
Enclosed(x) == [e |-> x.e, rest |-> Tail(x.rest)]
\* A negation, a condition in parentheses, a comparison or a symbol.
OperandFrom(readers, ts) ==
    CASE ts[1] = "!" -> Negated(readers.not[Tail(ts)])
      [] ts[1] = "(" -> Enclosed(readers.or[Tail(ts)])
      [] Compares(ts) -> ComparisonFrom(ts)
      [] OTHER -> [e |-> Sym(ts[1]), rest |-> Tail(ts)]
\* What was read, x, and what the reader finds after the sign of the chain.
ChainFrom(reader, type, x) ==
    IF x.rest = <<>> \/ Head(x.rest) # (IF type = "AND" THEN "&&" ELSE "||") THEN x
    ELSE LET y == reader[Tail(x.rest)] IN [e |-> Two(type, x.e, y.e), rest |-> y.rest]
\* A chain of && and one of ||, which binds less.
AndFrom(readers, ts) == ChainFrom(readers.and, "AND", OperandFrom(readers, ts))
OrFrom(readers, ts) == ChainFrom(readers.or, "OR", AndFrom(readers, ts))
\* The readers when calls may nest n deep, by what each reads: an operand, or a chain.
Unread == [ts \in Seq(Words) |-> [e |-> Null, rest |-> ts]]
Readers[n \in Nat] ==
    IF n = 0 THEN [not |-> Unread, and |-> Unread, or |-> Unread]
    ELSE [not |-> [ts \in Seq(Words) |-> OperandFrom(Readers[n - 1], ts)],
          and |-> [ts \in Seq(Words) |-> AndFrom(Readers[n - 1], ts)],
          or |-> [ts \in Seq(Words) |-> OrFrom(Readers[n - 1], ts)]]
ReadCondition(ts) == Readers[Len(ts)].or[ts]

\* The text of a condition, read by the grammar of zconf.y, is read to its end, and
\* what is read evaluates to the same value (expr.c:1106-1230).
PrintedReadsBack ==
    stage = "value" =>
        LET read == ReadCondition(expr_print(now.dep, "NONE"))
        IN  /\ read.rest = <<>>
            /\ \A v \in Valuations : Value(read.e, v) = Value(now.dep, v)

================================================================================
