------------------------------ MODULE KconfigExpr ------------------------------
(* The dependency expressions of the configuration language (support/kconfig/ *)
(* expr.c): how they are evaluated over the three values n < m < y, and the   *)
(* rewritings the menu builder applies to them before anything is evaluated.  *)
(* An expression is a record: its type, and its operands (l, r) or the symbol *)
(* and the symbol it is compared with (s, c). A missing expression is Null.   *)
(* What recurs over an expression is a function on Conditions; what calls     *)
(* itself on an expression that it has made is one on the depth of the calls. *)
EXTENDS KconfigTypes, Sequences, SequencesExt

CONSTANTS
    ConstSyms,      \* the symbols flagged SYMBOL_CONST, among them "y", "m" and "n"
    Rank(_),        \* the place of a string in the order of strcmp
    Conditions,     \* the expressions there are, with the operands of each
    MaxCalls        \* how deep calls may nest

ASSUME CallsAssumption == MaxCalls \in Nat

tristate == 0..2
no  == 0
mod == 1
yes == 2

Relations == {"EQUAL", "UNEQUAL", "LTH", "LEQ", "GTH", "GEQ"}
Null == [t |-> "NULL"]
Sym(s) == [t |-> "SYMBOL", s |-> s]
Not(e) == [t |-> "NOT", l |-> e]
Two(t, a, b) == [t |-> t, l |-> a, r |-> b]
Comp(t, a, b) == [t |-> t, s |-> a, c |-> b]
expr_alloc_and(a, b) == IF a = Null THEN b ELSE IF b = Null THEN a ELSE Two("AND", a, b)
expr_alloc_or(a, b) == IF a = Null THEN b ELSE IF b = Null THEN a ELSE Two("OR", a, b)
expr_is_yes(e) == e = Null \/ e = Sym("y")

\* The expressions that nest to a depth.
Plain == {Null} \cup [t : {"SYMBOL"}, s : DOMAIN SymType] \cup [t : Relations, s : DOMAIN SymType, c : DOMAIN SymType]
Nested(E) == Plain \cup [t : {"NOT"}, l : E] \cup [t : {"AND", "OR"}, l : E, r : E]
NestedTo[n \in Nat] == IF n = 0 THEN Plain ELSE Nested(NestedTo[n - 1])

(* Evaluation. v gives the value of each symbol: [tri, str]. *)

\* What a string is read as, by the type of its symbol.
NumeralOf(n, kind) == IF n = NoNumber THEN [kind |-> "string", n |-> 0] ELSE [kind |-> kind, n |-> n]
expr_parse_string(str, type) ==
    IF type \in {"boolean", "tristate"}
    THEN [kind |-> "signed", n |-> CASE str = "n" -> 0 [] str = "m" -> 1 [] str = "y" -> 2 [] OTHER -> -1]
    ELSE NumeralOf(Number(str, CASE type = "int" -> 10 [] type = "hex" -> 16 [] OTHER -> 0),
                   IF type = "hex" THEN "unsigned" ELSE "signed")

\* A comparison of two numbers: as unsigned ones, the negative come last.
SignOf(a, b) == IF a > b THEN 1 ELSE IF a < b THEN -1 ELSE 0
UnsignedSignOf(a, b) == IF (a < 0) = (b < 0) THEN SignOf(a, b) ELSE IF a < 0 THEN 1 ELSE -1

Lesser(a, b) == IF a < b THEN a ELSE b
Greater(a, b) == IF a > b THEN a ELSE b

\* The order of two symbols as expr_calc_value compares them.
CompareNumbers(p, q) ==
    IF "unsigned" \in {p.kind, q.kind} THEN UnsignedSignOf(p.n, q.n) ELSE SignOf(p.n, q.n)
CompareParsed(p, q, str1, str2) ==
    IF "string" \in {p.kind, q.kind} THEN SignOf(Rank(str1), Rank(str2)) ELSE CompareNumbers(p, q)
CompareSyms(v, a, b) ==
    IF SymType[a] = "string" /\ SymType[b] = "string" THEN SignOf(Rank(v[a].str), Rank(v[b].str))
    ELSE CompareParsed(expr_parse_string(v[a].str, SymType[a]), expr_parse_string(v[b].str, SymType[b]),
                       v[a].str, v[b].str)

Holds(t, sign) ==
    CASE t = "EQUAL" -> sign = 0 [] t = "UNEQUAL" -> sign # 0
      [] t = "LTH" -> sign < 0   [] t = "LEQ" -> sign <= 0
      [] t = "GTH" -> sign > 0   [] t = "GEQ" -> sign >= 0

ValuesUnder(v) ==
    LET val[e \in Conditions] ==
          CASE e.t = "NOT" -> 2 - val[e.l]
            [] e.t = "NULL" -> yes
            [] e.t = "SYMBOL" -> v[e.s].tri
            [] e.t = "AND" -> Lesser(val[e.l], val[e.r])
            [] e.t = "OR" -> Greater(val[e.l], val[e.r])
            [] e.t \in Relations -> IF Holds(e.t, CompareSyms(v, e.s, e.c)) THEN yes ELSE no
    IN  val
expr_calc_value(e, v) == ValuesUnder(v)[e]

(* The operands of a chain of && or of ||, in the order of the recursions.     *)
LeavesBy(type) ==
    LET leaves[e \in Conditions] == IF e.t = type THEN leaves[e.l] \o leaves[e.r] ELSE <<e>>
    IN  leaves
Leaves(type, e) == LeavesBy(type)[e]

\* The chain e with its operands replaced.
ReplacedBy(type) ==
    LET with[e \in Conditions] ==
          [ls \in Seq(Conditions) |->
             IF e.t # type THEN ls[1]
             ELSE LET n == Len(Leaves(type, e.l))
                  IN  Two(type, with[e.l][SubSeq(ls, 1, n)], with[e.r][SubSeq(ls, n + 1, Len(ls))])]
    IN  with
WithLeaves(type, e, ls) == ReplacedBy(type)[e][ls]

\* The pairs of operands of two chains of n and m, the first chain outermost.
Pairs(n, m) == [k \in 1..(n * m) |-> <<((k - 1) \div m) + 1, ((k - 1) % m) + 1>>]
Neutral(type) == Sym(IF type = "OR" THEN "n" ELSE "y")

WithoutYn[e \in Conditions] ==
    IF e.t \notin {"AND", "OR"} THEN e
    ELSE LET l == WithoutYn[e.l]
             r == WithoutYn[e.r]
             zero == Sym(IF e.t = "AND" THEN "n" ELSE "y")
         IN  CASE l = zero \/ (r = zero /\ l # Neutral(e.t)) -> zero
               [] l = Neutral(e.t) -> r
               [] r = Neutral(e.t) /\ l # zero -> l
               [] OTHER -> Two(e.t, l, r)
expr_eliminate_yn(e) == WithoutYn[e]

(* Operands common to two expressions. eq says which operands are equal.        *)

\* Two equal operands of the two chains p[1] and p[2] both become neutral.
EliminatePair(eq, type, p, i, j) ==
    LET a == p[1][i]
        b == p[2][j]
    IN  IF ~(a = b /\ a \in {Sym("y"), Sym("n")}) /\ eq[<<a, b>>]
        THEN <<[p[1] EXCEPT ![i] = Neutral(type)], [p[2] EXCEPT ![j] = Neutral(type)]>>
        ELSE p
EliminatedIn(eq, type, p, ijs) ==
    LET left[k \in Nat] == IF k = 0 THEN p ELSE EliminatePair(eq, type, left[k - 1], ijs[k][1], ijs[k][2])
    IN  left
EliminatePairs(eq, type, p, ijs) == EliminatedIn(eq, type, p, ijs)[Len(ijs)]

\* The chains es[1] and es[2] with the operands ls.
WithBothLeaves(type, es, ls) == <<WithLeaves(type, es[1], ls[1]), WithLeaves(type, es[2], ls[2])>>
EliminateLeaves(eq, type, es, ls) ==
    WithBothLeaves(type, es, EliminatePairs(eq, type, ls, Pairs(Len(ls[1]), Len(ls[2]))))
EliminateChains(eq, type, es) == EliminateLeaves(eq, type, es, <<Leaves(type, es[1]), Leaves(type, es[2])>>)

BothWithoutYn(es) == <<expr_eliminate_yn(es[1]), expr_eliminate_yn(es[2])>>
\* The chain of the second, when it is another one than the first.
EliminateSecond(eq, es) ==
    IF es[1].t # es[2].t /\ es[2].t \in {"OR", "AND"} THEN EliminateChains(eq, es[2].t, es) ELSE es
EliminateCommon(eq, e1, e2) ==
    IF Null \in {e1, e2} THEN <<e1, e2>>
    ELSE BothWithoutYn(EliminateSecond(eq, IF e1.t \in {"OR", "AND"} THEN EliminateChains(eq, e1.t, <<e1, e2>>)
                                           ELSE <<e1, e2>>))

SameSymbolLeft(rest) == rest[1].t = "SYMBOL" /\ rest[1] = rest[2]
EqualBy(eq, e1, e2) ==
    /\ e1.t = e2.t
    /\ CASE e1.t \in Relations \cup {"SYMBOL"} -> e1 = e2
         [] e1.t = "NOT" -> eq[<<e1.l, e2.l>>]
         [] e1.t \in {"AND", "OR"} -> SameSymbolLeft(EliminateCommon(eq, e1, e2))
         [] OTHER -> FALSE
Equal[n \in Nat] ==
    IF n = 0 THEN [es \in Conditions \X Conditions |-> FALSE]
    ELSE [es \in Conditions \X Conditions |-> EqualBy(Equal[n - 1], es[1], es[2])]

\* Equality up to the order of the operands.
expr_eq(e1, e2) == Equal[MaxCalls][<<e1, e2>>]
\* (A bug: what is left of the first expression alone decides.)
EliminateWithin(e1, e2) == IF e2.t = "OR" THEN <<e1, Sym("y")>> ELSE <<e1, e2>>
\* The pair of expressions without their common operands.
expr_eliminate_eq(e1, e2) == EliminateCommon(Equal[MaxCalls], e1, e2)

(* Simplification of pairs of operands: the joined operand, or Null. *)

\* FOO!=n becomes FOO: applied to the conditions of properties of symbols that
\* are not tristate.
TransBool[e \in Conditions] ==
    CASE e.t \in {"AND", "OR"} -> Two(e.t, TransBool[e.l], TransBool[e.r])
      [] e.t = "NOT" -> Not(TransBool[e.l])
      [] e.t = "UNEQUAL" -> IF SymType[e.s] = "tristate" /\ e.c = "n" THEN Sym(e.s) ELSE e
      [] OTHER -> e
expr_trans_bool(e) == TransBool[e]

Joinable == {"EQUAL", "UNEQUAL", "SYMBOL", "NOT"}
\* Both operands are about one bool or tristate symbol, negated or not.
SameSymbol(e1, e2) ==
    /\ e1.t \in Joinable /\ e2.t \in Joinable
    /\ e1.t = "NOT" => e1.l.t \in {"EQUAL", "UNEQUAL", "SYMBOL"}
    /\ e2.t = "NOT" => e2.l.t = "SYMBOL"
    /\ LET sym1 == IF e1.t = "NOT" THEN e1.l.s ELSE e1.s
           sym2 == IF e2.t = "NOT" THEN e2.l.s ELSE e2.s
       IN  sym1 = sym2 /\ SymType[sym1] \in {"boolean", "tristate"}
SubjectOf(e) == IF e.t = "NOT" THEN e.l.s ELSE e.s
\* Both are comparisons of type t, with c1 and c2 in either order.
BothCompare(e1, e2, t, c1, c2) == e1.t = t /\ e2.t = t /\ {e1.c, e2.c} = {c1, c2} /\ e1.c # e2.c
\* One is the symbol itself, the other compares it with c.
SymbolAnd(e1, e2, t, c) == \/ e1.t = "SYMBOL" /\ e2.t = t /\ e2.c = c
                           \/ e2.t = "SYMBOL" /\ e1.t = t /\ e1.c = c
Third(c1, c2) == CHOOSE c \in {"y", "m", "n"} : c \notin {c1, c2}
TwoOf == {<<"y", "m">>, <<"y", "n">>, <<"m", "n">>}

expr_join_or(e1, e2) ==
    LET a == SubjectOf(e1)
        negated == \/ e1.t = "NOT" /\ e1.l.t = "SYMBOL" /\ e2.t = "SYMBOL"
                   \/ e2.t = "NOT" /\ e2.l.t = "SYMBOL" /\ e1.t = "SYMBOL"
    IN  IF expr_eq(e1, e2) THEN e1
        ELSE IF ~SameSymbol(e1, e2) THEN Null
        ELSE CASE SymType[a] = "tristate" /\ (\E p \in TwoOf : BothCompare(e1, e2, "EQUAL", p[1], p[2])) ->
                    Comp("UNEQUAL", a, Third(e1.c, e2.c))
               [] SymType[a] = "boolean" /\ negated -> Sym("y")
               [] OTHER -> Null

\* a='b' and a!='c', both constants.
EqualAndUnequal(e1, e2) ==
    /\ e1.t = "EQUAL" /\ e2.t = "UNEQUAL" /\ {e1.c, e2.c} \subseteq ConstSyms
JoinEqualAndUnequal(e1, e2) == IF e1.c # e2.c THEN Comp("EQUAL", e1.s, e1.c) ELSE Sym("n")

expr_join_and(e1, e2) ==
    LET a == SubjectOf(e1)
        tri == SymType[a] = "tristate"
    IN  IF expr_eq(e1, e2) THEN e1
        ELSE IF ~SameSymbol(e1, e2) THEN Null
        ELSE CASE SymbolAnd(e1, e2, "EQUAL", "y") -> Comp("EQUAL", a, "y")
               [] SymbolAnd(e1, e2, "UNEQUAL", "n") -> Sym(a)
               [] SymbolAnd(e1, e2, "UNEQUAL", "m") -> Comp("EQUAL", a, "y")
               [] tri /\ EqualAndUnequal(e1, e2) -> JoinEqualAndUnequal(e1, e2)
               [] tri /\ EqualAndUnequal(e2, e1) -> JoinEqualAndUnequal(e2, e1)
               [] tri /\ \E p \in TwoOf : BothCompare(e1, e2, "UNEQUAL", p[1], p[2]) ->
                    Comp("EQUAL", a, Third(e1.c, e2.c))
               [] OTHER -> Null

(* Duplicates within one chain: each operand against every other one, first    *)
(* simplified itself by inner. A pass gives the expression and the count of     *)
(* joins.                                                                        *)
expr_join(type, e1, e2) == IF type = "OR" THEN expr_join_or(e1, e2) ELSE expr_join_and(e1, e2)

\* Operand i of the chain, now x, and operand j become join, if that is one.
Joined(type, p, i, j, x, join) ==
    IF join = Null THEN [ls |-> [p.ls EXCEPT ![i] = x.e], count |-> p.count + x.count]
    ELSE [ls |-> [p.ls EXCEPT ![i] = Neutral(type), ![j] = join], count |-> p.count + x.count + 1]
JoinSimplified(type, p, i, j, x) == Joined(type, p, i, j, x, expr_join(type, x.e, p.ls[j]))
JoinPair(inner, type, p, i, j) == IF i = j THEN p ELSE JoinSimplified(type, p, i, j, inner[p.ls[i]])
JoinedIn(inner, type, p, ijs) ==
    LET done[k \in Nat] == IF k = 0 THEN p ELSE JoinPair(inner, type, done[k - 1], ijs[k][1], ijs[k][2])
    IN  done
JoinPairs(inner, type, p, ijs) == JoinedIn(inner, type, p, ijs)[Len(ijs)]

Rejoined(type, e, done) == [e |-> WithLeaves(type, e, done.ls), count |-> done.count]
JoinLeaves(inner, type, e, ls) ==
    Rejoined(type, e, JoinPairs(inner, type, [ls |-> ls, count |-> 0], Pairs(Len(ls), Len(ls))))
AsItIs(e) == [e |-> e, count |-> 0]
Joins[n \in Nat] ==
    IF n = 0 THEN [e \in Conditions |-> AsItIs(e)]
    ELSE [e \in Conditions |->
            IF e.t \in {"AND", "OR"} THEN JoinLeaves(Joins[n - 1], e.t, e, Leaves(e.t, e)) ELSE AsItIs(e)]
expr_eliminate_dups1(e) == Joins[MaxCalls][e]

\* Until a pass joins nothing.
NextPass(passes, pass) == IF pass.count = 0 THEN pass.e ELSE passes[expr_eliminate_yn(pass.e)]
Passes[n \in Nat] ==
    IF n = 0 THEN [e \in Conditions |-> e]
    ELSE [e \in Conditions |->
            IF e.t \in {"AND", "OR"} THEN NextPass(Passes[n - 1], expr_eliminate_dups1(e)) ELSE e]
expr_eliminate_dups(e) == Passes[MaxCalls][e]

(* Negations are pushed to the symbols; a bool compared with a constant is the *)
(* symbol or its negation.                                                     *)
Opposite == [EQUAL |-> "UNEQUAL", UNEQUAL |-> "EQUAL", LEQ |-> "GTH", GEQ |-> "LTH",
             LTH |-> "GEQ", GTH |-> "LEQ"]

\* A bool symbol compared by = with a constant.
BoolEqual(s, c) == CASE c = "n" -> Not(Sym(s)) [] c = "m" -> Sym("n") [] c = "y" -> Sym(s)
BoolUnequal(s, c) == CASE c = "n" -> Sym(s) [] c = "m" -> Sym("y") [] c = "y" -> Not(Sym(s))
\* (A bug: the negation of m is taken for y, as that of n.)
NotSymTwoValued(s) == CASE s = "y" -> Sym("n") [] s \in {"n", "m"} -> Sym("y") [] OTHER -> Not(Sym(s))

NotSym(s) == CASE s = "y" -> Sym("n") [] s = "n" -> Sym("y") [] s = "m" -> Sym("m") [] OTHER -> Not(Sym(s))

TransformBy(tr, e) ==
    LET l == tr[e.l]
        bool == SymType[e.s] = "boolean" /\ e.c \in {"y", "m", "n"}
    IN  CASE e.t = "EQUAL" -> IF bool THEN BoolEqual(e.s, e.c) ELSE e
          [] e.t = "UNEQUAL" -> IF bool THEN BoolUnequal(e.s, e.c) ELSE e
          [] e.t \in {"AND", "OR"} -> Two(e.t, l, tr[e.r])
          [] e.t = "NOT" /\ l.t = "NOT" -> tr[l.l]
          [] e.t = "NOT" /\ l.t \in Relations -> Comp(Opposite[l.t], l.s, l.c)
          [] e.t = "NOT" /\ l.t = "OR" -> tr[Two("AND", Not(l.l), Not(l.r))]
          [] e.t = "NOT" /\ l.t = "AND" -> tr[Two("OR", Not(l.l), Not(l.r))]
          [] e.t = "NOT" /\ l.t = "SYMBOL" -> NotSym(l.s)
          [] OTHER -> e
Transformed[n \in Nat] ==
    IF n = 0 THEN [e \in Conditions |-> e] ELSE [e \in Conditions |-> TransformBy(Transformed[n - 1], e)]
expr_transform(e) == Transformed[MaxCalls][e]

\* The expression compared with sym: the test of it being n is type EQUAL and
\* sym n, of it not being n type UNEQUAL.
ComparedWith(sym) ==
    LET compare[e \in Conditions] ==
          [type \in {"EQUAL", "UNEQUAL"} |->
             LET negate(x) == IF type = "UNEQUAL" THEN Not(x) ELSE x
                 parts(t) == Two(t, compare[e.l]["EQUAL"], compare[e.r]["EQUAL"])
             IN  CASE e.t = "NULL" -> negate(Sym(sym))
                   [] e.t = "AND" -> negate(CASE sym = "y" -> parts("AND") [] sym = "n" -> parts("OR") [] OTHER -> e)
                   [] e.t = "OR" -> negate(CASE sym = "y" -> parts("OR") [] sym = "n" -> parts("AND") [] OTHER -> e)
                   [] e.t = "NOT" -> compare[e.l][IF type = "EQUAL" THEN "UNEQUAL" ELSE "EQUAL"]
                   [] e.t \in Relations ->
                        IF sym = "y" THEN negate(e)
                        ELSE IF sym = "m" THEN Sym(IF type = "EQUAL" THEN "n" ELSE "y")
                        ELSE IF type = "EQUAL" THEN Not(e) ELSE e
                   [] e.t = "SYMBOL" -> Comp(type, e.s, sym)]
    IN  compare
expr_trans_compare(e, type, sym) == ComparedWith(sym)[e][type]

expr_contains_symbol(e, s) ==
    LET in[x \in Conditions] ==
          CASE x.t \in {"AND", "OR"} -> in[x.l] \/ in[x.r]
            [] x.t = "NOT" -> in[x.l]
            [] x.t = "SYMBOL" -> x.s = s
            [] x.t \in Relations -> s \in {x.s, x.c}
            [] OTHER -> FALSE
    IN  in[e]

\* The expression is n whenever the symbol is.
DependingOn(s) ==
    LET on[e \in Conditions] ==
          CASE e.t = "AND" -> on[e.l] \/ on[e.r]
            [] e.t = "SYMBOL" -> e.s = s
            [] e.t = "EQUAL" -> e.s = s /\ e.c \in {"y", "m"}
            [] e.t = "UNEQUAL" -> e.s = s /\ e.c = "n"
            [] OTHER -> FALSE
    IN  on
expr_depends_symbol(e, s) == DependingOn(s)[e]

(* The text of an expression, token by token, with the parentheses expr_print  *)
(* writes: those for which the operator around binds tighter.                  *)
Token == [EQUAL |-> "=", UNEQUAL |-> "!=", LTH |-> "<", LEQ |-> "<=", GTH |-> ">", GEQ |-> ">="]
\* (A bug: operators bind by their numbers, || as tight as &&.)
CompareLoosely(t1, t2) == t1 = "NOT" /\ t2 \in {"AND", "OR"}

LevelOf(t) == CASE t \in {"LTH", "LEQ", "GTH", "GEQ"} -> 5 [] t \in {"EQUAL", "UNEQUAL"} -> 4
                [] t = "NOT" -> 3 [] t = "AND" -> 2 [] t = "OR" -> 1 [] OTHER -> 0
\* t1 binds tighter than t2.
expr_compare_type(t1, t2) ==
    LevelOf(t1) # 0 /\ LevelOf(t2) # 0 /\ LevelOf(t1) > LevelOf(t2)

\* e, with its operands as printed, and with the parentheses it needs after prevtoken.
WordsOf(printed, e) ==
    CASE e.t = "NULL" -> <<"y">>
      [] e.t = "NOT" -> <<"!">> \o printed[e.l]["NOT"]
      [] e.t = "SYMBOL" -> <<e.s>>
      [] e.t \in Relations -> <<e.s, Token[e.t], e.c>>
      [] e.t = "OR" -> printed[e.l]["OR"] \o <<"||">> \o printed[e.r]["OR"]
      [] e.t = "AND" -> printed[e.l]["AND"] \o <<"&&">> \o printed[e.r]["AND"]
Enclosing(prevtoken, t, words) ==
    IF expr_compare_type(prevtoken, t) THEN <<"(">> \o words \o <<")">> ELSE words
Printed[e \in Conditions] ==
    [prevtoken \in {"NONE", "NOT", "AND", "OR"} |-> Enclosing(prevtoken, e.t, WordsOf(Printed, e))]
expr_print(e, prevtoken) == Printed[e][prevtoken]
================================================================================
