--------------------------- MODULE MCKconfigLanguage ----------------------------
(* KconfigLanguage on three bools, a tristate and a number: conditions over them *)
(* and their comparisons, and small files with blocks and a choice.              *)
EXTENDS KconfigLanguage

MCTypes == [y |-> "unknown", m |-> "unknown", n |-> "unknown", five |-> "unknown",
            A |-> "boolean", B |-> "boolean", C |-> "boolean", T |-> "tristate", N |-> "int"]
MCConst == {"y", "m", "n", "five"}
MCNumber(str, base) == CASE str = "3" -> 3 [] str = "5" -> 5 [] str = "7" -> 7 [] OTHER -> NoNumber
MCRank(str) == CASE str = "3" -> 1 [] str = "5" -> 2 [] str = "7" -> 3
                 [] str = "m" -> 4 [] str = "n" -> 5 [] str = "y" -> 6
Tri(x) == [tri |-> x, str |-> CASE x = 0 -> "n" [] x = 1 -> "m" [] x = 2 -> "y"]
Num(x) == [tri |-> 0, str |-> x]
\* The number counts in the conditions, B and C in the files.
MCValuations ==
    {[y |-> Tri(2), m |-> Tri(1), n |-> Tri(0), five |-> Num("5"),
      A |-> Tri(v[1]), T |-> Tri(v[2]), N |-> Num(v[3]), B |-> Tri(v[4]), C |-> Tri(v[5])] :
        v \in ({0, 2} \X (0..2) \X {"3", "5", "7"} \X {0} \X {0})
              \cup ({0, 2} \X (0..2) \X {"3"} \X {0, 2} \X {0, 2})}

\* Conditions.
MCConditions == NestedTo[12]
Atoms == {Sym("A"), Sym("T"), Sym("m"), Not(Sym("A")), Not(Sym("T"))}
Tests == {Comp("EQUAL", "T", "y"), Comp("EQUAL", "T", "m"), Comp("UNEQUAL", "T", "n"), Comp("UNEQUAL", "T", "m"),
          Comp("UNEQUAL", "T", "y"), Comp("EQUAL", "A", "m"), Comp("UNEQUAL", "A", "y"), Comp("LTH", "N", "five")}
Leaf == Atoms \cup Tests
Pairs2(X, Y) == {Two(t, x, z) : t \in {"AND", "OR"}, x \in X, z \in Y}
FlatPairs == Pairs2(Leaf, Leaf)
Some == Pairs2({Sym("A"), Comp("EQUAL", "T", "y")}, {Sym("T"), Not(Sym("A")), Comp("UNEQUAL", "T", "n")})
Deeper == Pairs2(Some, Leaf) \cup {Not(x) : x \in Some} \cup {Not(Not(x)) : x \in Some}
            \cup Pairs2(Some, {x \in Some : x.t = "AND"}) \cup {Two(t, Not(x), Sym("A")) : t \in {"AND", "OR"}, x \in Some}
MCDeps == Leaf \cup FlatPairs \cup Deeper \cup {Not(Sym("m")), Not(Comp("LTH", "N", "five"))}
MCBases == {Null, Sym("T"), Sym("A"), Comp("UNEQUAL", "T", "n")}
             \cup {Two("AND", Sym("A"), Comp("EQUAL", "T", "y")), Two("OR", Sym("A"), Sym("T"))}

\* Statements.
Depends(e) == IF e = Null THEN <<>> ELSE <<[o |-> "depends", cond |-> e]>>
Prompt(e) == <<[o |-> "PROMPT", expr |-> Null, cond |-> e]>>
Default(e, c) == <<[o |-> "DEFAULT", expr |-> e, cond |-> c]>>
Select(s, c) == <<[o |-> "SELECT", expr |-> Sym(s), cond |-> c]>>
Config(s, opts) == [k |-> "config", s |-> s, opts |-> opts]
If(e) == [k |-> "if", opts |-> Depends(e)]
Menu(e) == [k |-> "menu", opts |-> <<[o |-> "MENU", expr |-> Null, cond |-> Null]>> \o e]
Comment(e) == [k |-> "comment", s |-> NoSym, opts |-> <<[o |-> "COMMENT", expr |-> Null, cond |-> Null]>> \o Depends(e)]
Choice(opts) == [k |-> "choice", s |-> "C", opts |-> opts]
End == [k |-> "end"]

Conds == {Null, Sym("A"), Not(Sym("A")), Two("OR", Sym("A"), Sym("T")), Comp("UNEQUAL", "T", "n"), Sym("m"),
          Two("AND", Sym("T"), Sym("A"))}
Few == {Null, Sym("A"), Two("OR", Sym("A"), Sym("T"))}
As == {Config("A", Prompt(Null)), Config("A", Prompt(Sym("B"))), Config("A", Default(Sym("B"), Null)),
       Config("A", Prompt(Null) \o Select("B", Sym("T")))}
Ts == {Config("T", Prompt(c) \o Depends(d)) : c \in {Null, Sym("B")}, d \in Conds}
Bs == {Config("B", Prompt(Null) \o Depends(d)) : d \in Conds}
        \cup {Config("B", Depends(d) \o Default(Sym("T"), d)) : d \in Few}
        \cup {Config("B", Prompt(Null) \o Select("T", d)) : d \in Few}

\* Entries one after the other; an if, a menu or a choice around one or two of
\* them; one in the other.
Flat == {<<a, t, b>> : a \in As, t \in Ts, b \in Bs}
Blocks == {If(Sym("A")), If(Two("OR", Sym("A"), Sym("T"))), Menu(Depends(Sym("A"))),
           Menu(<<[o |-> "visible", cond |-> Sym("T")]>>)}
As1 == {Config("A", Prompt(Null)), Config("A", Prompt(Null) \o Select("B", Sym("T")))}
Ts1 == {Config("T", Prompt(Null)), Config("T", Prompt(Sym("B")) \o Depends(Sym("A")))}
Bs1 == {Config("B", Prompt(Null) \o Depends(Two("OR", Sym("A"), Sym("T")))), Config("B", Prompt(Sym("m"))),
        Config("B", Depends(Sym("A")) \o Default(Sym("T"), Null)), Config("B", Prompt(Null) \o Select("T", Null))}
InBlock == UNION {{<<a, k, t, b, End>>, <<a, k, t, End, b>>, <<k, a, t, End, b>>,
                   <<a, k, Comment(Sym("A")), If(Sym("T")), b, End, End, t>>} :
                     a \in As1, k \in Blocks, t \in Ts1, b \in Bs1}
ChoiceBlocks == {Choice(Prompt(Null)), Choice(Prompt(Sym("T"))),
                 Choice(Prompt(Null) \o Default(Sym("B"), Null))}
InChoice == UNION {{<<t, k, a, b, End>>, <<k, a, b, End, t>>, <<k, a, If(Sym("A")), b, End, End, t>>} :
                    a \in As1, k \in ChoiceBlocks, t \in Ts1, b \in Bs1}
MCFiles == Flat \cup InBlock \cup InChoice
=================================================================================
