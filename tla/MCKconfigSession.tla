---------------------------- MODULE MCKconfigSession ----------------------------
(* Small configuration languages over a switch for modules, a bool, a tristate,  *)
(* a hidden symbol, a choice of two and a number.                               *)
EXTENDS KconfigSession

MCTypes == [y |-> "unknown", m |-> "unknown", n |-> "unknown",
            M |-> "boolean", A |-> "boolean", T |-> "tristate", H |-> "tristate",
            C |-> "boolean", V |-> "tristate", W |-> "boolean", N |-> "int"]
             @@ [s \in {"1", "3", "5"} |-> "unknown"]
MCConst == {"y", "m", "n", "1", "3", "5"}
MCNumber(str, base) == CASE str = "1" -> 1 [] str = "3" -> 3 [] str = "5" -> 5
                         [] str = "7" -> 7 [] OTHER -> NoNumber
MCDecimal(x) == CASE x = 1 -> "1" [] x = 3 -> "3" [] x = 5 -> "5" [] x = 7 -> "7"
MCPrefixed(str) == str
MCRank(str) == CASE str = "1" -> 1 [] str = "3" -> 3 [] str = "5" -> 5
                 [] str = "7" -> 7 [] str = "m" -> 8 [] str = "n" -> 9 [] str = "y" -> 10 [] OTHER -> 11
MCHashOrder == <<"N", "W", "H", "V", "T", "C", "A", "M">>

Depends(e) == <<[o |-> "depends", cond |-> e]>>
Prompt(e) == <<[o |-> "PROMPT", expr |-> Null, cond |-> e]>>
Default(e, c) == <<[o |-> "DEFAULT", expr |-> e, cond |-> c]>>
Select(s, c) == <<[o |-> "SELECT", expr |-> Sym(s), cond |-> c]>>
Imply(s, c) == <<[o |-> "IMPLY", expr |-> Sym(s), cond |-> c]>>
RangeOpt(a, b, c) == <<[o |-> "RANGE", expr |-> [t |-> "RANGE", s |-> a, c |-> b], cond |-> c]>>
Config(s, opts) == [k |-> "config", s |-> s, opts |-> opts]
Menu(e) == [k |-> "menu", opts |-> <<[o |-> "MENU", expr |-> Null, cond |-> Null]>> \o e]
Choice(opts) == [k |-> "choice", s |-> "C", opts |-> opts]
End == [k |-> "end"]
P == Prompt(Null)

Modules == Config("M", P)
\* Selects, implies, a hidden default, a submenu.
Limits == <<Modules, Config("A", P \o Select("T", Null)), Config("T", Prompt(Sym("M")) \o Imply("V", Null)),
            Config("W", P \o Depends(Sym("T")) \o Default(Sym("y"), Null)),
            Config("V", P \o Default(Sym("m"), Sym("A"))), Config("H", Default(Sym("T"), Sym("V")) \o Depends(Sym("T")))>>
\* A choice of two bools.
Chosen == <<Modules, Config("A", P), Config("T", P \o Default(Sym("m"), Null)),
            Choice(P \o Default(Sym("W"), Sym("A"))), Config("V", P), Config("W", Prompt(Sym("T"))), Config("H", P \o Depends(Sym("A"))), End>>
\* Numbers, a menu that needs one.
Numbers == <<Config("A", P), Config("N", P \o RangeOpt("1", "3", Sym("A")) \o RangeOpt("3", "5", Null) \o Default(Sym("1"), Null)),
             Menu(Depends(Comp("LTH", "N", "3"))), Config("W", P \o Default(Sym("y"), Null)), Config("T", P \o Depends(Sym("W"))), End>>
MCTrees == {conf_parse(k) : k \in {Limits, Chosen, Numbers}}
L(s, v) == Line(s, v)
MCConfigs == {<<L("M", "y"), L("A", NotSet), L("T", "m"), L("V", "m"), L("N", "5"), L("W", NotSet)>>,
              <<L("A", "y"), L("T", "y"), L("H", "y"), L("W", "y"), L("N", "3")>>,
              <<L("N", "7"), L("T", "m"), L("V", "y")>>}
\* Everything on, all choices m, and each symbol on its own.
Roll(on, t, pick) == [tri |-> [s \in {"M", "A", "T", "H", "C", "V", "W", "N"} |-> IF s \in on THEN t ELSE 0], pick |-> pick]
MCRolls == {Roll({"M", "A", "T", "H", "C", "V", "W"}, t, pick) : t \in {0, 1, 2}, pick \in {0, 1}}
             \cup {Roll({"M", "T", "V"}, 2, 0), Roll({"A", "H", "W"}, 2, 1)}
MCStrings == {"1", "5", "7"}
MCConditions == NestedTo[12]
================================================================================
