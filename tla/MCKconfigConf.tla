------------------------------ MODULE MCKconfigConf ------------------------------
(* conf on a menu with a tristate that needs a value of the choice after it, a   *)
(* bool and a number below it, the choice of two, and a string that comes from   *)
(* the environment.                                                              *)
EXTENDS KconfigConf

MCTypes == [y |-> "unknown", m |-> "unknown", n |-> "unknown",
            A |-> "boolean", H |-> "tristate", M |-> "boolean", C |-> "boolean", V |-> "boolean", W |-> "boolean",
            N |-> "int", E |-> "string"] @@ [s \in {"1", "3"} |-> "unknown"]
MCConst == {"y", "m", "n", "1", "3"}
MCNumber(str, base) == CASE str = "1" -> 1 [] str = "3" -> 3 [] str = "7" -> 7 [] OTHER -> NoNumber
MCDecimal(x) == CASE x = 1 -> "1" [] x = 3 -> "3" [] x = 7 -> "7"
MCPrefixed(str) == str
MCRank(str) == CASE str = "1" -> 1 [] str = "3" -> 3 [] str = "7" -> 7 [] str = "m" -> 8 [] str = "n" -> 9 [] str = "y" -> 10 [] OTHER -> 11
MCHashOrder == <<"N", "W", "H", "V", "M", "E", "C", "A">>

P == <<[o |-> "PROMPT", expr |-> Null, cond |-> Null]>>
Depends(e) == <<[o |-> "depends", cond |-> e]>>
Default(e) == <<[o |-> "DEFAULT", expr |-> e, cond |-> Null]>>
Limits(a, b) == <<[o |-> "RANGE", expr |-> [t |-> "RANGE", s |-> a, c |-> b], cond |-> Null]>>
Select(s) == <<[o |-> "SELECT", expr |-> Sym(s), cond |-> Null]>>
Config(s, opts) == [k |-> "config", s |-> s, opts |-> opts]
Menu == [k |-> "menu", opts |-> <<[o |-> "MENU", expr |-> Null, cond |-> Null]>>]
Choice(opts) == [k |-> "choice", s |-> "C", opts |-> opts]
End == [k |-> "end"]
MCKconfig == <<Config("E", Default(Sym("3"))), Config("M", Default(Sym("y"))), Menu, Config("H", P \o Depends(Sym("V"))), End,
               Config("A", P \o Select("H")), Config("N", P \o Depends(Sym("A")) \o Limits("1", "3") \o Default(Sym("1"))),
               Choice(P), Config("V", P), Config("W", P \o Depends(Sym("A"))), End>>
MCTree == conf_parse(MCKconfig)
L(s, v) == Line(s, v)
MCConfigs == {None, <<L("A", "y"), L("V", "y"), L("W", NotSet)>>}
MCNamed == {None, <<L("A", "y"), L("N", "3"), L("W", "y")>>}
Roll(on, pick) == [tri |-> [s \in {"A", "H", "M", "C", "V", "W", "N", "E"} |-> IF s \in on THEN 2 ELSE 0], pick |-> pick]
MCRolls == {Roll({"A", "H", "W"}, 0), Roll({"C", "V"}, 1)}
MCReplies == {"", "y", "m", "n", "7", "?"}
MCConditions == NestedTo[12]
================================================================================
