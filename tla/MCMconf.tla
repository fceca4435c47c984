--------------------------------- MODULE MCMconf ---------------------------------
(* menuconfig over a symbol with a menu of its own, a choice of two with a number   *)
(* below one of its values, and a menu that is empty unless its tristate can be m. *)
EXTENDS Mconf

MCTypes == [y |-> "unknown", m |-> "unknown", n |-> "unknown",
            M |-> "boolean", A |-> "boolean", B |-> "boolean", T |-> "tristate",
            C |-> "boolean", V |-> "boolean", W |-> "boolean", N |-> "int"]
             @@ [s \in {"1", "3"} |-> "unknown"]
MCConst == {"y", "m", "n", "1", "3"}
MCNumber(str, base) == CASE str = "1" -> 1 [] str = "3" -> 3 [] str = "7" -> 7 [] OTHER -> NoNumber
MCDecimal(x) == CASE x = 1 -> "1" [] x = 3 -> "3" [] x = 7 -> "7"
MCPrefixed(str) == str
MCHashOrder == <<"W", "T", "N", "V", "B", "C", "A", "M">>
MCRank(str) == CASE str = "A" -> 1 [] str = "B" -> 2 [] str = "C" -> 3 [] str = "M" -> 4 [] str = "N" -> 5
                 [] str = "T" -> 6 [] str = "V" -> 7 [] str = "W" -> 8 [] OTHER -> 9

Option(o, e, c) == <<[o |-> o, expr |-> e, cond |-> c]>>
Prompt(c) == Option("PROMPT", Null, c)
Config(s, opts) == [k |-> "config", s |-> s, opts |-> opts]
Menu(opts) == [k |-> "menu", opts |-> Option("MENU", Null, Null) \o opts]
End == [k |-> "end"]
Depends(e) == <<[o |-> "depends", cond |-> e]>>
Limits(a, b) == Option("RANGE", [t |-> "RANGE", s |-> a, c |-> b], Null)
MCKconfig ==
    <<Config("M", Option("DEFAULT", Sym("y"), Null)),
      Config("A", Option("MENU", Null, Null)),
      Config("B", Prompt(Null) \o Depends(Sym("A"))),
      Menu(<<>>), [k |-> "choice", s |-> "C", opts |-> Prompt(Null)],
                  Config("V", Prompt(Null)),
                  Config("N", Prompt(Null) \o Depends(Sym("V")) \o Option("DEFAULT", Sym("3"), Sym("B")) \o Limits("1", "3")),
                  Config("W", Prompt(Sym("A"))), End, End,
      Menu(<<>>), Config("T", Prompt(Sym("m")) \o Depends(Sym("B"))), End>>
MCTree == conf_parse(MCKconfig)
MCDisks == {[config |-> NoFile, alt |-> NoFile, nodir |-> NoFile],
            [config |-> <<Line("A", "y"), Line("V", "y")>>, alt |-> <<Line("B", "y"), Line("N", "3")>>, nodir |-> NoFile]}
MCSearches == <<[all |-> {"B", "N", "W"}, exact |-> {"W"}], [all |-> {}, exact |-> {}]>>
MCConditions == NestedTo[12]
==================================================================================
