------------------------------ MODULE KconfigTypes ------------------------------
(* The types of the symbols, and the text that is valid for each                  *)
(* (support/kconfig/symbol.c, confdata.c).                                        *)
EXTENDS Integers

CONSTANTS
    SymType,        \* the type of each symbol, constants and undefined ones "unknown"
    Number(_, _),   \* what strtoll/strtoull reads in a string, by base, or NoNumber
    NoNumber,
    ChoiceSyms      \* the symbols that stand for choices, which have no name

NoStr == "no string"
Bool(type) == type \in {"boolean", "tristate"}
Known(s) == s \in DOMAIN SymType /\ SymType[s] # "unknown"

\* A string that can be read as the type of the symbol.
BaseOf(s) == IF SymType[s] = "hex" THEN 16 ELSE 10
sym_string_valid(s, str) == SymType[s] = "string" \/ Number(str, BaseOf(s)) # NoNumber

\* A value for a symbol, NoStr if it is invalid for the type.
conf_set_sym_val(s, v) ==
    CASE SymType[s] = "tristate" -> IF v \in {"y", "m", "n"} THEN v ELSE NoStr
      [] SymType[s] = "boolean" -> IF v \in {"y", "n"} THEN v ELSE NoStr
      [] OTHER -> IF sym_string_valid(s, v) THEN v ELSE NoStr
================================================================================
