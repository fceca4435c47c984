-------------------------------- MODULE MCDialogs --------------------------------
(* Dialogs on menus of up to six items with two hotkeys, windows of one to five   *)
(* rows, a list of three rows, a field of three columns and texts of up to six    *)
(* lines.                                                                          *)
EXTENDS Dialogs

MCLists == {[i \in 1..n |-> IF i % 3 = 1 THEN "s" ELSE "b"] : n \in 0..6}
Ended(n) == [newlines |-> n, unended |-> FALSE]
MCTexts == {Ended(1), Ended(3), Ended(6), [newlines |-> 0, unended |-> TRUE], [newlines |-> 3, unended |-> TRUE]}
==================================================================================
