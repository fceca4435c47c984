------------------------------ MODULE DialogResults ------------------------------
(* What the dialogs of support/kconfig/lxdialog that show a list promise to their *)
(* caller, mconf: a result and the item it is about, numbered from 0.              *)
EXTENDS Integers

NoItem == -1
KEY_ESC == "esc"
ERRDISPLAYTOOSMALL == "too small"

Promise(results, items) == [res : results, item : items]
NoChoice(results) == Promise(results, {NoItem})
MenuKeys == {"select", "exit", "help", "save", "load", "yes", "no", "mod", "toggle", "search", "all"}
MenuPromise(count) ==
    NoChoice({KEY_ESC, ERRDISPLAYTOOSMALL})
    \cup Promise(MenuKeys, IF count = 0 THEN {NoItem} ELSE 0..(count - 1))
ListPromise(count) ==
    NoChoice({KEY_ESC, ERRDISPLAYTOOSMALL}) \cup Promise({"ok", "help"}, 0..(count - 1))
==================================================================================
