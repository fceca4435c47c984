--------------------------------- MODULE Dialogs ---------------------------------
(* The dialogs of support/kconfig/lxdialog under any caller: one of them is called *)
(* again and again, with any arguments, keys and sizes of the terminal.            *)
EXTENDS Menubox, Checklist, Inputbox, Textbox, Yesno

vars == <<lines, menu, list, input, text, yesno>>

MenuUnused == menu = MenuClosed(KEY_ESC, 0, NoItem)
ListUnused == list = ListClosed(KEY_ESC, NoItem)
InputUnused == input = InputClosed(KEY_ESC, 0, FALSE)
TextUnused == text = TextClosed("exit", 0, 0)
YesnoUnused == yesno = YesnoClosed(KEY_ESC)

Init == MenuInit /\ ListInit /\ InputInit /\ TextInit /\ YesnoInit
Next == \/ /\ ListUnused /\ InputUnused /\ TextUnused /\ YesnoUnused
           /\ MenuNext /\ UNCHANGED <<list, input, text, yesno>>
        \/ /\ MenuUnused /\ InputUnused /\ TextUnused /\ YesnoUnused
           /\ ListNext /\ UNCHANGED <<menu, input, text, yesno>>
        \/ /\ MenuUnused /\ ListUnused /\ TextUnused /\ YesnoUnused
           /\ InputNext /\ UNCHANGED <<menu, list, text, yesno>>
        \/ /\ MenuUnused /\ ListUnused /\ InputUnused /\ YesnoUnused
           /\ TextNext /\ UNCHANGED <<menu, list, input, yesno>>
        \/ /\ MenuUnused /\ ListUnused /\ InputUnused /\ TextUnused
           /\ YesnoNext /\ UNCHANGED <<menu, list, input, text>>
Spec == Init /\ [][Next]_vars

\* What a caller relies on: it gets an item of the list, unless it gets no item
\* (mconf.c:686-741, 833-846).
KeepsPromises == MenuKeepsPromise /\ ListKeepsPromise
==================================================================================
