-------------------------------- MODULE Lxdialog ---------------------------------
(* What the dialogs of support/kconfig/lxdialog share: the terminal and the rows   *)
(* of a list on the screen.  Items are numbered from 0, and an item is known by    *)
(* the letter that is its hotkey.                                                  *)
EXTENDS DialogResults, Sequences

CONSTANTS
    Heights,      \* the heights the terminal may have, in lines
    Letters,      \* the letters that are hotkeys
    Lists,        \* the lists of items: for each item its hotkey
    Scrolls,      \* the scroll positions a caller of dialog_menu may have kept
    checklist_height, list_height,   \* of dialog_checklist: the dialog, and the list in it
    yesno_height, \* of dialog_yesno
    Lengths,      \* the lengths of the texts given to dialog_inputbox
    MAX_LEN,      \* the size of dialog_input_result, and the bound on a horizontal scroll
    box_width,    \* the columns of the field of dialog_inputbox
    Texts         \* the texts of dialog_textbox: their newlines, and whether the last line has none

ASSUME HeightsAssumption == Heights \subseteq Nat
ASSUME ListsAssumption == Lists \subseteq Seq(Letters)
ASSUME ScrollsAssumption == Scrolls \subseteq Int
ASSUME ListHeightAssumption == checklist_height \in Nat /\ list_height \in Nat \ {0}
ASSUME YesnoHeightAssumption == yesno_height \in Nat
ASSUME LengthsAssumption == MAX_LEN \in Nat /\ Lengths \subseteq 0..MAX_LEN
ASSUME WidthAssumption == box_width \in Nat \ {0}
\* No text is empty: print_position divides by its length.
ASSUME TextsAssumption ==
    \A t \in Texts : /\ t.newlines \in Nat /\ t.unended \in BOOLEAN
                     /\ t.newlines = 0 => t.unended

VARIABLE lines    \* getmaxy(stdscr)

MENUBOX_HEIGTH_MIN == 15
CHECKLIST_HEIGTH_MIN == 6
INPUTBOX_HEIGTH_MIN == 2
TEXTBOX_HEIGTH_MIN == 8
YESNO_HEIGTH_MIN == 4
Minimum(a, b) == IF a < b THEN a ELSE b
Maximum(a, b) == IF a > b THEN a ELSE b
FirstOf(rows) == CHOOSE i \in rows : \A j \in rows : i <= j

\* The keys that wait behind an Esc: the terminal sends function keys so. Only a second
\* Esc that comes alone is one; any other key alone is read again, as if without the Esc.
Escapes == {<<>>, <<KEY_ESC>>, <<"other">>, <<KEY_ESC, "other">>}
on_key_esc(keys) == IF keys = <<KEY_ESC>> THEN KEY_ESC ELSE "-1"

(* The rows of a list: the item each shows, and whether it is highlighted.         *)
Row(item, lit) == [item |-> item, lit |-> lit]
\* print_item for n rows, the first of which shows item "first"
Drawn(first, n, choice) == [i \in 0..(n - 1) |-> Row(first + i, i = choice)]
print_item(screen, item, row, lit) == [screen EXCEPT ![row] = Row(item, lit)]
\* wscrl by n rows: a row that comes in shows nothing.
wscrl(screen, n) == [i \in DOMAIN screen |-> IF i + n \in DOMAIN screen THEN screen[i + n] ELSE Row(NoItem, FALSE)]
==================================================================================
