-------------------------------- MODULE Checklist --------------------------------
(* dialog_checklist of support/kconfig/lxdialog/checklist.c: one of a list of     *)
(* items, at most list_height of them in sight.  As in Menubox the rows on the    *)
(* screen are state of their own, and items are numbered from 0.                  *)
EXTENDS Lxdialog

VARIABLE list   \* the locals of dialog_checklist, or ListClosed with its result

list_vars == <<lines, list>>

ListButtons == [b \in 0..1 |-> IF b = 0 THEN "ok" ELSE "help"]
ListClosed(res, item) == [open |-> FALSE, res |-> res, item |-> item]

\* The item to highlight: the one that is selected, or else the one with an X.
Highlight(selected, checked) ==
    IF selected # NoItem THEN selected ELSE IF checked # NoItem THEN checked ELSE 0

\* From the label do_resize to the first key.
\* (A bug: the choice stays where it was in the list.)
ResizeKeepsChoice(c, l) ==
    LET max_choice == IF list_height < c.count THEN list_height ELSE c.count
        scroll == IF c.choice >= list_height THEN c.choice - list_height + 1 ELSE c.scroll
    IN  IF l < checklist_height + CHECKLIST_HEIGTH_MIN THEN ListClosed(ERRDISPLAYTOOSMALL, NoItem)
        ELSE [c EXCEPT !.max_choice = max_choice, !.scroll = scroll,
                       !.screen = Drawn(scroll, max_choice, c.choice), !.lit = 0]
list_do_resize(c, l) ==
    LET max_choice == IF list_height < c.count THEN list_height ELSE c.count
        scroll == IF c.choice >= list_height THEN c.choice - list_height + 1 ELSE c.scroll
        choice == IF c.choice >= list_height THEN list_height - 1 ELSE c.choice
    IN  IF l < checklist_height + CHECKLIST_HEIGTH_MIN THEN ListClosed(ERRDISPLAYTOOSMALL, NoItem)
        ELSE [c EXCEPT !.max_choice = max_choice, !.scroll = scroll, !.choice = choice,
                       !.screen = Drawn(scroll, max_choice, choice), !.lit = 0]

dialog_checklist(hot, selected, checked) ==
    /\ ~list.open
    /\ list' = list_do_resize([open |-> TRUE, hot |-> hot, count |-> Len(hot),
                          choice |-> Highlight(selected, checked), scroll |-> 0, max_choice |-> 0,
                          button |-> 0, lit |-> 0, screen |-> <<>>, resized |-> FALSE], lines)
    /\ UNCHANGED lines

\* The list scrolls by one row, the choice staying on the row it is on.
\* (A bug: the row that scrolls away from the choice stays highlighted.)
ScrollLit(n) ==
    list' = [list EXCEPT !.scroll = @ + n,
                         !.screen = print_item(wscrl(@, n), list.scroll + n + list.choice, list.choice, TRUE)]
ListScrollBy(n) ==
    LET row == list.choice
        moved == IF list_height > 1
                 THEN wscrl(print_item(list.screen, list.scroll + row, row, FALSE), n)
                 ELSE list.screen
    IN list' = [list EXCEPT !.scroll = @ + n,
                            !.screen = print_item(moved, list.scroll + n + row, row, TRUE)]
ListMoveTo(i) ==
    LET unlit == print_item(list.screen, list.scroll + list.choice, list.choice, FALSE)
    IN list' = IF i = list.choice THEN list
               ELSE [list EXCEPT !.choice = i, !.screen = print_item(unlit, list.scroll + i, i, TRUE)]

ListUp == /\ list.open /\ UNCHANGED lines
          /\ IF list.choice > 0 THEN ListMoveTo(list.choice - 1)
             ELSE IF list.scroll > 0 THEN ListScrollBy(-1) ELSE list' = list
ListDown == /\ list.open /\ UNCHANGED lines
            /\ IF list.choice # list.max_choice - 1 THEN ListMoveTo(list.choice + 1)
               ELSE IF list.scroll + list.choice < list.count - 1 THEN ListScrollBy(1) ELSE list' = list

\* A letter goes to the first row that begins with it; it is no command then.
ListRowsWith(c) == {i \in 0..(list.max_choice - 1) : list.hot[list.scroll + i + 1] = c}
ListHotKey(c) == /\ list.open /\ ListRowsWith(c) # {} /\ UNCHANGED lines
                 /\ ListMoveTo(FirstOf(ListRowsWith(c)))
ListNotHot(key) == list.open /\ (key \notin Letters \/ ListRowsWith(key) = {})

ListTurn(by) == /\ list.open /\ UNCHANGED lines
                /\ LET b == (list.button + by) % 2 IN list' = [list EXCEPT !.button = b, !.lit = b]
ListReturn(b) == list.open /\ list' = ListClosed(ListButtons[b], list.scroll + list.choice) /\ UNCHANGED lines
ListSelect == ListReturn(list.button) \* space, s and Enter
ListHelp == ListNotHot("h") /\ ListReturn(1)
ListLeave == list.open /\ list' = ListClosed(KEY_ESC, NoItem) /\ UNCHANGED lines
ListResize(l) == list.open /\ lines' = l /\ list' = list_do_resize([list EXCEPT !.resized = TRUE], l)

ListInit == lines \in Heights /\ list = ListClosed(KEY_ESC, NoItem)
ListNext == \/ \E hot \in Lists \ {<<>>} : \E selected, checked \in NoItem..(Len(hot) - 1) :
              dialog_checklist(hot, selected, checked)
            \/ ListUp \/ ListDown \/ \E c \in Letters : ListHotKey(c)
            \/ ListTurn(1) \/ ListTurn(-1) \/ ListSelect \/ ListHelp \/ ListLeave
            \/ \E l \in Heights : ListResize(l)

(* Properties.                                                                    *)
\* The window stays inside the list and the choice inside the window: the value that is
\* set is the one of an item of the list.
ListInWindow ==
    list.open => /\ list.scroll + list.max_choice <= list.count
                 /\ list.choice < list.max_choice

\* What the increments of drawing leave on the screen is the window: every row shows its
\* item and the choice alone is highlighted, also after a resize; the button that Enter
\* takes is highlighted as well, unless a resize redrew the buttons.
ListScreenIsWindow ==
    list.open => /\ list.screen = Drawn(list.scroll, list.max_choice, list.choice)
                 /\ ~list.resized => list.lit = list.button

\* What the user sees is the part of the list the keys act on (checklist.c:106-320).
ListIsRight == ListInWindow /\ ListScreenIsWindow

\* What a caller relies on: it gets an item of the list, unless it gets no item.
ListKeepsPromise ==
    [][list.open /\ ~list'.open =>
         [res |-> list'.res, item |-> list'.item] \in ListPromise(list.count)]_list_vars
==================================================================================
