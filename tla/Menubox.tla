-------------------------------- MODULE Menubox ---------------------------------
(* dialog_menu of support/kconfig/lxdialog/menubox.c: a window of max_choice     *)
(* rows on a list of items, moved by keys.  The screen is drawn in increments,   *)
(* a row or a scroll at a time, so what it shows is state of its own: for every  *)
(* row, the item it shows and whether that item is highlighted.  Items are       *)
(* numbered from 0.  An item is known by its hotkey, the first letter of its     *)
(* text that is none of y, n, m and h.                                           *)
EXTENDS Lxdialog

VARIABLE menu   \* the locals of dialog_menu, or MenuClosed with its result

menu_vars == <<lines, menu>>

Crashed == "crashed"       \* an item that is not in the list was read
Buttons == [b \in 0..4 |-> CASE b = 0 -> "select" [] b = 1 -> "exit" [] b = 2 -> "help"
                             [] b = 3 -> "save" [] b = 4 -> "load"]
MenuClosed(res, s_scroll, item) == [open |-> FALSE, res |-> res, s_scroll |-> s_scroll, item |-> item]

(* Drawing.                                                                      *)
\* (A bug: the rows that come in are printed from the old position.)
DoScrollLate(screen, scroll, n) ==
    [i \in DOMAIN screen |-> IF i + n \in DOMAIN screen THEN screen[i + n] ELSE Row(scroll + i, FALSE)]
\* By n rows; the rows that come in are printed from the new position.
do_scroll(screen, scroll, n) ==
    [i \in DOMAIN screen |-> IF i + n \in DOMAIN screen THEN screen[i + n] ELSE Row(scroll + n + i, FALSE)]

(* From the label do_resize to the first key.                               *)
Kept(s_scroll, choice, max_choice, count) ==
    /\ s_scroll <= choice /\ s_scroll + max_choice > choice
    /\ s_scroll >= 0 /\ s_scroll + max_choice <= count
\* A kept position that does not fit leaves first_item as it is.
Restore(m, choice, max_choice) ==
    IF Kept(m.s_scroll, choice, max_choice, m.count)
    THEN [scroll |-> m.s_scroll, first_item |-> m.s_scroll, choice |-> choice - m.s_scroll]
    ELSE [scroll |-> 0, first_item |-> m.first_item, choice |-> choice]
Centred(choice, max_choice, count) ==
    IF choice >= count - (max_choice \div 2) THEN count - max_choice ELSE choice - (max_choice \div 2)
Centre(w, max_choice, count) ==
    IF w.choice < max_choice THEN w
    ELSE LET at == Centred(w.choice, max_choice, count)
         IN [scroll |-> at, first_item |-> at, choice |-> w.choice - at]

menu_do_resize(m, l) ==
    LET max_choice == Minimum(l - 14, m.count)
        w == Centre(Restore(m, IF m.selected = NoItem THEN m.choice ELSE m.selected, max_choice),
                    max_choice, m.count)
    IN  IF l < MENUBOX_HEIGTH_MIN THEN MenuClosed(ERRDISPLAYTOOSMALL, m.s_scroll, NoItem)
        ELSE IF w.first_item + max_choice > m.count THEN MenuClosed(Crashed, m.s_scroll, NoItem)
        ELSE [m EXCEPT !.max_choice = max_choice, !.choice = w.choice, !.scroll = w.scroll,
                       !.first_item = w.first_item,
                       !.screen = Drawn(w.first_item, max_choice, w.choice), !.lit = 0]

\* A call: the items, the one the caller has selected, the scroll position it kept.
dialog_menu(hot, selected, s_scroll) ==
    /\ ~menu.open
    /\ menu' = menu_do_resize([open |-> TRUE, hot |-> hot, count |-> Len(hot), selected |-> selected,
                          s_scroll |-> s_scroll, max_choice |-> 0, choice |-> 0, scroll |-> 0,
                          first_item |-> 0, button |-> 0, lit |-> 0, screen |-> <<>>, resized |-> FALSE], lines)
    /\ UNCHANGED lines

(* The keys that move in the list.                                               *)
InList == menu.open /\ menu.count # 0
Unlit == print_item(menu.screen, menu.scroll + menu.choice, menu.choice, FALSE)
MenuMoveTo(screen, scroll, choice) ==
    /\ menu' = [menu EXCEPT !.choice = choice, !.scroll = scroll,
                            !.screen = print_item(screen, scroll + choice, choice, TRUE)]
    /\ UNCHANGED lines
Scroll(n, choice) == MenuMoveTo(do_scroll(Unlit, menu.scroll, n), menu.scroll + n, choice)

MenuUp == /\ InList
          /\ IF menu.choice < 2 /\ menu.scroll > 0 THEN Scroll(-1, menu.choice)
             ELSE MenuMoveTo(Unlit, menu.scroll, Maximum(menu.choice - 1, 0))
MenuDown == /\ InList
            /\ IF menu.choice > menu.max_choice - 3 /\ menu.scroll + menu.max_choice < menu.count
               THEN Scroll(1, menu.choice)
               ELSE MenuMoveTo(Unlit, menu.scroll, Minimum(menu.choice + 1, menu.max_choice - 1))
\* max_choice times one row up: the list scrolls as long as it can, then the choice moves.
MenuPageUp == /\ InList
              /\ LET n == Minimum(menu.max_choice, menu.scroll)
                 IN Scroll(-n, Maximum(menu.choice - (menu.max_choice - n), 0))
\* (A bug: the choice goes on below the window.)
PageDownOn == InList /\ LET n == Minimum(menu.max_choice, menu.count - menu.max_choice - menu.scroll)
                        IN Scroll(n, menu.choice + (menu.max_choice - n))
MenuPageDown == /\ InList
                /\ LET n == Minimum(menu.max_choice, menu.count - menu.max_choice - menu.scroll)
                   IN Scroll(n, Minimum(menu.choice + (menu.max_choice - n), menu.max_choice - 1))

MenuRowsWith(c) == {i \in 0..(menu.max_choice - 1) : menu.hot[menu.scroll + i + 1] = c}
\* (A bug: always the first row with the letter.)
HotKeyFirst(c) == InList /\ MenuRowsWith(c) # {} /\ MenuMoveTo(Unlit, menu.scroll, FirstOf(MenuRowsWith(c)))
\* The next row with that letter, or the first of the window.
MenuHotKey(c) ==
    /\ InList /\ MenuRowsWith(c) # {}
    /\ LET after == {i \in MenuRowsWith(c) : i > menu.choice}
       IN MenuMoveTo(Unlit, menu.scroll, FirstOf(IF after # {} THEN after ELSE MenuRowsWith(c)))

(* The other keys.                                                               *)
MenuTurn(by) == /\ menu.open
                /\ LET b == (menu.button + by) % 5 IN menu' = [menu EXCEPT !.button = b, !.lit = b]
                /\ UNCHANGED lines
\* The keys that are hotkeys of the window never get here.
MenuNotHot(key) == menu.open /\ (menu.count = 0 \/ key \notin Letters \/ MenuRowsWith(key) = {})
Commands == [h |-> "help", s |-> "yes", y |-> "yes", n |-> "no", m |-> "mod", space |-> "toggle",
             slash |-> "search", z |-> "all"]
MenuReturn(res) == /\ menu.open
                   /\ menu' = MenuClosed(res, menu.scroll, IF menu.count = 0 THEN NoItem ELSE menu.scroll + menu.choice)
                   /\ UNCHANGED lines
MenuEnter == MenuReturn(Buttons[menu.button])
Command(key) == MenuNotHot(key) /\ MenuReturn(Commands[key])
MenuLeave == menu.open /\ menu' = MenuClosed(KEY_ESC, menu.s_scroll, NoItem) /\ UNCHANGED lines
MenuResize(l) == /\ menu.open /\ lines' = l
                 /\ menu' = menu_do_resize([menu EXCEPT !.resized = TRUE], l)

MenuMove == MenuUp \/ MenuDown \/ MenuPageUp \/ MenuPageDown \/ \E c \in Letters : MenuHotKey(c)
MenuInit == lines \in Heights /\ menu = MenuClosed(KEY_ESC, 0, NoItem)
MenuNext == \/ \E hot \in Lists, s_scroll \in Scrolls : \E selected \in NoItem..(Len(hot) - 1) :
              dialog_menu(hot, selected, s_scroll)
            \/ MenuMove \/ MenuTurn(1) \/ MenuTurn(-1)
            \/ MenuEnter \/ (\E key \in DOMAIN Commands : Command(key)) \/ MenuLeave
            \/ \E l \in Heights : MenuResize(l)

(* Properties.                                                                   *)
\* The locals of the loop: counts and positions, and a screen of max_choice rows.
MenuTypeOK ==
    /\ lines \in Nat
    /\ menu.open =>
         /\ menu.count \in Nat /\ menu.max_choice \in 0..menu.count
         /\ menu.max_choice = Minimum(lines - 14, menu.count)
         /\ menu.button \in 0..4 /\ menu.choice \in Nat /\ menu.scroll \in Nat
         /\ menu.hot \in Seq(Letters) /\ Len(menu.hot) = menu.count
         /\ DOMAIN menu.screen = 0..(menu.max_choice - 1)
         /\ menu.lit \in 0..4 /\ menu.resized \in BOOLEAN

\* The window stays inside the list and the choice inside the window, whatever the size
\* of the terminal, the length of the list, the scroll position kept and the keys: the
\* item returned is an item of the list.
MenuInWindow ==
    menu.open => /\ menu.scroll + menu.max_choice <= menu.count
                 /\ menu.count # 0 => menu.choice < menu.max_choice

\* What the increments of drawing leave on the screen is the window: every row shows its
\* item, and the choice and the button that MenuEnter takes are the ones highlighted.  A resize
\* breaks it: it keeps first_item when the scroll position does not fit, and the button.
MenuScreenIsWindow ==
    menu.open /\ ~menu.resized => /\ menu.screen = Drawn(menu.scroll, menu.max_choice, menu.choice)
                                  /\ menu.lit = menu.button

\* What the user sees is the part of the list the keys act on (menubox.c:171-400).
MenuIsRight == MenuInWindow /\ MenuScreenIsWindow

\* A hotkey goes on through the visible items that have it, without missing one.
HotKeySequences ==
    [][\A c \in Letters : MenuHotKey(c) =>
         /\ menu.hot[menu'.scroll + menu'.choice + 1] = c
         /\ \A i \in MenuRowsWith(c) : ~(menu.choice < i /\ i < menu'.choice)
         /\ menu'.choice <= menu.choice =>
              \A i \in MenuRowsWith(c) : ~(menu.choice < i) /\ ~(i < menu'.choice)]_menu_vars

\* What a caller relies on: it gets an item of the list, unless it gets no item.
MenuKeepsPromise ==
    [][menu.open /\ ~menu'.open /\ menu'.res # Crashed =>
         [res |-> menu'.res, item |-> menu'.item] \in MenuPromise(menu.count)]_menu_vars

\* The dialog copes with a menu whose size changes on the fly (the head of menubox.c).
ResizeIsSafe == menu.open \/ menu.res # Crashed
==================================================================================
