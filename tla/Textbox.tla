--------------------------------- MODULE Textbox ---------------------------------
(* dialog_textbox of support/kconfig/lxdialog/textbox.c: a page of boxh lines of a *)
(* text.  The program keeps one pointer, page, at the line after the last one it   *)
(* printed, and goes back from it to find the top of the page; positions are line  *)
(* numbers here.  A text whose last line has no newline has one position more,     *)
(* behind that line.                                                               *)
EXTENDS Lxdialog

VARIABLE text   \* the locals and statics of textbox.c, or TextClosed with its result

text_vars == <<lines, text>>

TextClosed(res, vscroll, hscroll) == [open |-> FALSE, res |-> res, vscroll |-> vscroll, hscroll |-> hscroll]

\* n calls of get_line: the end is noticed by the call that meets it.
get_lines(t, n) ==
    LET met == IF t.unended THEN t.page + n >= t.end ELSE t.page + n > t.end
    IN [t EXCEPT !.page = Minimum(t.page + n, t.end), !.end_reached = IF n = 0 THEN @ ELSE met]

\* The end, once noticed, counts as a line of its own.
\* (A bug: the end does not count.)
BackLinesOfText(t, n) ==
    [t EXCEPT !.page = Maximum(t.page - Maximum(n, 0), 0), !.begin_reached = n > 0 /\ t.page <= n]
back_lines(t, n) ==
    LET counted == n > 0 /\ t.page = t.end /\ t.end_reached
        k == IF counted THEN n - 1 ELSE Maximum(n, 0)
    IN [t EXCEPT !.page = Maximum(t.page - k, 0), !.begin_reached = k > 0 /\ t.page <= k,
                 !.end_reached = IF counted THEN FALSE ELSE @]

\* The lines printed until the end was noticed, that one included.
LengthOfPage(t, h) == Minimum(h, IF t.unended THEN Maximum(t.end - t.page, 1) ELSE t.end - t.page + 1)
\* A caller with update_text gets the part of the text in sight before it is printed.
Updated(t, h) == IF t.update THEN back_lines(get_lines(t, h), h) ELSE t
print_page(t) ==
    LET u == Updated(t, t.boxh)
    IN [get_lines(u, t.boxh) EXCEPT !.page_length = LengthOfPage(u, t.boxh), !.top = u.page]

\* From the label do_resize to the first key.
text_do_resize(t, l) ==
    IF l < TEXTBOX_HEIGTH_MIN THEN TextClosed(ERRDISPLAYTOOSMALL, t.vscroll, t.hscroll0)
    ELSE LET h == IF t.initial = 0 THEN l - 4 ELSE t.initial
         IN print_page([t EXCEPT !.height = h, !.boxh = h - 4])

dialog_textbox(tbuf, initial, update, vscroll, hscroll) ==
    /\ ~text.open /\ UNCHANGED lines
    /\ text' = text_do_resize(
         get_lines([open |-> TRUE, end |-> tbuf.newlines + (IF tbuf.unended THEN 1 ELSE 0), unended |-> tbuf.unended,
                    initial |-> initial, update |-> update, vscroll |-> vscroll, hscroll0 |-> hscroll,
                    page |-> 0, begin_reached |-> vscroll = 0, end_reached |-> FALSE, page_length |-> 0,
                    hscroll |-> hscroll, height |-> 0, boxh |-> 0, top |-> 0], vscroll), lines)

(* The keys.                                                                       *)
Show(t) == text.open /\ text' = print_page(t) /\ UNCHANGED lines
TextFirst == ~text.begin_reached /\ Show([text EXCEPT !.begin_reached = TRUE, !.page = 0])
TextLast == Show(back_lines([text EXCEPT !.end_reached = TRUE, !.page = text.end], text.boxh))
LineUp == ~text.begin_reached /\ Show(back_lines(text, text.page_length + 1))
TextPageUp == ~text.begin_reached /\ Show(back_lines(text, text.page_length + text.boxh))
LineDown == ~text.end_reached /\ Show(back_lines(text, text.page_length - 1))
TextPageDown == ~text.end_reached /\ Show([text EXCEPT !.begin_reached = FALSE])
ScrollTo(h) == Show([back_lines(text, text.page_length) EXCEPT !.hscroll = h])
LineStart == text.hscroll > 0 /\ ScrollTo(0)
ScrollLeft == text.hscroll > 0 /\ ScrollTo(text.hscroll - 1)
ScrollRight == text.hscroll < MAX_LEN /\ ScrollTo(text.hscroll + 1)
\* The end: the position kept for the next call is counted from the top of the page.
TextReturn(res) == /\ text.open /\ UNCHANGED lines
                   /\ text' = TextClosed(res, back_lines(text, text.page_length).page, text.hscroll)
TextResize(l) == text.open /\ lines' = l /\ text' = text_do_resize(back_lines(text, text.height), l)

TextMove == /\ text.open
            /\ \/ TextFirst \/ TextLast \/ LineUp \/ TextPageUp \/ LineDown \/ TextPageDown
               \/ LineStart \/ ScrollLeft \/ ScrollRight
TextInit == lines \in Heights /\ text = TextClosed("exit", 0, 0)
TextNext == \/ \E tbuf \in Texts, initial \in {0, 5, 6}, update \in BOOLEAN, hscroll \in 0..MAX_LEN :
              \E vscroll \in 0..tbuf.newlines : dialog_textbox(tbuf, initial, update, vscroll, hscroll)
            \/ TextMove \/ TextReturn("exit") \/ \E l \in Heights : TextResize(l)

(* Properties.                                                                     *)
\* The flags that stop the keys are right: one goes up unless the first line is in sight,
\* and down unless the end of the text is.  A terminal of 8 lines leaves no line for it.
TextFlagsAreRight ==
    text.open /\ text.boxh > 0 =>
        /\ text.begin_reached <=> text.top = 0
        /\ text.end_reached <=> text.top + text.page_length + (IF text.unended THEN 1 ELSE 0) > text.end

\* The top of the page is found again from the place behind it: a horizontal scroll stays
\* on the page and a caller that keeps the position comes back to it.  It is what back_lines
\* and print_page count the end of the text for; a text without a newline at its end breaks it.
TopIsFound == text.open /\ ~text.unended => back_lines(text, text.page_length).page = text.top

\* The page on the screen is the one that the keys and the caller take it for
\* (textbox.c:233-340).
TextIsRight == TextFlagsAreRight /\ TopIsFound
==================================================================================
