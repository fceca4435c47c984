-------------------------------- MODULE Inputbox ---------------------------------
(* dialog_inputbox of support/kconfig/lxdialog/inputbox.c: a line of text of which *)
(* box_width columns are in sight.  The text is known by its length and by whether *)
(* it was edited; the cursor is at character pos of it, and in column input_x of   *)
(* the box, whose first column shows character show_x.                             *)
EXTENDS Lxdialog

VARIABLE input  \* the locals of dialog_inputbox, or InputClosed with its result

input_vars == <<lines, input>>

Field == -1     \* the button when the field has the keys; Ok is 0, Help 1
ResultOf(button) == IF button = 1 THEN "help" ELSE "ok"
InputClosed(res, len, edited) == [open |-> FALSE, res |-> res, len |-> len, edited |-> edited]

\* From the label do_resize to the first key: the cursor goes to the end of the text.
input_do_resize(d, l) ==
    IF l <= d.height - INPUTBOX_HEIGTH_MIN THEN InputClosed(ERRDISPLAYTOOSMALL, d.len, d.edited)
    ELSE LET fits == d.len < box_width
         IN [d EXCEPT !.pos = d.len, !.show_x = IF fits THEN 0 ELSE d.len - box_width + 1,
                      !.input_x = IF fits THEN d.len ELSE box_width - 1]

dialog_inputbox(h, len) ==
    /\ ~input.open /\ UNCHANGED lines
    /\ input' = input_do_resize([open |-> TRUE, height |-> h, len |-> len, edited |-> FALSE, pos |-> 0,
                           show_x |-> 0, input_x |-> 0, button |-> Field], lines)

(* The keys of the field.                                                          *)
InField == input.open /\ input.button = Field /\ UNCHANGED lines
\* The text moves in the box when the cursor is in its first or last column.
Backward(d) == IF d.input_x = 0 THEN [d EXCEPT !.show_x = @ - 1, !.pos = @ - 1]
               ELSE [d EXCEPT !.input_x = @ - 1, !.pos = @ - 1]
\* (A bug: the text does not move.)
ForwardInPlace(d) == IF d.input_x = box_width - 1 THEN [d EXCEPT !.pos = @ + 1]
                     ELSE [d EXCEPT !.input_x = @ + 1, !.pos = @ + 1]
Forward(d) == IF d.input_x = box_width - 1 THEN [d EXCEPT !.show_x = @ + 1, !.pos = @ + 1]
              ELSE [d EXCEPT !.input_x = @ + 1, !.pos = @ + 1]
InputLeft == InField /\ input' = IF input.pos > 0 THEN Backward(input) ELSE input
InputRight == InField /\ input' = IF input.pos < input.len THEN Forward(input) ELSE input
InputBackspace == InField /\ input' = IF input.pos > 0 THEN [Backward(input) EXCEPT !.len = @ - 1, !.edited = TRUE]
                                 ELSE input
InputType == InField /\ input' = IF input.len < MAX_LEN THEN [Forward(input) EXCEPT !.len = @ + 1, !.edited = TRUE]
                            ELSE input

(* The buttons.  In the field the letters and the arrows are not theirs.           *)
Previous == CASE input.button = Field -> 1 [] input.button = 0 -> Field [] input.button = 1 -> 0
Following == CASE input.button = Field -> 0 [] input.button = 0 -> 1 [] input.button = 1 -> Field
InputTurnBack == input.open /\ input' = [input EXCEPT !.button = Previous] /\ UNCHANGED lines
InputTurnOn == input.open /\ input' = [input EXCEPT !.button = Following] /\ UNCHANGED lines

InputReturn(res) == input.open /\ input' = InputClosed(res, input.len, input.edited) /\ UNCHANGED lines
InputEnter == InputReturn(ResultOf(input.button))
InputLetter == input.open /\ input.button # Field /\ \E res \in {"ok", "help"} : InputReturn(res)
InputLeave == InputReturn(KEY_ESC)
InputResize(l) == input.open /\ lines' = l /\ input' = input_do_resize(input, l)

InputEdit == InputLeft \/ InputRight \/ InputBackspace \/ InputType
InputInit == lines \in Heights /\ input = InputClosed(KEY_ESC, 0, FALSE)
InputNext == \/ \E len \in Lengths, h \in {10, 11} : dialog_inputbox(h, len)
             \/ InputEdit \/ InputTurnBack \/ InputTurnOn \/ InputEnter \/ InputLetter \/ InputLeave
             \/ \E l \in Heights : InputResize(l)

(* Properties.                                                                     *)
\* The text fits the buffer, its end included, and the cursor is inside the text.
InputTypeOK ==
    /\ lines \in Nat /\ input.open \in BOOLEAN
    /\ input.len \in 0..MAX_LEN
    /\ input.open => /\ input.pos \in 0..input.len /\ input.button \in {Field, 0, 1}

\* The cursor is where the next character goes: the column it is in shows character pos,
\* inside the box, and no column shows a character before the first.
CursorAtPosition ==
    input.open => /\ input.show_x + input.input_x = input.pos
                  /\ input.input_x \in 0..(box_width - 1) /\ input.show_x \in Nat

\* What is typed goes where the cursor is shown, and fits (inputbox.c:85-300).
InputIsRight == InputTypeOK /\ CursorAtPosition
==================================================================================
