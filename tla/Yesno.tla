---------------------------------- MODULE Yesno -----------------------------------
(* dialog_yesno of support/kconfig/lxdialog/yesno.c: a question with two buttons,  *)
(* by which menuconfig asks whether the configuration is to be saved.  The button  *)
(* that is highlighted is state of its own: it is drawn when it changes.           *)
EXTENDS Lxdialog

VARIABLE yesno  \* the locals of dialog_yesno, or YesnoClosed with its result

yesno_vars == <<lines, yesno>>

Answers == [b \in 0..1 |-> IF b = 0 THEN "yes" ELSE "no"]
YesnoClosed(res) == [open |-> FALSE, res |-> res]

\* From the label do_resize to the first key.
yesno_do_resize(y, l) ==
    IF l < yesno_height + YESNO_HEIGTH_MIN THEN YesnoClosed(ERRDISPLAYTOOSMALL) ELSE [y EXCEPT !.lit = 0]

dialog_yesno ==
    /\ ~yesno.open
    /\ yesno' = yesno_do_resize([open |-> TRUE, button |-> 0, lit |-> 0, resized |-> FALSE], lines)
    /\ UNCHANGED lines

YesnoTurn(by) ==
    /\ yesno.open
    /\ LET b == (yesno.button + by) % 2 IN yesno' = [yesno EXCEPT !.button = b, !.lit = b]
    /\ UNCHANGED lines
YesnoReturn(b) == yesno.open /\ yesno' = YesnoClosed(Answers[b]) /\ UNCHANGED lines
YesnoSelect == YesnoReturn(yesno.button)  \* space and Enter
YesnoEsc(keys) ==
    /\ yesno.open
    /\ yesno' = IF on_key_esc(keys) = KEY_ESC THEN YesnoClosed(KEY_ESC) ELSE yesno
    /\ UNCHANGED lines
YesnoResize(l) ==
    yesno.open /\ lines' = l /\ yesno' = yesno_do_resize([yesno EXCEPT !.resized = TRUE], l)

YesnoInit == lines \in Heights /\ yesno = YesnoClosed(KEY_ESC)
YesnoNext == \/ dialog_yesno
             \/ YesnoTurn(1) \/ YesnoTurn(-1) \/ YesnoSelect
             \/ \E b \in 0..1 : YesnoReturn(b)     \* y and n
             \/ \E keys \in Escapes : YesnoEsc(keys)
             \/ \E l \in Heights : YesnoResize(l)

(* Properties.                                                                     *)
\* Enter answers what the user sees: the highlighted button is the one it takes,
\* unless a resize drew the buttons again, which always highlights Yes; and the box
\* is open only where it fits.
LitIsTaken ==
    yesno.open => /\ ~yesno.resized => yesno.lit = yesno.button
                  /\ yesno.button \in DOMAIN Answers
                  /\ lines >= yesno_height + YESNO_HEIGTH_MIN
==================================================================================
