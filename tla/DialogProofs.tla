-------------------------------- MODULE DialogProofs -------------------------------
(* The five dialogs and the screens of menuconfig, for every size of the terminal,  *)
(* every list or text and every sequence of keys and resizes. The question: the answer is the button that is    *)
(* highlighted. The input box: the cursor is where the next character goes and the *)
(* text stays in its buffer. The text box: it knows which part of the text is in   *)
(* sight. The menu box and the checklist: the window stays in the list, the choice *)
(* in the window and on the screen, and the result is what the caller relies on.   *)
(* The screens: their titles are the menus and searches that are open.             *)
EXTENDS Dialogs, MconfScreens, WellFoundedInduction, TLAPS

--------------------------------------------------------------------------------
(* dialog_yesno                                                                    *)

(* The inductive invariant: the locals of a question that is open.                 *)
QuestionFields == {"open", "button", "lit", "resized"}
Asked(y) == /\ DOMAIN y = QuestionFields /\ y = [f \in QuestionFields |-> y[f]] /\ y.open = TRUE
            /\ y.button \in 0..1 /\ y.resized \in BOOLEAN
YesnoInv ==
    /\ lines \in Nat /\ yesno.open \in BOOLEAN
    /\ yesno.open => Asked(yesno)
    /\ LitIsTaken

\* A layout highlights Yes, or closes the question.
LEMMA QuestionFits ==
    ASSUME NEW y, Asked(y), NEW l \in Nat, y.resized \/ y.button = 0
    PROVE  LET n == yesno_do_resize(y, l)
           IN /\ n.open \in BOOLEAN
              /\ n.open => /\ Asked(n) /\ l >= yesno_height + YESNO_HEIGTH_MIN
                           /\ ~n.resized => n.lit = n.button
  <1>. DEFINE n == yesno_do_resize(y, l)
  <1>1. CASE l < yesno_height + YESNO_HEIGTH_MIN
    BY <1>1 DEF yesno_do_resize, YesnoClosed
  <1>2. CASE ~(l < yesno_height + YESNO_HEIGTH_MIN)
    <2>1. n = [y EXCEPT !.lit = 0]
      BY <1>2 DEF yesno_do_resize
    <2>2. /\ DOMAIN n = QuestionFields /\ n = [f \in QuestionFields |-> n[f]] /\ n.open = TRUE
          /\ n.button = y.button /\ n.resized = y.resized /\ n.lit = 0
      BY <2>1 DEF Asked, QuestionFields
    <2>3. l >= yesno_height + YESNO_HEIGTH_MIN
      BY <1>2, YesnoHeightAssumption, SMT DEF YESNO_HEIGTH_MIN
    <2>. HIDE DEF n
    <2>4. Asked(n) /\ (~n.resized => n.lit = n.button)
      BY <2>2 DEF Asked
    <2>. QED BY <2>2, <2>3, <2>4 DEF n
  <1>. QED BY <1>1, <1>2

\* A question that is asked, or laid out again.
LEMMA AskedKeeps ==
    ASSUME YesnoInv, NEW l \in Nat, NEW y, Asked(y), y.resized \/ y.button = 0,
           lines' = l, yesno' = yesno_do_resize(y, l)
    PROVE  YesnoInv'
  <1>1. /\ yesno'.open \in BOOLEAN
        /\ yesno'.open => /\ Asked(yesno') /\ l >= yesno_height + YESNO_HEIGTH_MIN
                          /\ ~yesno'.resized => yesno'.lit = yesno'.button
    BY QuestionFits
  <1>2. DOMAIN Answers = 0..1
    BY DEF Answers
  <1>. QED BY <1>1, <1>2 DEF YesnoInv, LitIsTaken, Asked

LEMMA YesnoStep == ASSUME YesnoInv, [YesnoNext]_yesno_vars PROVE YesnoInv'
  <1>1. CASE dialog_yesno
    <2>. DEFINE y == [open |-> TRUE, button |-> 0, lit |-> 0, resized |-> FALSE]
    <2>1. Asked(y) /\ y.button = 0
      BY DEF Asked, QuestionFields
    <2>2. lines' = lines /\ lines \in Nat /\ yesno' = yesno_do_resize(y, lines)
      BY <1>1 DEF dialog_yesno, YesnoInv
    <2>. HIDE DEF y
    <2>. QED BY <2>1, <2>2, AskedKeeps
  <1>2. ASSUME NEW by \in {1, -1}, YesnoTurn(by) PROVE YesnoInv'
    <2>. DEFINE b == (yesno.button + by) % 2
    <2>1. Asked(yesno) /\ LitIsTaken /\ lines \in Nat /\ yesno.open
      BY <1>2 DEF YesnoTurn, YesnoInv
    <2>2. b \in 0..1
      BY <2>1, SMT DEF Asked
    <2>. HIDE DEF b
    <2>3. yesno' = [yesno EXCEPT !.button = b, !.lit = b] /\ lines' = lines
      BY <1>2 DEF YesnoTurn, b
    <2>4. /\ DOMAIN yesno' = QuestionFields /\ yesno' = [f \in QuestionFields |-> yesno'[f]]
          /\ yesno'.open = TRUE
          /\ yesno'.button = b /\ yesno'.lit = b /\ yesno'.resized = yesno.resized
      BY <2>1, <2>3 DEF Asked, QuestionFields
    <2>5. DOMAIN Answers = 0..1
      BY DEF Answers
    <2>. QED BY <2>1, <2>2, <2>3, <2>4, <2>5 DEF YesnoInv, LitIsTaken, Asked
  <1>3. ASSUME NEW b, YesnoReturn(b) PROVE YesnoInv'
    BY <1>3 DEF YesnoReturn, YesnoClosed, YesnoInv, LitIsTaken
  <1>4. ASSUME NEW keys \in Escapes, YesnoEsc(keys) PROVE YesnoInv'
    <2>1. CASE on_key_esc(keys) = KEY_ESC
      BY <1>4, <2>1 DEF YesnoEsc, YesnoClosed, YesnoInv, LitIsTaken
    <2>2. CASE on_key_esc(keys) # KEY_ESC
      BY <1>4, <2>2 DEF YesnoEsc, YesnoInv, LitIsTaken
    <2>. QED BY <2>1, <2>2
  <1>5. ASSUME NEW l \in Heights, YesnoResize(l) PROVE YesnoInv'
    <2>. DEFINE y == [yesno EXCEPT !.resized = TRUE]
    <2>1. Asked(yesno)
      BY <1>5 DEF YesnoResize, YesnoInv
    <2>2. Asked(y) /\ y.resized = TRUE
      BY <2>1 DEF Asked, QuestionFields
    <2>3. l \in Nat /\ lines' = l /\ yesno' = yesno_do_resize(y, l)
      BY <1>5, HeightsAssumption DEF YesnoResize
    <2>. HIDE DEF y
    <2>. QED BY <2>2, <2>3, AskedKeeps
  <1>6. CASE UNCHANGED yesno_vars
    BY <1>6 DEF yesno_vars, YesnoInv, LitIsTaken
  <1>. QED BY <1>1, <1>2, <1>3, <1>4, <1>5, <1>6 DEF YesnoNext, YesnoSelect

--------------------------------------------------------------------------------
(* dialog_inputbox                                                                 *)

(* The inductive invariant: the locals of an open box.                             *)
InputFields == {"open", "height", "len", "edited", "pos", "show_x", "input_x", "button"}
Locals(d) == DOMAIN d = InputFields /\ d = [f \in InputFields |-> d[f]] /\ d.open = TRUE
\* What a layout and a button leave alone.
Given(d) == Locals(d) /\ d.len \in 0..MAX_LEN /\ d.button \in {Field, 0, 1}
\* Where the cursor is.
Placed(d) ==
    /\ d.pos \in 0..d.len /\ d.show_x \in Nat /\ d.input_x \in 0..(box_width - 1)
    /\ d.show_x + d.input_x = d.pos
InputInv ==
    /\ lines \in Nat /\ input.open \in BOOLEAN /\ input.len \in 0..MAX_LEN
    /\ input.open => Given(input) /\ Placed(input)
\* The same of a state of the dialog, open or closed.
Fits(d) == d.open \in BOOLEAN /\ d.len \in 0..MAX_LEN /\ (d.open => Given(d) /\ Placed(d))


\* A layout puts the cursor at the end of the text.
LEMMA LayoutFits ==
    ASSUME NEW d, Given(d), NEW l
    PROVE  Fits(input_do_resize(d, l))
  <1>. DEFINE n == input_do_resize(d, l)
              fits == d.len < box_width
              at == IF fits THEN 0 ELSE d.len - box_width + 1
              x == IF fits THEN d.len ELSE box_width - 1
  <1>1. d.len \in 0..MAX_LEN /\ MAX_LEN \in Nat /\ box_width \in Nat \ {0}
    BY LengthsAssumption, WidthAssumption DEF Given
  <1>2. CASE l <= d.height - INPUTBOX_HEIGTH_MIN
    <2>1. n = InputClosed(ERRDISPLAYTOOSMALL, d.len, d.edited)
      BY <1>2 DEF input_do_resize
    <2>. HIDE DEF n
    <2>2. n.open = FALSE /\ n.len = d.len
      BY <2>1 DEF InputClosed
    <2>. QED BY <1>1, <2>2 DEF Fits, n
  <1>3. CASE ~(l <= d.height - INPUTBOX_HEIGTH_MIN)
    <2>1. n = [d EXCEPT !.pos = d.len, !.show_x = at, !.input_x = x]
      BY <1>3 DEF input_do_resize
    <2>2. at \in Nat /\ x \in 0..(box_width - 1) /\ at + x = d.len /\ d.len \in 0..d.len
      BY <1>1, SMT
    <2>. HIDE DEF n, at, x
    <2>3. Locals(n) /\ n.len = d.len /\ n.button = d.button
      BY <2>1 DEF Given, Locals, InputFields
    <2>4. n.pos = d.len /\ n.show_x = at /\ n.input_x = x
      BY <2>1 DEF Given, Locals, InputFields
    <2>5. Given(n) /\ Placed(n)
      BY <2>2, <2>3, <2>4 DEF Given, Placed
    <2>. QED BY <1>1, <2>3, <2>5 DEF Fits, Locals, n
  <1>. QED BY <1>2, <1>3

\* The cursor went to pos, and the text with it where it had to.
Shifted(d, n, pos) ==
    /\ Locals(n) /\ n.len = d.len /\ n.button = d.button /\ n.pos = pos /\ n.show_x \in Nat
    /\ n.input_x \in 0..(box_width - 1) /\ n.show_x + n.input_x = n.pos

\* One step forward or back, in the box or with the text.
LEMMA MovesFit ==
    ASSUME NEW d, Given(d), Placed(d)
    PROVE  /\ d.pos > 0 => Shifted(d, Backward(d), d.pos - 1)
           /\ Shifted(d, Forward(d), d.pos + 1)
  <1>. DEFINE back == Backward(d)
              on == Forward(d)
  <1>1. /\ d.pos \in Nat /\ d.show_x \in Nat /\ d.input_x \in 0..(box_width - 1)
        /\ d.show_x + d.input_x = d.pos /\ box_width \in Nat \ {0} /\ Locals(d)
    BY WidthAssumption, LengthsAssumption DEF Given, Placed
  <1>2. ASSUME d.input_x = 0 PROVE d.pos > 0 => Shifted(d, back, d.pos - 1)
    <2>1. back = [d EXCEPT !.show_x = d.show_x - 1, !.pos = d.pos - 1]
      BY <1>2 DEF Backward
    <2>. HIDE DEF back
    <2>2. /\ Locals(back) /\ back.len = d.len /\ back.button = d.button /\ back.pos = d.pos - 1
          /\ back.show_x = d.show_x - 1 /\ back.input_x = d.input_x
      BY <1>1, <2>1 DEF Locals, InputFields
    <2>3. d.pos > 0 => d.show_x - 1 \in Nat /\ d.show_x - 1 + d.input_x = d.pos - 1
      BY <1>1, <1>2, SMT
    <2>. QED BY <1>1, <2>2, <2>3 DEF Shifted
  <1>3. ASSUME d.input_x # 0 PROVE d.pos > 0 => Shifted(d, back, d.pos - 1)
    <2>1. back = [d EXCEPT !.input_x = d.input_x - 1, !.pos = d.pos - 1]
      BY <1>3 DEF Backward
    <2>. HIDE DEF back
    <2>2. /\ Locals(back) /\ back.len = d.len /\ back.button = d.button /\ back.pos = d.pos - 1
          /\ back.show_x = d.show_x /\ back.input_x = d.input_x - 1
      BY <1>1, <2>1 DEF Locals, InputFields
    <2>3. d.input_x - 1 \in 0..(box_width - 1) /\ d.show_x + (d.input_x - 1) = d.pos - 1
      BY <1>1, <1>3, SMT
    <2>. QED BY <1>1, <2>2, <2>3 DEF Shifted
  <1>4. ASSUME d.input_x = box_width - 1 PROVE Shifted(d, on, d.pos + 1)
    <2>1. on = [d EXCEPT !.show_x = d.show_x + 1, !.pos = d.pos + 1]
      BY <1>4 DEF Forward
    <2>. HIDE DEF on
    <2>2. /\ Locals(on) /\ on.len = d.len /\ on.button = d.button /\ on.pos = d.pos + 1
          /\ on.show_x = d.show_x + 1 /\ on.input_x = d.input_x
      BY <1>1, <2>1 DEF Locals, InputFields
    <2>3. d.show_x + 1 \in Nat /\ d.show_x + 1 + d.input_x = d.pos + 1
      BY <1>1, SMT
    <2>. QED BY <1>1, <2>2, <2>3 DEF Shifted
  <1>5. ASSUME d.input_x # box_width - 1 PROVE Shifted(d, on, d.pos + 1)
    <2>1. on = [d EXCEPT !.input_x = d.input_x + 1, !.pos = d.pos + 1]
      BY <1>5 DEF Forward
    <2>. HIDE DEF on
    <2>2. /\ Locals(on) /\ on.len = d.len /\ on.button = d.button /\ on.pos = d.pos + 1
          /\ on.show_x = d.show_x /\ on.input_x = d.input_x + 1
      BY <1>1, <2>1 DEF Locals, InputFields
    <2>3. d.input_x + 1 \in 0..(box_width - 1) /\ d.show_x + (d.input_x + 1) = d.pos + 1
      BY <1>1, <1>5, SMT
    <2>. QED BY <1>1, <2>2, <2>3 DEF Shifted
  <1>. QED BY <1>2, <1>3, <1>4, <1>5

--------------------------------------------------------------------------------
(* The keys.                                                                       *)
LEMMA EditKeeps == ASSUME InputInv, InputEdit PROVE InputInv'
  <1>. DEFINE back == Backward(input)
              on == Forward(input)
  <1>1. /\ input.open /\ lines' = lines /\ lines \in Nat /\ Given(input) /\ Placed(input)
        /\ input.len \in 0..MAX_LEN /\ MAX_LEN \in Nat /\ input.button \in {Field, 0, 1}
        /\ input.pos \in 0..input.len
    BY LengthsAssumption
       DEF InputEdit, InputLeft, InputRight, InputBackspace, InputType, InField, InputInv, Given, Placed
  <1>2. (input.pos > 0 => Shifted(input, back, input.pos - 1)) /\ Shifted(input, on, input.pos + 1)
    BY <1>1, MovesFit
  <1>3. CASE input' = input
    BY <1>1, <1>3 DEF InputInv
  <1>4. CASE InputLeft /\ input.pos > 0
    <2>1. input' = back
      BY <1>4 DEF InputLeft
    <2>. HIDE DEF back
    <2>2. back.pos \in 0..back.len
      BY <1>1, <1>2, <1>4, SMT DEF Shifted
    <2>3. Fits(back)
      BY <1>1, <1>2, <1>4, <2>2 DEF Fits, Given, Placed, Locals, Shifted
    <2>. QED BY <1>1, <2>1, <2>3 DEF InputInv, Fits
  <1>5. CASE InputRight /\ input.pos < input.len
    <2>1. input' = on
      BY <1>5 DEF InputRight
    <2>. HIDE DEF on
    <2>2. on.pos \in 0..on.len
      BY <1>1, <1>2, <1>5, SMT DEF Shifted
    <2>3. Fits(on)
      BY <1>1, <1>2, <2>2 DEF Fits, Given, Placed, Locals, Shifted
    <2>. QED BY <1>1, <2>1, <2>3 DEF InputInv, Fits
  <1>6. CASE InputBackspace /\ input.pos > 0
    <2>1. input' = [back EXCEPT !.len = back.len - 1, !.edited = TRUE]
      BY <1>6 DEF InputBackspace
    <2>. HIDE DEF back
    <2>2. Locals(back) /\ back.len = input.len
      BY <1>2, <1>6 DEF Shifted
    <2>3. /\ Locals(input') /\ input'.len = input.len - 1 /\ input'.button = back.button
          /\ input'.pos = back.pos /\ input'.show_x = back.show_x /\ input'.input_x = back.input_x
      BY <2>1, <2>2 DEF Locals, InputFields
    <2>4. input.len - 1 \in 0..MAX_LEN /\ back.pos \in 0..(input.len - 1)
      BY <1>1, <1>2, <1>6, SMT DEF Shifted
    <2>5. Fits(input')
      BY <1>1, <1>2, <1>6, <2>3, <2>4 DEF Fits, Given, Placed, Locals, Shifted
    <2>. QED BY <1>1, <2>5 DEF InputInv, Fits
  <1>7. CASE InputType /\ input.len < MAX_LEN
    <2>1. input' = [on EXCEPT !.len = on.len + 1, !.edited = TRUE]
      BY <1>7 DEF InputType
    <2>. HIDE DEF on
    <2>2. Locals(on) /\ on.len = input.len
      BY <1>2 DEF Shifted
    <2>3. /\ Locals(input') /\ input'.len = input.len + 1 /\ input'.button = on.button
          /\ input'.pos = on.pos /\ input'.show_x = on.show_x /\ input'.input_x = on.input_x
      BY <2>1, <2>2 DEF Locals, InputFields
    <2>4. input.len + 1 \in 0..MAX_LEN /\ on.pos \in 0..(input.len + 1)
      BY <1>1, <1>2, <1>7, SMT DEF Shifted
    <2>5. Fits(input')
      BY <1>1, <1>2, <2>3, <2>4 DEF Fits, Given, Placed, Locals, Shifted
    <2>. QED BY <1>1, <2>5 DEF InputInv, Fits
  <1>. QED BY <1>3, <1>4, <1>5, <1>6, <1>7 DEF InputEdit, InputLeft, InputRight, InputBackspace, InputType

\* The buttons, a result, or nothing.
LEMMA OtherKeeps ==
    ASSUME InputInv,
           InputTurnBack \/ InputTurnOn \/ (\E res \in {"ok", "help", KEY_ESC} : InputReturn(res))
           \/ UNCHANGED input_vars
    PROVE  InputInv'
  <1>1. ASSUME NEW b \in {Field, 0, 1}, input.open, lines' = lines,
               input' = [input EXCEPT !.button = b]
        PROVE  InputInv'
    <2>1. Given(input) /\ Placed(input) /\ Locals(input)
      BY <1>1 DEF InputInv, Given
    <2>2. /\ Locals(input') /\ input'.button = b /\ input'.len = input.len
          /\ input'.pos = input.pos /\ input'.show_x = input.show_x /\ input'.input_x = input.input_x
      BY <1>1, <2>1 DEF Locals, InputFields
    <2>3. Given(input') /\ Placed(input')
      BY <2>1, <2>2 DEF Given, Placed
    <2>. QED BY <1>1, <2>2, <2>3 DEF InputInv, Given, Locals
  <1>2. CASE InputTurnBack \/ InputTurnOn
    <2>1. input.open /\ lines' = lines /\ input.button \in {Field, 0, 1}
      BY <1>2 DEF InputTurnBack, InputTurnOn, InputInv, Given
    <2>2. Previous \in {Field, 0, 1} /\ Following \in {Field, 0, 1}
      BY <2>1, SMT DEF Previous, Following, Field
    <2>. QED BY <1>1, <1>2, <2>1, <2>2 DEF InputTurnBack, InputTurnOn
  <1>3. ASSUME NEW res, InputReturn(res) PROVE InputInv'
    BY <1>3 DEF InputReturn, InputClosed, InputInv
  <1>4. CASE UNCHANGED input_vars
    BY <1>4 DEF input_vars, InputInv
  <1>. QED BY <1>2, <1>3, <1>4

\* A new dialog, and another size of the terminal.
LEMMA OpenKeeps ==
    ASSUME InputInv, NEW len \in Lengths, NEW h, dialog_inputbox(h, len)
    PROVE  InputInv'
  <1>. DEFINE d == [open |-> TRUE, height |-> h, len |-> len, edited |-> FALSE, pos |-> 0,
                    show_x |-> 0, input_x |-> 0, button |-> Field]
  <1>1. Locals(d)
    BY DEF Locals, InputFields
  <1>2. d.len = len /\ d.button = Field /\ len \in 0..MAX_LEN
    BY LengthsAssumption
  <1>3. input' = input_do_resize(d, lines) /\ lines' = lines /\ lines \in Nat
    BY DEF dialog_inputbox, InputInv
  <1>. HIDE DEF d
  <1>4. Given(d)
    BY <1>1, <1>2 DEF Given
  <1>. QED BY <1>3, <1>4, LayoutFits DEF InputInv, Fits

LEMMA ResizeKeeps == ASSUME InputInv, NEW l \in Heights, InputResize(l) PROVE InputInv'
  <1>1. input' = input_do_resize(input, l) /\ lines' = l /\ l \in Nat /\ Given(input)
    BY HeightsAssumption DEF InputResize, InputInv
  <1>. QED BY <1>1, LayoutFits DEF InputInv, Fits

LEMMA InputStep == ASSUME InputInv, [InputNext]_input_vars PROVE InputInv'
  <1>1. CASE InputEnter
    <2>1. ResultOf(input.button) \in {"ok", "help", KEY_ESC}
      BY DEF ResultOf
    <2>. QED BY <1>1, <2>1, OtherKeeps DEF InputEnter
  <1>. QED BY <1>1, EditKeeps, OtherKeeps, OpenKeeps, ResizeKeeps DEF InputNext, InputLetter, InputLeave

--------------------------------------------------------------------------------
(* dialog_textbox                                                                  *)

TextFields == {"open", "end", "unended", "initial", "update", "vscroll", "hscroll0", "page",
               "begin_reached", "end_reached", "page_length", "hscroll", "height", "boxh", "top"}
\* The locals of an open text box, wherever its pointer is.
Reading(t) ==
    /\ DOMAIN t = TextFields /\ t = [f \in TextFields |-> t[f]] /\ t.open = TRUE
    /\ t.end \in Nat \ {0} /\ t.unended \in BOOLEAN /\ t.initial \in {0, 5, 6} /\ t.update \in BOOLEAN
    /\ t.page \in 0..t.end /\ t.begin_reached \in BOOLEAN /\ t.end_reached \in BOOLEAN
    /\ t.boxh \in Nat
\* What moving the pointer leaves alone.
OnlyPointer(t, u) ==
    /\ DOMAIN u = TextFields /\ u = [f \in TextFields |-> u[f]] /\ u.open = TRUE
    /\ u.end = t.end /\ u.unended = t.unended /\ u.initial = t.initial /\ u.update = t.update
    /\ u.boxh = t.boxh /\ u.height = t.height
SameBox(t, u) == OnlyPointer(t, u) /\ Reading(u)
\* The pointer is at the first line if and only if that is noticed.
StartNoticed(t) == t.begin_reached <=> t.page = 0
\* A page that was printed: the pointer behind it, its length and the flags.
OnPage(t) ==
    /\ Reading(t) /\ t.height = t.boxh + 4 /\ t.top \in 0..t.end
    /\ t.page = Minimum(t.top + t.boxh, t.end)
    /\ t.page_length = Minimum(t.boxh, IF t.unended THEN Maximum(t.end - t.top, 1) ELSE t.end - t.top + 1)
    /\ t.boxh > 0 =>
         /\ t.begin_reached <=> t.top = 0
         /\ t.end_reached <=> IF t.unended THEN t.top + t.boxh >= t.end ELSE t.top + t.boxh > t.end

TextInv == lines \in Nat /\ text.open \in BOOLEAN /\ (text.open => OnPage(text))

\* get_line goes on to the end at most, and says whether it met it.
LEMMA LineGoesOn ==
    ASSUME NEW t, Reading(t), NEW n \in Nat
    PROVE  LET u == get_lines(t, n)
           IN /\ SameBox(t, u) /\ u.page = Minimum(t.page + n, t.end)
              /\ u.begin_reached = t.begin_reached
              /\ n > 0 => (u.end_reached <=> IF t.unended THEN t.page + n >= t.end ELSE t.page + n > t.end)
  <1>. DEFINE u == get_lines(t, n)
              at == Minimum(t.page + n, t.end)
              met == IF n = 0 THEN t.end_reached
                     ELSE IF t.unended THEN t.page + n >= t.end ELSE t.page + n > t.end
  <1>1. t.end \in Nat \ {0} /\ t.page \in 0..t.end
    BY DEF Reading
  <1>2. at \in 0..t.end
    BY <1>1 DEF Minimum
  <1>3. met \in BOOLEAN
    <2>1. CASE n = 0
      BY <2>1 DEF Reading
    <2>2. CASE n # 0 /\ t.unended
      BY <2>2
    <2>3. CASE n # 0 /\ ~t.unended
      BY <2>3
    <2>. QED BY <2>1, <2>2, <2>3
  <1>4. u = [t EXCEPT !.page = at, !.end_reached = met]
    BY DEF get_lines
  <1>5. n > 0 => (met <=> IF t.unended THEN t.page + n >= t.end ELSE t.page + n > t.end)
    OBVIOUS
  <1>. HIDE DEF u, at, met
  <1>6. /\ OnlyPointer(t, u) /\ u.page = at /\ u.begin_reached = t.begin_reached /\ u.end_reached = met
    BY <1>4 DEF Reading, TextFields, OnlyPointer
  <1>7. SameBox(t, u)
    BY <1>2, <1>3, <1>6 DEF Reading, SameBox, OnlyPointer
  <1>. QED BY <1>5, <1>6, <1>7 DEF u, at

\* back_lines goes back to the first line at most, and says whether it met it.  The end,
\* when it was noticed, takes one of the lines.
Counted(t, n) == n > 0 /\ t.page = t.end /\ t.end_reached
Back(t, n) == IF Counted(t, n) THEN n - 1 ELSE Maximum(n, 0)
LEMMA GoesBack ==
    ASSUME NEW t, Reading(t), NEW n \in Int
    PROVE  LET u == back_lines(t, n)
           IN /\ SameBox(t, u) /\ Back(t, n) \in Nat /\ u.page = Maximum(t.page - Back(t, n), 0)
              /\ u.begin_reached <=> Back(t, n) > 0 /\ t.page <= Back(t, n)
              /\ Back(t, n) > 0 \/ t.page > 0 => StartNoticed(u)
  <1>. DEFINE u == back_lines(t, n)
              k == Back(t, n)
              at == Maximum(t.page - k, 0)
              met == k > 0 /\ t.page <= k
              ended == IF Counted(t, n) THEN FALSE ELSE t.end_reached
  <1>1. t.end \in Nat \ {0} /\ t.page \in 0..t.end
    BY DEF Reading
  <1>2. k \in Nat
    BY DEF Back, Counted, Maximum
  <1>3. at \in 0..t.end
    <2>. HIDE DEF k
    <2>. QED BY <1>1, <1>2 DEF Maximum
  <1>4. met \in BOOLEAN /\ ended \in BOOLEAN
    BY DEF Reading
  <1>5. u = [t EXCEPT !.page = at, !.begin_reached = met, !.end_reached = ended]
    BY DEF back_lines, Back, Counted
  <1>6. k > 0 \/ t.page > 0 => (met <=> at = 0)
    <2>. HIDE DEF k
    <2>. QED BY <1>1, <1>2 DEF Maximum
  <1>7. met <=> k > 0 /\ t.page <= k
    OBVIOUS
  <1>. HIDE DEF u, at, met, ended
  <1>8. /\ OnlyPointer(t, u) /\ u.page = at /\ u.begin_reached = met /\ u.end_reached = ended
    BY <1>5 DEF Reading, TextFields, OnlyPointer
  <1>9. SameBox(t, u)
    BY <1>3, <1>4, <1>8 DEF Reading, SameBox, OnlyPointer
  <1>. QED BY <1>2, <1>6, <1>7, <1>8, <1>9 DEF u, at, StartNoticed

\* A page that is printed, by a caller that gets the text first or by another.
LEMMA Prints ==
    ASSUME NEW t, Reading(t), t.height = t.boxh + 4, t.update \/ t.boxh = 0 \/ StartNoticed(t)
    PROVE  OnPage(print_page(t))
  <1>. DEFINE g == get_lines(t, t.boxh)
              u == Updated(t, t.boxh)
              v == get_lines(u, t.boxh)
              n == print_page(t)
  <1>1. t.boxh \in Nat /\ t.end \in Nat \ {0} /\ t.page \in 0..t.end
    BY DEF Reading
  <1>2. SameBox(t, u) /\ (t.boxh > 0 => StartNoticed(u))
    <2>1. CASE t.update
      <3>1. SameBox(t, g) /\ g.page = Minimum(t.page + t.boxh, t.end)
        BY <1>1, LineGoesOn
      <3>. HIDE DEF g
      <3>2. Reading(g)
        BY <3>1 DEF SameBox
      <3>3. SameBox(g, back_lines(g, t.boxh))
        BY <1>1, <3>2, GoesBack
      <3>4. t.boxh > 0 => g.page > 0
        BY <1>1, <3>1 DEF Minimum
      <3>5. t.boxh > 0 => StartNoticed(back_lines(g, t.boxh))
        BY <1>1, <3>2, <3>4, GoesBack
      <3>6. u = back_lines(g, t.boxh)
        BY <2>1 DEF Updated, g
      <3>. QED BY <3>1, <3>3, <3>5, <3>6 DEF SameBox, OnlyPointer
    <2>2. CASE ~t.update
      <3>1. u = t
        BY <2>2 DEF Updated
      <3>. QED BY <2>2, <3>1 DEF SameBox, OnlyPointer, Reading
    <2>. QED BY <2>1, <2>2
  <1>3. Reading(u)
    BY <1>2 DEF SameBox
  <1>4. /\ SameBox(u, v) /\ v.page = Minimum(u.page + t.boxh, u.end)
        /\ v.begin_reached = u.begin_reached
        /\ t.boxh > 0 => (v.end_reached <=> IF u.unended THEN u.page + t.boxh >= u.end
                                            ELSE u.page + t.boxh > u.end)
    <2>. HIDE DEF u
    <2>. QED BY <1>1, <1>3, LineGoesOn
  <1>5. n = [v EXCEPT !.page_length = LengthOfPage(u, t.boxh), !.top = u.page]
    BY DEF print_page
  <1>. HIDE DEF u, v, n
  <1>6. /\ DOMAIN n = TextFields /\ n = [f \in TextFields |-> n[f]] /\ n.open = TRUE
        /\ n.end = v.end /\ n.unended = v.unended /\ n.initial = v.initial /\ n.update = v.update
        /\ n.boxh = v.boxh /\ n.height = v.height
        /\ n.page = v.page /\ n.begin_reached = v.begin_reached /\ n.end_reached = v.end_reached
        /\ n.page_length = LengthOfPage(u, t.boxh) /\ n.top = u.page
    BY <1>4, <1>5 DEF SameBox, OnlyPointer, Reading, TextFields
  <1>7. Reading(n)
    BY <1>4, <1>6 DEF SameBox, OnlyPointer, Reading
  <1>8. /\ n.end = t.end /\ n.boxh = t.boxh /\ n.height = t.height
        /\ n.unended = u.unended /\ u.end = t.end /\ u.page \in 0..u.end
    BY <1>2, <1>4, <1>6 DEF SameBox, OnlyPointer, Reading
  <1>9. n.page = Minimum(n.top + n.boxh, n.end)
    BY <1>4, <1>6, <1>8
  <1>10. n.page_length = Minimum(n.boxh, IF n.unended THEN Maximum(n.end - n.top, 1)
                                         ELSE n.end - n.top + 1)
    BY <1>6, <1>8 DEF LengthOfPage
  <1>11. n.boxh > 0 =>
           /\ n.begin_reached <=> n.top = 0
           /\ n.end_reached <=> IF n.unended THEN n.top + n.boxh >= n.end ELSE n.top + n.boxh > n.end
    BY <1>2, <1>4, <1>6, <1>8 DEF StartNoticed
  <1>12. OnPage(n)
    BY <1>1, <1>6, <1>7, <1>8, <1>9, <1>10, <1>11 DEF OnPage
  <1>. QED BY <1>12 DEF n

\* A layout prints the page of the new size, or closes the box.
LEMMA LaysOut ==
    ASSUME NEW t, Reading(t), StartNoticed(t), NEW l \in Nat
    PROVE  LET n == text_do_resize(t, l) IN n.open \in BOOLEAN /\ (n.open => OnPage(n))
  <1>. DEFINE n == text_do_resize(t, l)
              h == IF t.initial = 0 THEN l - 4 ELSE t.initial
              u == [t EXCEPT !.height = h, !.boxh = h - 4]
  <1>1. CASE l < TEXTBOX_HEIGTH_MIN
    <2>1. n.open = FALSE
      BY <1>1 DEF text_do_resize, TextClosed
    <2>. QED BY <2>1
  <1>2. CASE ~(l < TEXTBOX_HEIGTH_MIN)
    <2>1. n = print_page(u)
      BY <1>2 DEF text_do_resize
    <2>2. h - 4 \in Nat /\ h = (h - 4) + 4
      BY <1>2 DEF TEXTBOX_HEIGTH_MIN, Reading
    <2>. HIDE DEF h
    <2>3. /\ DOMAIN u = TextFields /\ u = [f \in TextFields |-> u[f]] /\ u.open = TRUE
          /\ u.end = t.end /\ u.unended = t.unended /\ u.initial = t.initial /\ u.update = t.update
          /\ u.page = t.page /\ u.begin_reached = t.begin_reached /\ u.end_reached = t.end_reached
          /\ u.boxh = h - 4 /\ u.height = h
      BY DEF Reading, TextFields
    <2>. HIDE DEF u, n
    <2>4. Reading(u) /\ StartNoticed(u) /\ u.height = u.boxh + 4
      BY <2>2, <2>3 DEF Reading, StartNoticed
    <2>5. OnPage(n)
      BY <2>1, <2>4, Prints
    <2>. QED BY <2>5 DEF n, OnPage, Reading
  <1>. QED BY <1>1, <1>2

--------------------------------------------------------------------------------
(* The keys.                                                                       *)

\* A key that moves the pointer of a page and prints from there.
LEMMA ShownKeeps ==
    ASSUME TextInv, text.open, NEW u, SameBox(text, u), text.boxh > 0 => StartNoticed(u), Show(u)
    PROVE  TextInv'
  <1>1. OnPage(text) /\ Reading(text)
    BY DEF TextInv, OnPage
  <1>2. Reading(u) /\ u.height = u.boxh + 4 /\ (u.boxh = 0 \/ StartNoticed(u))
    BY <1>1 DEF OnPage, SameBox, OnlyPointer, Reading
  <1>3. OnPage(print_page(u))
    BY <1>2, Prints
  <1>. QED BY <1>3 DEF Show, TextInv, OnPage, Reading

\* Where the pointer is behind a page.
LEMMA BehindPage ==
    ASSUME NEW t, OnPage(t), t.boxh > 0
    PROVE  /\ t.page_length \in Nat \ {0} /\ t.page > 0
           /\ ~t.end_reached => t.page = t.top + t.boxh /\ t.page_length = t.boxh
           /\ ~t.unended => t.page = t.top + t.page_length - (IF t.end_reached THEN 1 ELSE 0)
  <1>1. /\ t.boxh \in Nat \ {0} /\ t.end \in Nat \ {0} /\ t.top \in 0..t.end
        /\ t.page = Minimum(t.top + t.boxh, t.end)
        /\ t.page_length = Minimum(t.boxh, IF t.unended THEN Maximum(t.end - t.top, 1) ELSE t.end - t.top + 1)
        /\ t.end_reached <=> IF t.unended THEN t.top + t.boxh >= t.end ELSE t.top + t.boxh > t.end
    BY DEF OnPage, Reading
  <1>. QED BY <1>1 DEF Minimum, Maximum

LEMMA MoveKeeps == ASSUME TextInv, TextMove PROVE TextInv'
  <1>1. text.open /\ OnPage(text) /\ Reading(text)
    BY DEF TextInv, TextMove, OnPage
  <1>2. /\ text.boxh \in Nat /\ text.end \in Nat \ {0} /\ text.page_length \in Int
        /\ text.boxh > 0 => text.page_length > 0 /\ text.page > 0
    <2>1. text.boxh \in Nat /\ text.end \in Nat \ {0} /\ text.top \in 0..text.end
      BY <1>1 DEF OnPage, Reading
    <2>2. text.page_length \in Int
      BY <1>1, <2>1 DEF OnPage, Minimum, Maximum
    <2>. QED BY <1>1, <2>1, <2>2, BehindPage
  <1>3. ASSUME NEW n \in Int PROVE /\ SameBox(text, back_lines(text, n))
                                   /\ text.boxh > 0 => StartNoticed(back_lines(text, n))
    BY <1>1, <1>2, GoesBack
  <1>4. ASSUME NEW n \in Int, Show(back_lines(text, n)) PROVE TextInv'
    BY <1>1, <1>3, <1>4, ShownKeeps
  <1>5. CASE TextFirst
    <2>. DEFINE u == [text EXCEPT !.begin_reached = TRUE, !.page = 0]
    <2>1. OnlyPointer(text, u) /\ u.page = 0 /\ u.begin_reached = TRUE
          /\ u.end_reached = text.end_reached
      BY <1>1 DEF Reading, TextFields, OnlyPointer
    <2>2. Show(u)
      BY <1>5 DEF TextFirst
    <2>. HIDE DEF u
    <2>3. 0 \in 0..text.end
      BY <1>2
    <2>4. SameBox(text, u) /\ StartNoticed(u)
      BY <1>1, <2>1, <2>3 DEF SameBox, Reading, OnlyPointer, StartNoticed
    <2>. QED BY <1>1, <2>2, <2>4, ShownKeeps
  <1>6. CASE TextLast
    <2>. DEFINE u == [text EXCEPT !.end_reached = TRUE, !.page = text.end]
    <2>1. OnlyPointer(text, u) /\ u.page = text.end /\ u.begin_reached = text.begin_reached
          /\ u.end_reached = TRUE
      BY <1>1 DEF Reading, TextFields, OnlyPointer
    <2>2. Show(back_lines(u, text.boxh))
      BY <1>6 DEF TextLast
    <2>. HIDE DEF u
    <2>3. text.end \in 0..text.end
      BY <1>2
    <2>4. SameBox(text, u)
      BY <1>1, <2>1, <2>3 DEF SameBox, Reading, OnlyPointer
    <2>5. Reading(u) /\ u.page > 0
      BY <1>2, <2>1, <2>4 DEF SameBox
    <2>6. SameBox(u, back_lines(u, text.boxh)) /\ StartNoticed(back_lines(u, text.boxh))
      BY <1>2, <2>5, GoesBack
    <2>. QED BY <1>1, <2>2, <2>4, <2>6, ShownKeeps DEF SameBox, OnlyPointer
  <1>7. CASE TextPageDown
    <2>. DEFINE u == [text EXCEPT !.begin_reached = FALSE]
    <2>1. SameBox(text, u) /\ u.page = text.page /\ u.begin_reached = FALSE
      BY <1>1 DEF SameBox, OnlyPointer, Reading, TextFields
    <2>. HIDE DEF u
    <2>2. text.boxh > 0 => StartNoticed(u)
      BY <1>2, <2>1 DEF StartNoticed
    <2>. QED BY <1>1, <1>7, <2>1, <2>2, ShownKeeps DEF TextPageDown, u
  <1>8. CASE LineUp \/ TextPageUp \/ LineDown
    BY <1>2, <1>4, <1>8 DEF LineUp, TextPageUp, LineDown
  <1>9. ASSUME NEW h, ScrollTo(h) PROVE TextInv'
    <2>. DEFINE b == back_lines(text, text.page_length)
                u == [b EXCEPT !.hscroll = h]
    <2>1. SameBox(text, b) /\ (text.boxh > 0 => StartNoticed(b))
      BY <1>2, <1>3
    <2>2. Show(u)
      BY <1>9 DEF ScrollTo
    <2>. HIDE DEF b
    <2>3. SameBox(text, u) /\ u.page = b.page /\ u.begin_reached = b.begin_reached
      BY <2>1 DEF SameBox, OnlyPointer, Reading, TextFields
    <2>. HIDE DEF u
    <2>4. text.boxh > 0 => StartNoticed(u)
      BY <2>1, <2>3 DEF StartNoticed
    <2>. QED BY <1>1, <2>2, <2>3, <2>4, ShownKeeps
  <1>. QED BY <1>5, <1>6, <1>7, <1>8, <1>9 DEF TextMove, LineStart, ScrollLeft, ScrollRight

\* A text that is shown first, and another size of the terminal.
LEMMA ShowsText ==
    ASSUME TextInv, NEW tbuf \in Texts, NEW initial \in {0, 5, 6}, NEW update \in BOOLEAN,
           NEW hscroll, NEW vscroll \in 0..tbuf.newlines,
           dialog_textbox(tbuf, initial, update, vscroll, hscroll)
    PROVE  TextInv'
  <1>. DEFINE end == tbuf.newlines + (IF tbuf.unended THEN 1 ELSE 0)
              started == vscroll = 0
              t == [open |-> TRUE, end |-> end, unended |-> tbuf.unended,
                    initial |-> initial, update |-> update, vscroll |-> vscroll, hscroll0 |-> hscroll,
                    page |-> 0, begin_reached |-> started, end_reached |-> FALSE, page_length |-> 0,
                    hscroll |-> hscroll, height |-> 0, boxh |-> 0, top |-> 0]
              u == get_lines(t, vscroll)
  <1>1. tbuf.newlines \in Nat /\ tbuf.unended \in BOOLEAN /\ (tbuf.newlines = 0 => tbuf.unended)
    BY TextsAssumption
  <1>2. vscroll \in Nat /\ end \in Nat \ {0} /\ vscroll <= end
    BY <1>1
  <1>3. text' = text_do_resize(u, lines) /\ lines' = lines /\ lines \in Nat
    BY DEF dialog_textbox, TextInv
  <1>. HIDE DEF end
  <1>4. started \in BOOLEAN /\ 0 \in 0..end /\ 0 \in Nat /\ FALSE \in BOOLEAN
    BY <1>2
  <1>5. started <=> vscroll = 0
    OBVIOUS
  <1>. HIDE DEF started
  <1>6. /\ DOMAIN t = TextFields /\ t = [f \in TextFields |-> t[f]] /\ t.open = TRUE
        /\ t.end = end /\ t.unended = tbuf.unended /\ t.initial = initial /\ t.update = update
        /\ t.page = 0 /\ t.begin_reached = started /\ t.end_reached = FALSE /\ t.boxh = 0
    BY DEF TextFields
  <1>. HIDE DEF t
  <1>7. Reading(t) /\ t.page = 0 /\ t.end = end /\ (t.begin_reached <=> vscroll = 0)
    BY <1>1, <1>2, <1>4, <1>5, <1>6 DEF Reading
  <1>8. /\ SameBox(t, u) /\ u.page = Minimum(t.page + vscroll, t.end)
        /\ u.begin_reached = t.begin_reached
    BY <1>2, <1>7, LineGoesOn
  <1>. HIDE DEF u
  <1>9. Reading(u) /\ StartNoticed(u)
    BY <1>2, <1>7, <1>8 DEF SameBox, StartNoticed, Minimum
  <1>. QED BY <1>3, <1>9, LaysOut DEF TextInv

LEMMA ResizesText == ASSUME TextInv, NEW l \in Heights, TextResize(l) PROVE TextInv'
  <1>. DEFINE u == back_lines(text, text.height)
  <1>1. OnPage(text) /\ Reading(text) /\ text.height \in Nat /\ text.height >= 4
    BY DEF TextResize, TextInv, OnPage, Reading
  <1>2. Back(text, text.height) > 0
    BY <1>1 DEF Back, Counted, Maximum
  <1>3. SameBox(text, u) /\ StartNoticed(u)
    BY <1>1, <1>2, GoesBack
  <1>4. text' = text_do_resize(u, l) /\ lines' = l /\ l \in Nat
    BY HeightsAssumption DEF TextResize
  <1>. HIDE DEF u
  <1>. QED BY <1>3, <1>4, LaysOut DEF TextInv, SameBox

LEMMA TextStep == ASSUME TextInv, [TextNext]_text_vars PROVE TextInv'
  <1>1. CASE TextReturn("exit")
    BY <1>1 DEF TextReturn, TextClosed, TextInv
  <1>2. CASE UNCHANGED text_vars
    BY <1>2 DEF text_vars, TextInv
  <1>. QED BY <1>1, <1>2, MoveKeeps, ShowsText, ResizesText DEF TextNext

--------------------------------------------------------------------------------
(* dialog_menu                                                                     *)

(* The inductive invariant: the shape of the locals, the bounds on them, and that  *)
(* until the terminal is resized first_item is the position of the window.         *)
MenuFields == {"open", "hot", "count", "selected", "s_scroll", "max_choice", "choice", "scroll",
           "first_item", "button", "lit", "screen", "resized"}
MenuLocals(m) == DOMAIN m = MenuFields /\ m = [f \in MenuFields |-> m[f]] /\ m.open = TRUE
\* What a layout needs.
MenuGiven(m) ==
    /\ MenuLocals(m)
    /\ m.hot \in Seq(Letters) /\ m.count \in Nat /\ Len(m.hot) = m.count
    /\ m.selected \in NoItem..(m.count - 1) /\ m.s_scroll \in Int
    /\ m.choice \in Nat
    /\ m.choice < m.count \/ m.choice = 0
    /\ m.first_item \in Nat /\ m.button \in 0..4 /\ m.resized \in BOOLEAN
\* What a layout makes and the keys keep.
MenuLaidOut(m, l) ==
    /\ MenuGiven(m) /\ m.lit \in 0..4
    /\ l >= MENUBOX_HEIGTH_MIN /\ m.max_choice = Minimum(l - 14, m.count)
    /\ m.scroll \in Nat /\ m.scroll + m.max_choice <= m.count
    /\ m.count # 0 => m.choice < m.max_choice
    /\ m.screen = [i \in 0..(m.max_choice - 1) |-> m.screen[i]]
    /\ ~m.resized => /\ m.screen = Drawn(m.scroll, m.max_choice, m.choice)
                     /\ m.lit = m.button
MenuInv == lines \in Nat /\ menu.open \in BOOLEAN /\ (menu.open => MenuLaidOut(menu, lines))

\* The selected item in the middle of the window, or the window at the end of the list.
LEMMA CentreFits ==
    ASSUME NEW choice \in Nat, NEW max_choice \in Nat, NEW count \in Nat,
           max_choice <= count, choice >= max_choice, choice < count \/ choice = 0,
           count # 0 => max_choice # 0
    PROVE  LET at == Centred(choice, max_choice, count)
           IN /\ at \in Nat /\ at + max_choice <= count /\ choice - at \in Nat
              /\ count # 0 => choice - at < max_choice
  <1>1. CASE choice >= count - (max_choice \div 2)
    BY <1>1, SMT DEF Centred
  <1>2. CASE ~(choice >= count - (max_choice \div 2))
    BY <1>2, SMT DEF Centred
  <1>. QED BY <1>1, <1>2

\* Where a layout puts the window, whatever position was kept.
LEMMA WindowFits ==
    ASSUME NEW m, MenuGiven(m), NEW max_choice \in Nat, max_choice <= m.count,
           m.count # 0 => max_choice # 0
    PROVE  LET w == Centre(Restore(m, IF m.selected = NoItem THEN m.choice ELSE m.selected, max_choice),
                           max_choice, m.count)
           IN /\ w.scroll \in Nat /\ w.scroll + max_choice <= m.count
              /\ w.choice \in Nat
              /\ m.count # 0 => w.choice < max_choice
              /\ m.count = 0 => w.choice = 0
              /\ w.first_item \in Nat
              /\ m.first_item = 0 => w.first_item = w.scroll
  <1>. DEFINE choice == IF m.selected = NoItem THEN m.choice ELSE m.selected
              r == Restore(m, choice, max_choice)
  <1>0. m.count \in Nat /\ m.s_scroll \in Int /\ m.first_item \in Nat
    BY DEF MenuGiven
  <1>1. choice \in Nat /\ (choice < m.count \/ choice = 0)
    BY SMT DEF MenuGiven, NoItem
  <1>2. /\ r.scroll \in Nat /\ r.scroll + max_choice <= m.count
        /\ r.choice \in Nat /\ (r.choice < m.count \/ r.choice = 0)
        /\ r.first_item \in Nat
        /\ m.first_item = 0 => r.first_item = r.scroll
    <2>. HIDE DEF choice
    <2>1. CASE Kept(m.s_scroll, choice, max_choice, m.count)
      <3>1. r = [scroll |-> m.s_scroll, first_item |-> m.s_scroll, choice |-> choice - m.s_scroll]
        BY <2>1 DEF Restore
      <3>2. /\ m.s_scroll \in Nat /\ m.s_scroll + max_choice <= m.count
            /\ choice - m.s_scroll \in Nat
            /\ choice - m.s_scroll < m.count \/ choice - m.s_scroll = 0
        BY <1>0, <1>1, <2>1, SMT DEF Kept
      <3>. HIDE DEF r
      <3>. QED BY <3>1, <3>2
    <2>2. CASE ~Kept(m.s_scroll, choice, max_choice, m.count)
      <3>1. r = [scroll |-> 0, first_item |-> m.first_item, choice |-> choice]
        BY <2>2 DEF Restore
      <3>. HIDE DEF r
      <3>. QED BY <1>0, <1>1, <3>1, SMT
    <2>. QED BY <2>1, <2>2
  <1>. HIDE DEF r
  <1>3. CASE r.choice < max_choice
    <2>1. Centre(r, max_choice, m.count) = r
      BY <1>3 DEF Centre
    <2>. QED BY <1>0, <1>2, <1>3, <2>1, SMT DEF r
  <1>4. CASE ~(r.choice < max_choice)
    <2>. DEFINE at == Centred(r.choice, max_choice, m.count)
    <2>1. /\ at \in Nat /\ at + max_choice <= m.count /\ r.choice - at \in Nat
          /\ m.count # 0 => r.choice - at < max_choice
      BY <1>0, <1>2, <1>4, CentreFits
    <2>2. Centre(r, max_choice, m.count) = [scroll |-> at, first_item |-> at, choice |-> r.choice - at]
      BY <1>4 DEF Centre
    <2>3. m.count = 0 => r.choice - at = 0
      BY <1>0, <1>2, <1>4, <2>1, SMT
    <2>. HIDE DEF at
    <2>. QED BY <2>1, <2>2, <2>3 DEF r
  <1>. QED BY <1>3, <1>4

\* A layout leaves the dialog closed or laid out.
LEMMA MenuLayoutFits ==
    ASSUME NEW m, MenuGiven(m), NEW l \in Nat, m.resized \/ m.first_item = 0, m.resized \/ m.button = 0
    PROVE  LET n == menu_do_resize(m, l)
           IN n.open \in BOOLEAN /\ (n.open => MenuLaidOut(n, l))
  <1>. DEFINE max_choice == Minimum(l - 14, m.count)
              w == Centre(Restore(m, IF m.selected = NoItem THEN m.choice ELSE m.selected, max_choice),
                          max_choice, m.count)
              n == menu_do_resize(m, l)
  <1>. SUFFICES n.open \in BOOLEAN /\ (n.open => MenuLaidOut(n, l))
    OBVIOUS
  <1>1. CASE l < MENUBOX_HEIGTH_MIN
    BY <1>1 DEF menu_do_resize, MenuClosed
  <1>2. CASE ~(l < MENUBOX_HEIGTH_MIN)
    <2>0. m.count \in Nat
      BY DEF MenuGiven
    <2>1. max_choice \in Nat /\ max_choice <= m.count /\ (m.count # 0 => max_choice # 0)
      BY <1>2, <2>0, SMT DEF Minimum, MENUBOX_HEIGTH_MIN
    <2>2. /\ w.scroll \in Nat /\ w.scroll + max_choice <= m.count
          /\ w.choice \in Nat
          /\ m.count # 0 => w.choice < max_choice
          /\ m.count = 0 => w.choice = 0
          /\ w.first_item \in Nat
          /\ m.first_item = 0 => w.first_item = w.scroll
      BY <2>1, WindowFits
    <2>3. CASE w.first_item + max_choice > m.count
      BY <1>2, <2>3 DEF menu_do_resize, MenuClosed
    <2>4. CASE ~(w.first_item + max_choice > m.count)
      <3>1. n = [m EXCEPT !.max_choice = max_choice, !.choice = w.choice, !.scroll = w.scroll,
                          !.first_item = w.first_item,
                          !.screen = Drawn(w.first_item, max_choice, w.choice), !.lit = 0]
        BY <1>2, <2>4 DEF menu_do_resize
      <3>. HIDE DEF w, n
      <3>. HIDE DEF max_choice
      <3>2. MenuLocals(m)
        BY DEF MenuGiven
      <3>3. /\ MenuLocals(n) /\ n.hot = m.hot /\ n.count = m.count /\ n.selected = m.selected
            /\ n.s_scroll = m.s_scroll /\ n.button = m.button /\ n.resized = m.resized
        BY <3>1, <3>2 DEF MenuLocals, MenuFields
      <3>4. /\ n.max_choice = max_choice /\ n.choice = w.choice /\ n.scroll = w.scroll
            /\ n.first_item = w.first_item /\ n.lit = 0
            /\ n.screen = Drawn(w.first_item, max_choice, w.choice)
        BY <3>1, <3>2 DEF MenuLocals, MenuFields
      <3>5. n.choice < n.count \/ n.choice = 0
        BY <2>0, <2>1, <2>2, <3>3, <3>4, SMT
      <3>6. MenuGiven(n)
        BY <2>2, <3>3, <3>4, <3>5 DEF MenuGiven
      <3>7. l >= MENUBOX_HEIGTH_MIN
        BY <1>2, SMT DEF MENUBOX_HEIGTH_MIN
      <3>8. n.max_choice = Minimum(l - 14, n.count)
        BY <3>3, <3>4 DEF max_choice
      <3>9. n.screen = [i \in 0..(n.max_choice - 1) |-> n.screen[i]]
        BY <3>4 DEF Drawn
      <3>10. ~n.resized => n.screen = Drawn(n.scroll, n.max_choice, n.choice) /\ n.lit = n.button
        BY <2>2, <3>3, <3>4
      <3>11. n.lit \in 0..4
        BY <3>4, SMT
      <3>12. MenuLaidOut(n, l)
        BY <2>2, <3>3, <3>4, <3>6, <3>7, <3>8, <3>9, <3>10, <3>11 DEF MenuLaidOut
      <3>. QED BY <3>3, <3>12 DEF MenuLocals
    <2>. QED BY <2>3, <2>4
  <1>. QED BY <1>1, <1>2

--------------------------------------------------------------------------------
(* Drawing by increments.                                                        *)
MenuRows(m) == 0..(m.max_choice - 1)
\* A screen on which every row shows its item of the window at scroll, none highlighted.
Plain(screen, scroll, rows) == \A i \in rows : screen[i] = Row(scroll + i, FALSE)

LEMMA UnlitIsPlain ==
    ASSUME MenuLaidOut(menu, lines), menu.count # 0
    PROVE  /\ Unlit = [i \in MenuRows(menu) |-> Unlit[i]]
           /\ ~menu.resized => Plain(Unlit, menu.scroll, MenuRows(menu))
  <1>1. menu.screen = [i \in MenuRows(menu) |-> menu.screen[i]]
    BY DEF MenuLaidOut, MenuRows
  <1>2. Unlit = [menu.screen EXCEPT ![menu.choice] = Row(menu.scroll + menu.choice, FALSE)]
    BY DEF Unlit, print_item
  <1>3. ASSUME ~menu.resized, NEW i \in MenuRows(menu) PROVE Unlit[i] = Row(menu.scroll + i, FALSE)
    <2>1. menu.screen[i] = Row(menu.scroll + i, i = menu.choice)
      BY <1>3 DEF MenuLaidOut, Drawn, MenuRows
    <2>2. CASE i = menu.choice
      BY <1>1, <1>2, <2>2
    <2>3. CASE i # menu.choice
      <3>1. (i = menu.choice) = FALSE
        BY <2>3
      <3>. QED BY <1>1, <1>2, <2>1, <2>3, <3>1
    <2>. QED BY <2>2, <2>3
  <1>. QED BY <1>1, <1>2, <1>3 DEF Plain

LEMMA ScrollIsPlain ==
    ASSUME NEW screen, NEW rows \in SUBSET Int, NEW scroll \in Int, NEW n \in Int,
           screen = [i \in rows |-> screen[i]]
    PROVE  LET s == do_scroll(screen, scroll, n)
           IN /\ s = [i \in rows |-> s[i]]
              /\ Plain(screen, scroll, rows) => Plain(s, scroll + n, rows)
  <1>. DEFINE s == do_scroll(screen, scroll, n)
  <1>1. s = [i \in rows |-> IF i + n \in rows THEN screen[i + n] ELSE Row(scroll + n + i, FALSE)]
    BY DEF do_scroll
  <1>. HIDE DEF s
  <1>2. ASSUME Plain(screen, scroll, rows), NEW i \in rows PROVE s[i] = Row(scroll + n + i, FALSE)
    <2>1. scroll + (i + n) = scroll + n + i
      BY SMT
    <2>2. CASE i + n \in rows
      BY <1>1, <1>2, <2>1, <2>2 DEF Plain
    <2>3. CASE i + n \notin rows
      BY <1>1, <2>3
    <2>. QED BY <2>2, <2>3
  <1>. QED BY <1>1, <1>2 DEF Plain, s

\* A plain screen on which the choice is highlighted is the window.
LEMMA MenuLitIsDrawn ==
    ASSUME NEW screen, NEW scroll, NEW max \in Nat, NEW choice \in 0..(max - 1),
           screen = [i \in 0..(max - 1) |-> screen[i]], Plain(screen, scroll, 0..(max - 1))
    PROVE  print_item(screen, scroll + choice, choice, TRUE) = Drawn(scroll, max, choice)
  <1>. DEFINE rows == 0..(max - 1)
              s == print_item(screen, scroll + choice, choice, TRUE)
  <1>1. s = [i \in rows |-> IF i = choice THEN Row(scroll + choice, TRUE) ELSE screen[i]]
    BY DEF print_item
  <1>2. Drawn(scroll, max, choice) = [i \in rows |-> Row(scroll + i, i = choice)]
    BY DEF Drawn
  <1>3. ASSUME NEW i \in rows
        PROVE  (IF i = choice THEN Row(scroll + choice, TRUE) ELSE screen[i]) = Row(scroll + i, i = choice)
    <2>1. CASE i = choice
      BY <2>1
    <2>2. CASE i # choice
      <3>1. (i = choice) = FALSE
        BY <2>2
      <3>. QED BY <2>2, <3>1 DEF Plain
    <2>. QED BY <2>1, <2>2
  <1>. HIDE DEF rows, s
  <1>4. s = Drawn(scroll, max, choice)
    BY <1>1, <1>2, <1>3
  <1>. QED BY <1>4 DEF s

--------------------------------------------------------------------------------
(* The keys.                                                                     *)
\* What the moves need of the invariant.
LEMMA MenuBounds ==
    ASSUME MenuInv, InList
    PROVE  /\ MenuLaidOut(menu, lines) /\ menu.open /\ menu.count # 0
           /\ menu.count \in Nat /\ menu.max_choice \in Nat /\ menu.scroll \in Nat
           /\ menu.choice \in Nat /\ menu.choice < menu.max_choice
           /\ menu.scroll + menu.max_choice <= menu.count
           /\ lines \in Nat
  <1>1. MenuLaidOut(menu, lines) /\ MenuGiven(menu) /\ menu.count # 0 /\ lines \in Nat /\ menu.open
    BY DEF MenuInv, InList, MenuLaidOut
  <1>2. /\ menu.count \in Nat /\ menu.choice \in Nat /\ menu.scroll \in Nat
        /\ menu.choice < menu.max_choice /\ menu.scroll + menu.max_choice <= menu.count
        /\ menu.max_choice = Minimum(lines - 14, menu.count) /\ lines >= 15
    BY <1>1 DEF MenuLaidOut, MenuGiven, MENUBOX_HEIGTH_MIN
  <1>3. menu.max_choice \in Nat
    BY <1>1, <1>2, SMT DEF Minimum
  <1>. QED BY <1>1, <1>2, <1>3

\* A move of the choice on a plain screen keeps the invariant.
LEMMA MenuMoveFits ==
    ASSUME MenuInv, menu.open, menu.count # 0, NEW screen, NEW scroll \in Nat, NEW choice \in Nat,
           MenuMoveTo(screen, scroll, choice),
           scroll + menu.max_choice <= menu.count, choice < menu.max_choice,
           screen = [i \in MenuRows(menu) |-> screen[i]],
           ~menu.resized => Plain(screen, scroll, MenuRows(menu))
    PROVE  MenuInv'
  <1>1. MenuLaidOut(menu, lines) /\ MenuGiven(menu) /\ MenuLocals(menu)
    BY DEF MenuInv, MenuLaidOut, MenuGiven
  <1>2. menu' = [menu EXCEPT !.choice = choice, !.scroll = scroll,
                             !.screen = print_item(screen, scroll + choice, choice, TRUE)]
    BY DEF MenuMoveTo
  <1>3. /\ MenuLocals(menu') /\ menu'.hot = menu.hot /\ menu'.count = menu.count
        /\ menu'.selected = menu.selected /\ menu'.s_scroll = menu.s_scroll
        /\ menu'.button = menu.button /\ menu'.resized = menu.resized
        /\ menu'.first_item = menu.first_item /\ menu'.max_choice = menu.max_choice
        /\ menu'.lit = menu.lit
    BY <1>1, <1>2 DEF MenuLocals, MenuFields
  <1>4. /\ menu'.choice = choice /\ menu'.scroll = scroll
        /\ menu'.screen = print_item(screen, scroll + choice, choice, TRUE)
    BY <1>1, <1>2 DEF MenuLocals, MenuFields
  <1>5. menu.count \in Nat /\ menu.max_choice \in Nat /\ menu.max_choice <= menu.count
    BY MenuBounds, SMT DEF InList
  <1>6. choice < menu.count /\ choice \in 0..(menu.max_choice - 1)
    BY <1>5, SMT
  <1>7. menu'.screen = [i \in 0..(menu'.max_choice - 1) |-> menu'.screen[i]]
    BY <1>3, <1>4 DEF print_item, MenuRows
  <1>8. ~menu'.resized => /\ menu'.screen = Drawn(menu'.scroll, menu'.max_choice, menu'.choice)
                          /\ menu'.lit = menu'.button
    <2>1. ~menu.resized => print_item(screen, scroll + choice, choice, TRUE)
                           = Drawn(scroll, menu.max_choice, choice)
      BY <1>5, <1>6, MenuLitIsDrawn DEF MenuRows
    <2>2. ~menu.resized => menu.lit = menu.button
      BY <1>1 DEF MenuLaidOut
    <2>. QED BY <1>3, <1>4, <2>1, <2>2
  <1>9. MenuGiven(menu')
    BY <1>1, <1>3, <1>4, <1>6 DEF MenuGiven
  <1>10. MenuLaidOut(menu', lines)
    BY <1>1, <1>3, <1>4, <1>7, <1>8, <1>9 DEF MenuLaidOut
  <1>. QED BY <1>3, <1>10 DEF MenuInv, MenuMoveTo, MenuLocals

\* A move within the window, and a scroll by n rows.
LEMMA StepFits ==
    ASSUME MenuInv, InList, NEW choice \in Nat, choice < menu.max_choice,
           MenuMoveTo(Unlit, menu.scroll, choice)
    PROVE  MenuInv'
  <1>. DEFINE screen == Unlit
  <1>1. /\ screen = [i \in MenuRows(menu) |-> screen[i]]
        /\ ~menu.resized => Plain(screen, menu.scroll, MenuRows(menu))
    BY MenuBounds, UnlitIsPlain
  <1>. HIDE DEF screen
  <1>2. MenuMoveTo(screen, menu.scroll, choice)
    BY DEF screen
  <1>. QED BY <1>1, <1>2, MenuBounds, MenuMoveFits

LEMMA ScrollFits ==
    ASSUME MenuInv, InList, NEW n \in Int, NEW choice \in Nat, choice < menu.max_choice,
           menu.scroll + n \in Nat, menu.scroll + n + menu.max_choice <= menu.count,
           Scroll(n, choice)
    PROVE  MenuInv'
  <1>. DEFINE unlit == Unlit
              screen == do_scroll(unlit, menu.scroll, n)
              scroll == menu.scroll + n
  <1>1. /\ unlit = [i \in MenuRows(menu) |-> unlit[i]]
        /\ ~menu.resized => Plain(unlit, menu.scroll, MenuRows(menu))
    BY MenuBounds, UnlitIsPlain
  <1>2. MenuRows(menu) \in SUBSET Int /\ menu.scroll \in Int
    BY MenuBounds DEF MenuRows
  <1>. HIDE DEF unlit
  <1>3. /\ screen = [i \in MenuRows(menu) |-> screen[i]]
        /\ ~menu.resized => Plain(screen, scroll, MenuRows(menu))
    BY <1>1, <1>2, ScrollIsPlain
  <1>4. MenuMoveTo(screen, scroll, choice)
    BY DEF Scroll, unlit
  <1>5. scroll \in Nat /\ scroll + menu.max_choice <= menu.count
    OBVIOUS
  <1>. HIDE DEF screen, scroll
  <1>. QED BY <1>3, <1>4, <1>5, MenuBounds, MenuMoveFits

\* The keys that move in the list.
LEMMA MenuFirstIsLeast ==
    ASSUME NEW rows \in SUBSET Nat, rows # {}
    PROVE  FirstOf(rows) \in rows /\ \A j \in rows : FirstOf(rows) <= j
  <1>1. PICK x \in rows : \A y \in rows : ~(<<y, x>> \in OpToRel(<, Nat))
    BY NatLessThanWellFounded, WFMin
  <1>2. \A y \in rows : ~(y < x)
    BY <1>1, Zenon DEF OpToRel
  <1>3. \A y \in rows : x <= y
    BY <1>2, SMT
  <1>. QED BY <1>3 DEF FirstOf

LEMMA MenuMoveKeeps == ASSUME MenuInv, MenuMove PROVE MenuInv'
  <1>0. InList
    BY DEF MenuMove, MenuUp, MenuDown, MenuPageUp, MenuPageDown, MenuHotKey
  <1>. DEFINE last == menu.count - menu.max_choice - menu.scroll
  <1>b. /\ menu.count \in Nat /\ menu.max_choice \in Nat /\ menu.scroll \in Nat
        /\ menu.choice \in Nat /\ menu.choice < menu.max_choice
        /\ menu.scroll + menu.max_choice <= menu.count
    BY <1>0, MenuBounds
  <1>1. CASE MenuUp
    <2>1. CASE menu.choice < 2 /\ menu.scroll > 0
      <3>1. -1 \in Int /\ menu.scroll + -1 \in Nat /\ menu.scroll + -1 + menu.max_choice <= menu.count
        BY <1>b, <2>1, SMT
      <3>. QED BY <1>0, <1>1, <1>b, <2>1, <3>1, ScrollFits DEF MenuUp
    <2>2. CASE ~(menu.choice < 2 /\ menu.scroll > 0)
      <3>1. Maximum(menu.choice - 1, 0) \in Nat /\ Maximum(menu.choice - 1, 0) < menu.max_choice
        BY <1>b, SMT DEF Maximum
      <3>. QED BY <1>0, <1>1, <2>2, <3>1, StepFits DEF MenuUp
    <2>. QED BY <2>1, <2>2
  <1>2. CASE MenuDown
    <2>1. CASE menu.choice > menu.max_choice - 3 /\ menu.scroll + menu.max_choice < menu.count
      <3>1. menu.scroll + 1 \in Nat /\ menu.scroll + 1 + menu.max_choice <= menu.count
        BY <1>b, <2>1, SMT
      <3>. QED BY <1>0, <1>2, <1>b, <2>1, <3>1, ScrollFits DEF MenuDown
    <2>2. CASE ~(menu.choice > menu.max_choice - 3 /\ menu.scroll + menu.max_choice < menu.count)
      <3>1. /\ Minimum(menu.choice + 1, menu.max_choice - 1) \in Nat
            /\ Minimum(menu.choice + 1, menu.max_choice - 1) < menu.max_choice
        BY <1>b, SMT DEF Minimum
      <3>. QED BY <1>0, <1>2, <2>2, <3>1, StepFits DEF MenuDown
    <2>. QED BY <2>1, <2>2
  <1>3. CASE MenuPageUp
    <2>. DEFINE n == Minimum(menu.max_choice, menu.scroll)
                choice == Maximum(menu.choice - (menu.max_choice - n), 0)
    <2>1. /\ -n \in Int /\ menu.scroll + -n \in Nat
          /\ menu.scroll + -n + menu.max_choice <= menu.count
          /\ choice \in Nat /\ choice < menu.max_choice
      BY <1>b, SMT DEF Minimum, Maximum
    <2>2. Scroll(-n, choice)
      BY <1>3 DEF MenuPageUp
    <2>. HIDE DEF n, choice
    <2>. QED BY <1>0, <2>1, <2>2, ScrollFits
  <1>4. CASE MenuPageDown
    <2>. DEFINE n == Minimum(menu.max_choice, last)
                choice == Minimum(menu.choice + (menu.max_choice - n), menu.max_choice - 1)
    <2>1. /\ n \in Int /\ menu.scroll + n \in Nat
          /\ menu.scroll + n + menu.max_choice <= menu.count
          /\ choice \in Nat /\ choice < menu.max_choice
      BY <1>b, SMT DEF Minimum
    <2>2. Scroll(n, choice)
      BY <1>4 DEF MenuPageDown
    <2>. HIDE DEF n, choice
    <2>. QED BY <1>0, <2>1, <2>2, ScrollFits
  <1>5. ASSUME NEW c \in Letters, MenuHotKey(c) PROVE MenuInv'
    <2>. DEFINE after == {i \in MenuRowsWith(c) : i > menu.choice}
                rows == IF after # {} THEN after ELSE MenuRowsWith(c)
    <2>1. rows # {} /\ rows \subseteq 0..(menu.max_choice - 1)
      BY <1>5 DEF MenuHotKey, MenuRowsWith
    <2>2. MenuMoveTo(Unlit, menu.scroll, FirstOf(rows))
      BY <1>5 DEF MenuHotKey
    <2>. HIDE DEF rows
    <2>0. 0..(menu.max_choice - 1) \subseteq Nat
      OBVIOUS
    <2>3. FirstOf(rows) \in 0..(menu.max_choice - 1)
      BY <2>0, <2>1, MenuFirstIsLeast
    <2>4. FirstOf(rows) \in Nat /\ FirstOf(rows) < menu.max_choice
      BY <1>b, <2>3, SMT
    <2>. QED BY <1>0, <2>2, <2>4, StepFits
  <1>. QED BY <1>1, <1>2, <1>3, <1>4, <1>5 DEF MenuMove

\* A dialog that is closed stays as it is or is opened; one that is open ends with a
\* result, lights another button, or is laid out again.
LEMMA MenuOtherKeeps ==
    ASSUME MenuInv,
           \/ \E by \in {1, -1} : MenuTurn(by)
           \/ \E res \in MenuKeys : MenuReturn(res)
           \/ MenuLeave
           \/ UNCHANGED menu_vars
    PROVE  MenuInv'
  <1>1. ASSUME NEW by \in {1, -1}, MenuTurn(by) PROVE MenuInv'
    <2>. DEFINE b == (menu.button + by) % 5
    <2>1. MenuLaidOut(menu, lines) /\ MenuGiven(menu) /\ MenuLocals(menu) /\ menu.button \in 0..4
      BY <1>1 DEF MenuTurn, MenuInv, MenuLaidOut, MenuGiven
    <2>2. b \in 0..4
      BY <2>1, SMT
    <2>. HIDE DEF b
    <2>3. menu' = [menu EXCEPT !.button = b, !.lit = b]
      BY <1>1 DEF MenuTurn, b
    <2>4. /\ MenuLocals(menu') /\ menu'.hot = menu.hot /\ menu'.count = menu.count
          /\ menu'.selected = menu.selected /\ menu'.s_scroll = menu.s_scroll
          /\ menu'.first_item = menu.first_item /\ menu'.max_choice = menu.max_choice
          /\ menu'.choice = menu.choice /\ menu'.scroll = menu.scroll
          /\ menu'.screen = menu.screen /\ menu'.resized = menu.resized
      BY <2>1, <2>3 DEF MenuLocals, MenuFields
    <2>5. menu'.button = b /\ menu'.lit = b
      BY <2>1, <2>3 DEF MenuLocals, MenuFields
    <2>6. MenuGiven(menu')
      BY <2>1, <2>2, <2>4, <2>5 DEF MenuGiven
    <2>7. MenuLaidOut(menu', lines)
      BY <2>1, <2>2, <2>4, <2>5, <2>6 DEF MenuLaidOut
    <2>. QED BY <1>1, <2>4, <2>7 DEF MenuInv, MenuTurn, MenuLocals
  <1>2. ASSUME NEW res \in MenuKeys, MenuReturn(res) PROVE MenuInv'
    BY <1>2 DEF MenuReturn, MenuClosed, MenuInv
  <1>3. CASE MenuLeave
    BY <1>3 DEF MenuLeave, MenuClosed, MenuInv
  <1>4. CASE UNCHANGED menu_vars
    BY <1>4 DEF menu_vars, MenuInv
  <1>. QED BY <1>1, <1>2, <1>3, <1>4

\* A new dialog.
LEMMA MenuOpenKeeps ==
    ASSUME MenuInv, NEW hot \in Lists, NEW s_scroll \in Scrolls,
           NEW selected \in NoItem..(Len(hot) - 1), dialog_menu(hot, selected, s_scroll)
    PROVE  MenuInv'
  <1>. DEFINE m == [open |-> TRUE, hot |-> hot, count |-> Len(hot), selected |-> selected,
                    s_scroll |-> s_scroll, max_choice |-> 0, choice |-> 0, scroll |-> 0,
                    first_item |-> 0, button |-> 0, lit |-> 0, screen |-> <<>>, resized |-> FALSE]
  <1>1. hot \in Seq(Letters) /\ Len(hot) \in Nat /\ s_scroll \in Int
    BY ListsAssumption, ScrollsAssumption
  <1>2. MenuLocals(m)
    BY DEF MenuLocals, MenuFields
  <1>3. /\ m.hot = hot /\ m.count = Len(hot) /\ m.selected = selected /\ m.s_scroll = s_scroll
        /\ m.choice = 0 /\ m.first_item = 0 /\ m.button = 0 /\ m.resized = FALSE
    OBVIOUS
  <1>4. menu' = menu_do_resize(m, lines) /\ lines' = lines /\ lines \in Nat
    BY DEF dialog_menu, MenuInv
  <1>. HIDE DEF m
  <1>0. m.choice \in Nat /\ m.first_item \in Nat /\ m.button \in 0..4
    BY <1>3, SMT
  <1>5. MenuGiven(m)
    BY <1>0, <1>1, <1>2, <1>3, Zenon DEF MenuGiven
  <1>. QED BY <1>3, <1>4, <1>5, MenuLayoutFits DEF MenuInv

\* Another size of the terminal.
LEMMA MenuResizeKeeps ==
    ASSUME MenuInv, NEW l \in Heights, MenuResize(l)
    PROVE  MenuInv'
  <1>. DEFINE m == [menu EXCEPT !.resized = TRUE]
  <1>1. MenuGiven(menu) /\ MenuLocals(menu)
    BY DEF MenuResize, MenuInv, MenuLaidOut, MenuGiven
  <1>2. /\ MenuLocals(m) /\ m.hot = menu.hot /\ m.count = menu.count /\ m.selected = menu.selected
        /\ m.s_scroll = menu.s_scroll /\ m.choice = menu.choice
        /\ m.first_item = menu.first_item /\ m.button = menu.button /\ m.resized = TRUE
    BY <1>1 DEF MenuLocals, MenuFields
  <1>3. menu' = menu_do_resize(m, l) /\ lines' = l /\ l \in Nat
    BY HeightsAssumption DEF MenuResize
  <1>. HIDE DEF m
  <1>4. MenuGiven(m)
    BY <1>1, <1>2 DEF MenuGiven
  <1>. QED BY <1>2, <1>3, <1>4, MenuLayoutFits DEF MenuInv

LEMMA MenuStep == ASSUME MenuInv, [MenuNext]_menu_vars PROVE MenuInv'
  <1>1. CASE MenuMove
    BY <1>1, MenuMoveKeeps
  <1>2. CASE MenuTurn(1) \/ MenuTurn(-1)
    BY <1>2, MenuOtherKeeps
  <1>3. CASE MenuEnter
    <2>1. menu.button \in 0..4
      BY <1>3 DEF MenuEnter, MenuReturn, MenuInv, MenuLaidOut, MenuGiven
    <2>2. Buttons[menu.button] \in MenuKeys
      BY <2>1, SMT DEF Buttons, MenuKeys
    <2>. QED BY <1>3, <2>2, MenuOtherKeeps DEF MenuEnter
  <1>4. ASSUME NEW key \in DOMAIN Commands, Command(key) PROVE MenuInv'
    <2>1. Commands[key] \in MenuKeys
      BY DEF Commands, MenuKeys
    <2>. QED BY <1>4, <2>1, MenuOtherKeeps DEF Command
  <1>5. CASE MenuLeave
    BY <1>5, MenuOtherKeeps
  <1>6. CASE UNCHANGED menu_vars
    BY <1>6, MenuOtherKeeps
  <1>. QED BY <1>1, <1>2, <1>3, <1>4, <1>5, <1>6, MenuOpenKeeps, MenuResizeKeeps DEF MenuNext

--------------------------------------------------------------------------------
(* dialog_checklist                                                                *)

(* The inductive invariant: the locals of an open list.                            *)
ListFields == {"open", "hot", "count", "choice", "scroll", "max_choice", "button", "lit", "screen",
           "resized"}
ListLocals(c) == DOMAIN c = ListFields /\ c = [f \in ListFields |-> c[f]] /\ c.open = TRUE
\* What a layout needs.
ListGiven(c) ==
    /\ ListLocals(c)
    /\ c.hot \in Seq(Letters) /\ c.count \in Nat /\ Len(c.hot) = c.count
    /\ c.choice \in Nat /\ c.scroll \in Nat
    /\ c.choice < c.count
    /\ c.choice >= list_height => c.scroll = 0
    /\ c.choice < list_height => c.scroll + Minimum(list_height, c.count) <= c.count
    /\ c.button \in 0..1 /\ c.resized \in BOOLEAN
\* What a layout makes and the keys keep.
ListLaidOut(c) ==
    /\ ListGiven(c)
    /\ c.lit \in 0..1
    /\ c.max_choice = Minimum(list_height, c.count)
    /\ c.scroll + c.max_choice <= c.count /\ c.choice < c.max_choice
    /\ c.screen = Drawn(c.scroll, c.max_choice, c.choice)
    /\ ~c.resized => c.lit = c.button
ListInv == lines \in Nat /\ list.open \in BOOLEAN /\ (list.open => ListLaidOut(list))

\* A layout leaves the dialog closed or laid out.
LEMMA ListLayoutFits ==
    ASSUME NEW c, ListGiven(c), NEW l \in Nat, c.resized \/ c.button = 0
    PROVE  LET n == list_do_resize(c, l)
           IN n.open \in BOOLEAN /\ (n.open => ListLaidOut(n))
  <1>. DEFINE max_choice == IF list_height < c.count THEN list_height ELSE c.count
              scroll == IF c.choice >= list_height THEN c.choice - list_height + 1 ELSE c.scroll
              choice == IF c.choice >= list_height THEN list_height - 1 ELSE c.choice
              n == list_do_resize(c, l)
  <1>. SUFFICES n.open \in BOOLEAN /\ (n.open => ListLaidOut(n))
    OBVIOUS
  <1>0. /\ c.count \in Nat /\ c.choice \in Nat /\ c.scroll \in Nat /\ c.choice < c.count
        /\ c.choice >= list_height => c.scroll = 0
        /\ c.choice < list_height => c.scroll + Minimum(list_height, c.count) <= c.count
        /\ list_height \in Nat \ {0}
    BY ListHeightAssumption DEF ListGiven
  <1>1. max_choice = Minimum(list_height, c.count)
    BY DEF Minimum
  <1>2. /\ scroll \in Nat /\ choice \in Nat /\ choice < max_choice /\ choice < c.count
        /\ scroll + max_choice <= c.count /\ ~(choice >= list_height)
    BY <1>0, SMT DEF Minimum
  <1>3. CASE l < checklist_height + CHECKLIST_HEIGTH_MIN
    BY <1>3 DEF list_do_resize, ListClosed
  <1>4. CASE ~(l < checklist_height + CHECKLIST_HEIGTH_MIN)
    <2>1. n = [c EXCEPT !.max_choice = max_choice, !.scroll = scroll, !.choice = choice,
                        !.screen = Drawn(scroll, max_choice, choice), !.lit = 0]
      BY <1>4 DEF list_do_resize
    <2>. HIDE DEF n, max_choice, scroll, choice
    <2>2. /\ ListLocals(n) /\ n.hot = c.hot /\ n.count = c.count /\ n.button = c.button
          /\ n.resized = c.resized
      BY <2>1 DEF ListGiven, ListLocals, ListFields
    <2>3. /\ n.max_choice = max_choice /\ n.scroll = scroll /\ n.choice = choice
          /\ n.screen = Drawn(scroll, max_choice, choice) /\ n.lit = 0
      BY <2>1 DEF ListGiven, ListLocals, ListFields
    <2>4. ListGiven(n)
      BY <1>1, <1>2, <2>2, <2>3 DEF ListGiven
    <2>5. n.lit \in 0..1
      BY <2>3, SMT
    <2>6. ListLaidOut(n)
      BY <1>1, <1>2, <2>2, <2>3, <2>4, <2>5 DEF ListLaidOut
    <2>. QED BY <2>2, <2>6 DEF ListLocals
  <1>. QED BY <1>3, <1>4

--------------------------------------------------------------------------------
(* Drawing by increments.                                                          *)
ListRows(c) == 0..(c.max_choice - 1)

\* What the moves need of the invariant.
LEMMA ListBounds ==
    ASSUME ListInv, list.open
    PROVE  /\ ListLaidOut(list) /\ ListGiven(list) /\ ListLocals(list) /\ lines \in Nat
           /\ list.count \in Nat /\ list.max_choice \in Nat /\ list.scroll \in Nat
           /\ list.choice \in Nat /\ list.choice < list.max_choice
           /\ list.max_choice = Minimum(list_height, list.count) /\ list.max_choice <= list_height
           /\ list.scroll + list.max_choice <= list.count
           /\ list_height \in Nat \ {0}
           /\ list.screen = [i \in ListRows(list) |-> Row(list.scroll + i, i = list.choice)]
  <1>1. ListLaidOut(list) /\ ListGiven(list) /\ ListLocals(list) /\ lines \in Nat
    BY DEF ListInv, ListLaidOut, ListGiven
  <1>2. /\ list.count \in Nat /\ list.scroll \in Nat /\ list.choice \in Nat
        /\ list.choice < list.max_choice /\ list.max_choice = Minimum(list_height, list.count)
        /\ list.scroll + list.max_choice <= list.count /\ list_height \in Nat \ {0}
    BY <1>1, ListHeightAssumption DEF ListLaidOut, ListGiven
  <1>3. list.max_choice \in Nat /\ list.max_choice <= list_height
    BY <1>2, SMT DEF Minimum
  <1>4. list.screen = [i \in ListRows(list) |-> Row(list.scroll + i, i = list.choice)]
    BY <1>1 DEF ListLaidOut, Drawn, ListRows
  <1>. QED BY <1>1, <1>2, <1>3, <1>4

\* A screen whose rows other than the choice show their items, and none is highlighted,
\* is the window once the choice is printed.
Ready(screen, scroll, max, choice) ==
    /\ screen = [i \in 0..(max - 1) |-> screen[i]]
    /\ \A i \in 0..(max - 1) \ {choice} : screen[i] = Row(scroll + i, FALSE)

LEMMA ListLitIsDrawn ==
    ASSUME NEW screen, NEW scroll \in Nat, NEW max \in Nat, NEW choice \in 0..(max - 1),
           Ready(screen, scroll, max, choice)
    PROVE  print_item(screen, scroll + choice, choice, TRUE) = Drawn(scroll, max, choice)
  <1>. DEFINE rows == 0..(max - 1)
              s == print_item(screen, scroll + choice, choice, TRUE)
  <1>1. s = [i \in rows |-> IF i = choice THEN Row(scroll + choice, TRUE) ELSE screen[i]]
    BY DEF print_item, Ready
  <1>2. Drawn(scroll, max, choice) = [i \in rows |-> Row(scroll + i, i = choice)]
    BY DEF Drawn
  <1>3. ASSUME NEW i \in rows
        PROVE  (IF i = choice THEN Row(scroll + choice, TRUE) ELSE screen[i]) = Row(scroll + i, i = choice)
    <2>1. CASE i = choice
      BY <2>1
    <2>2. CASE i # choice
      <3>1. (i = choice) = FALSE
        BY <2>2
      <3>. QED BY <2>2, <3>1 DEF Ready
    <2>. QED BY <2>1, <2>2
  <1>. HIDE DEF rows, s
  <1>4. s = Drawn(scroll, max, choice)
    BY <1>1, <1>2, <1>3
  <1>. QED BY <1>4 DEF s

\* A row that is not the choice is printed without the highlight, and so is the choice
\* when it is about to go.
LEMMA UnlitRows ==
    ASSUME ListInv, list.open
    PROVE  LET unlit == print_item(list.screen, list.scroll + list.choice, list.choice, FALSE)
           IN unlit = [i \in ListRows(list) |-> Row(list.scroll + i, FALSE)]
  <1>. DEFINE unlit == print_item(list.screen, list.scroll + list.choice, list.choice, FALSE)
  <1>1. list.screen = [i \in ListRows(list) |-> Row(list.scroll + i, i = list.choice)]
    BY ListBounds
  <1>2. unlit = [i \in ListRows(list) |-> IF i = list.choice THEN Row(list.scroll + list.choice, FALSE)
                                      ELSE Row(list.scroll + i, i = list.choice)]
    BY <1>1 DEF print_item
  <1>3. \A i \in ListRows(list) : i # list.choice => (i = list.choice) = FALSE
    OBVIOUS
  <1>. QED BY <1>2, <1>3

\* A move of the choice on a screen that is ready for it keeps the invariant.
Move(screen, scroll, choice) ==
    list' = [list EXCEPT !.choice = choice, !.scroll = scroll,
                         !.screen = print_item(screen, scroll + choice, choice, TRUE)]

LEMMA ListMoveFits ==
    ASSUME ListInv, list.open, lines' = lines, NEW screen, NEW scroll \in Nat, NEW choice \in Nat,
           Move(screen, scroll, choice), Ready(screen, scroll, list.max_choice, choice),
           scroll + list.max_choice <= list.count, choice < list.max_choice
    PROVE  ListInv'
  <1>1. ListLaidOut(list) /\ ListGiven(list) /\ ListLocals(list)
    BY ListBounds
  <1>2. /\ ListLocals(list') /\ list'.hot = list.hot /\ list'.count = list.count
        /\ list'.button = list.button /\ list'.resized = list.resized
        /\ list'.max_choice = list.max_choice /\ list'.lit = list.lit
    BY <1>1 DEF Move, ListLocals, ListFields
  <1>3. /\ list'.choice = choice /\ list'.scroll = scroll
        /\ list'.screen = print_item(screen, scroll + choice, choice, TRUE)
    BY <1>1 DEF Move, ListLocals, ListFields
  <1>4. /\ choice < list.count /\ ~(choice >= list_height)
        /\ scroll + Minimum(list_height, list.count) <= list.count
        /\ choice \in 0..(list.max_choice - 1) /\ list.max_choice \in Nat
    BY ListBounds, SMT
  <1>5. list'.screen = Drawn(scroll, list.max_choice, choice)
    <2>1. Ready(screen, scroll, list.max_choice, choice)
      OBVIOUS
    <2>2. print_item(screen, scroll + choice, choice, TRUE) = Drawn(scroll, list.max_choice, choice)
      BY <1>4, <2>1, ListLitIsDrawn
    <2>. QED BY <1>3, <2>2
  <1>6. ListGiven(list')
    BY <1>1, <1>2, <1>3, <1>4 DEF ListGiven
  <1>7. ListLaidOut(list')
    BY <1>1, <1>2, <1>3, <1>5, <1>6 DEF ListLaidOut
  <1>. QED BY <1>2, <1>7, ListBounds DEF ListInv, ListLocals

\* A move within the window, and a scroll by a row with the choice at its end.
LEMMA MoveToFits ==
    ASSUME ListInv, list.open, lines' = lines, NEW i \in Nat, i < list.max_choice, ListMoveTo(i)
    PROVE  ListInv'
  <1>. DEFINE unlit == print_item(list.screen, list.scroll + list.choice, list.choice, FALSE)
  <1>1. CASE i = list.choice
    BY <1>1 DEF ListMoveTo, ListInv
  <1>2. CASE i # list.choice
    <2>1. unlit = [r \in ListRows(list) |-> Row(list.scroll + r, FALSE)]
      BY UnlitRows
    <2>2. list' = [list EXCEPT !.choice = i, !.screen = print_item(unlit, list.scroll + i, i, TRUE)]
      BY <1>2 DEF ListMoveTo
    <2>. HIDE DEF unlit
    <2>3. Ready(unlit, list.scroll, list.max_choice, i)
      BY <2>1 DEF ListRows, Ready
    <2>4. Move(unlit, list.scroll, i)
      BY <2>2, ListBounds DEF Move, ListLocals, ListFields
    <2>. QED BY <2>3, <2>4, ListBounds, ListMoveFits
  <1>. QED BY <1>1, <1>2

LEMMA ScrolledIsReady ==
    ASSUME ListInv, list.open, NEW n \in {1, -1}, NEW unlit,
           unlit = [i \in ListRows(list) |-> Row(list.scroll + i, FALSE)],
           list.choice = (IF n = 1 THEN list.max_choice - 1 ELSE 0)
    PROVE  Ready(wscrl(unlit, n), list.scroll + n, list.max_choice, list.choice)
  <1>. DEFINE moved == wscrl(unlit, n)
              scroll == list.scroll + n
  <1>1. moved = [i \in ListRows(list) |-> IF i + n \in ListRows(list) THEN unlit[i + n] ELSE Row(NoItem, FALSE)]
    BY DEF wscrl
  <1>2. ASSUME NEW i \in ListRows(list) \ {list.choice} PROVE moved[i] = Row(scroll + i, FALSE)
    <2>1. i + n \in ListRows(list) /\ list.scroll + (i + n) = scroll + i
      <3>1. /\ i \in Int /\ 0 <= i /\ i <= list.max_choice - 1 /\ i # list.choice
            /\ list.max_choice \in Nat /\ list.scroll \in Nat
        BY <1>2, ListBounds DEF ListRows
      <3>2. CASE n = 1
        BY <3>1, <3>2, SMT DEF ListRows
      <3>3. CASE n = -1
        BY <3>1, <3>3, SMT DEF ListRows
      <3>. QED BY <3>2, <3>3
    <2>. HIDE DEF moved
    <2>. QED BY <1>1, <2>1
  <1>. HIDE DEF moved
  <1>3. Ready(moved, scroll, list.max_choice, list.choice)
    BY <1>1, <1>2 DEF ListRows, Ready
  <1>. QED BY <1>3 DEF moved

LEMMA ScrollByFits ==
    ASSUME ListInv, list.open, lines' = lines, NEW n \in {1, -1}, ListScrollBy(n),
           list.choice = (IF n = 1 THEN list.max_choice - 1 ELSE 0),
           list.scroll + n \in Nat, list.scroll + n + list.max_choice <= list.count
    PROVE  ListInv'
  <1>. DEFINE unlit == print_item(list.screen, list.scroll + list.choice, list.choice, FALSE)
              screen == IF list_height > 1 THEN wscrl(unlit, n) ELSE list.screen
  <1>1. Ready(screen, list.scroll + n, list.max_choice, list.choice)
    <2>1. CASE list_height > 1
      <3>1. unlit = [i \in ListRows(list) |-> Row(list.scroll + i, FALSE)]
        BY UnlitRows
      <3>. HIDE DEF unlit
      <3>. QED BY <2>1, <3>1, ScrolledIsReady
    <2>2. CASE ~(list_height > 1)
      <3>1. 0..(list.max_choice - 1) \ {list.choice} = {}
        BY <2>2, ListBounds, SMT
      <3>2. list.screen = [i \in ListRows(list) |-> list.screen[i]]
        BY ListBounds
      <3>3. Ready(list.screen, list.scroll + n, list.max_choice, list.choice)
        BY <3>1, <3>2 DEF ListRows, Ready
      <3>. QED BY <2>2, <3>3
    <2>. QED BY <2>1, <2>2
  <1>2. list' = [list EXCEPT !.scroll = list.scroll + n,
                             !.screen = print_item(screen, list.scroll + n + list.choice, list.choice, TRUE)]
    BY ListBounds DEF ListScrollBy, ListLocals, ListFields
  <1>. HIDE DEF screen
  <1>3. Move(screen, list.scroll + n, list.choice)
    BY <1>2, ListBounds DEF Move, ListLocals, ListFields
  <1>. QED BY <1>1, <1>3, ListBounds, ListMoveFits

--------------------------------------------------------------------------------
(* The keys.                                                                       *)
LEMMA ListFirstIsLeast ==
    ASSUME NEW rows \in SUBSET Nat, rows # {}
    PROVE  FirstOf(rows) \in rows
  <1>1. PICK x \in rows : \A y \in rows : ~(<<y, x>> \in OpToRel(<, Nat))
    BY NatLessThanWellFounded, WFMin
  <1>2. \A y \in rows : ~(y < x)
    BY <1>1, Zenon DEF OpToRel
  <1>3. \A y \in rows : x <= y
    BY <1>2, SMT
  <1>. QED BY <1>3 DEF FirstOf

LEMMA ListMoveKeeps ==
    ASSUME ListInv, ListUp \/ ListDown \/ \E c \in Letters : ListHotKey(c)
    PROVE  ListInv'
  <1>0. list.open /\ lines' = lines
    BY DEF ListUp, ListDown, ListHotKey
  <1>b. /\ list.count \in Nat /\ list.max_choice \in Nat /\ list.scroll \in Nat
        /\ list.choice \in Nat /\ list.choice < list.max_choice
        /\ list.scroll + list.max_choice <= list.count
    BY <1>0, ListBounds
  <1>1. CASE ListUp
    <2>1. CASE list.choice > 0
      <3>1. list.choice - 1 \in Nat /\ list.choice - 1 < list.max_choice
        BY <1>b, <2>1, SMT
      <3>. QED BY <1>0, <1>1, <2>1, <3>1, MoveToFits DEF ListUp
    <2>2. CASE ~(list.choice > 0) /\ list.scroll > 0
      <3>1. /\ list.choice = 0 /\ list.scroll + -1 \in Nat
            /\ list.scroll + -1 + list.max_choice <= list.count
        BY <1>b, <2>2, SMT
      <3>2. list.choice = (IF -1 = 1 THEN list.max_choice - 1 ELSE 0)
        BY <3>1, SMT
      <3>3. ListScrollBy(-1)
        BY <1>1, <2>2 DEF ListUp
      <3>. QED BY <1>0, <3>1, <3>2, <3>3, ScrollByFits
    <2>3. CASE ~(list.choice > 0) /\ ~(list.scroll > 0)
      BY <1>0, <1>1, <2>3 DEF ListUp, ListInv
    <2>. QED BY <2>1, <2>2, <2>3
  <1>2. CASE ListDown
    <2>1. CASE list.choice # list.max_choice - 1
      <3>1. list.choice + 1 \in Nat /\ list.choice + 1 < list.max_choice
        BY <1>b, <2>1, SMT
      <3>. QED BY <1>0, <1>2, <2>1, <3>1, MoveToFits DEF ListDown
    <2>2. CASE ~(list.choice # list.max_choice - 1) /\ list.scroll + list.choice < list.count - 1
      <3>1. list.scroll + 1 \in Nat /\ list.scroll + 1 + list.max_choice <= list.count
        BY <1>b, <2>2, SMT
      <3>2. list.choice = (IF 1 = 1 THEN list.max_choice - 1 ELSE 0)
        BY <2>2
      <3>3. ListScrollBy(1)
        BY <1>2, <2>2 DEF ListDown
      <3>. QED BY <1>0, <3>1, <3>2, <3>3, ScrollByFits
    <2>3. CASE ~(list.choice # list.max_choice - 1) /\ ~(list.scroll + list.choice < list.count - 1)
      BY <1>0, <1>2, <2>3 DEF ListDown, ListInv
    <2>. QED BY <2>1, <2>2, <2>3
  <1>3. ASSUME NEW c \in Letters, ListHotKey(c) PROVE ListInv'
    <2>1. ListRowsWith(c) # {} /\ ListRowsWith(c) \subseteq 0..(list.max_choice - 1)
      BY <1>3 DEF ListHotKey, ListRowsWith
    <2>2. 0..(list.max_choice - 1) \subseteq Nat
      OBVIOUS
    <2>3. FirstOf(ListRowsWith(c)) \in 0..(list.max_choice - 1)
      BY <2>1, <2>2, ListFirstIsLeast
    <2>4. FirstOf(ListRowsWith(c)) \in Nat /\ FirstOf(ListRowsWith(c)) < list.max_choice
      BY <1>b, <2>3, SMT
    <2>. QED BY <1>0, <1>3, <2>4, MoveToFits DEF ListHotKey
  <1>. QED BY <1>1, <1>2, <1>3

\* The other keys: another button, a result, or nothing.
LEMMA ListOtherKeeps ==
    ASSUME ListInv,
           \/ \E by \in {1, -1} : ListTurn(by)
           \/ \E b \in 0..1 : ListReturn(b)
           \/ ListLeave
           \/ UNCHANGED list_vars
    PROVE  ListInv'
  <1>1. ASSUME NEW by \in {1, -1}, ListTurn(by) PROVE ListInv'
    <2>. DEFINE b == (list.button + by) % 2
    <2>1. ListLaidOut(list) /\ ListGiven(list) /\ ListLocals(list) /\ list.button \in 0..1
      BY <1>1 DEF ListTurn, ListInv, ListLaidOut, ListGiven
    <2>2. b \in 0..1
      BY <2>1, SMT
    <2>. HIDE DEF b
    <2>3. list' = [list EXCEPT !.button = b, !.lit = b]
      BY <1>1 DEF ListTurn, b
    <2>4. /\ ListLocals(list') /\ list'.hot = list.hot /\ list'.count = list.count
          /\ list'.max_choice = list.max_choice /\ list'.choice = list.choice
          /\ list'.scroll = list.scroll /\ list'.screen = list.screen
          /\ list'.resized = list.resized
      BY <2>1, <2>3 DEF ListLocals, ListFields
    <2>5. list'.button = b /\ list'.lit = b
      BY <2>1, <2>3 DEF ListLocals, ListFields
    <2>6. ListGiven(list')
      BY <2>1, <2>2, <2>4, <2>5 DEF ListGiven
    <2>7. ListLaidOut(list')
      BY <2>1, <2>2, <2>4, <2>5, <2>6 DEF ListLaidOut
    <2>. QED BY <1>1, <2>4, <2>7 DEF ListInv, ListTurn, ListLocals
  <1>2. ASSUME NEW b \in 0..1, ListReturn(b) PROVE ListInv'
    BY <1>2 DEF ListReturn, ListClosed, ListInv
  <1>3. CASE ListLeave
    BY <1>3 DEF ListLeave, ListClosed, ListInv
  <1>4. CASE UNCHANGED list_vars
    BY <1>4 DEF list_vars, ListInv
  <1>. QED BY <1>1, <1>2, <1>3, <1>4

\* A new dialog.
LEMMA ListOpenKeeps ==
    ASSUME ListInv, NEW hot \in Lists \ {<<>>}, NEW selected \in NoItem..(Len(hot) - 1),
           NEW checked \in NoItem..(Len(hot) - 1), dialog_checklist(hot, selected, checked)
    PROVE  ListInv'
  <1>. DEFINE item == Highlight(selected, checked)
              c == [open |-> TRUE, hot |-> hot, count |-> Len(hot), choice |-> item, scroll |-> 0,
                    max_choice |-> 0, button |-> 0, lit |-> 0, screen |-> <<>>, resized |-> FALSE]
  <1>1. hot \in Seq(Letters) /\ Len(hot) \in Nat \ {0}
    BY ListsAssumption
  <1>2. item \in Nat /\ item < Len(hot)
    BY <1>1, SMT DEF Highlight, NoItem
  <1>. HIDE DEF item
  <1>3. ListLocals(c)
    BY DEF ListLocals, ListFields
  <1>4. /\ c.hot = hot /\ c.count = Len(hot) /\ c.choice = item /\ c.scroll = 0
        /\ c.button = 0 /\ c.resized = FALSE
    OBVIOUS
  <1>5. list' = list_do_resize(c, lines) /\ lines' = lines /\ lines \in Nat
    BY DEF dialog_checklist, ListInv, item
  <1>. HIDE DEF c
  <1>6. c.scroll \in Nat /\ c.button \in 0..1 /\ c.scroll + Minimum(list_height, c.count) <= c.count
    BY <1>1, <1>4, ListHeightAssumption, SMT DEF Minimum
  <1>7. ListGiven(c)
    BY <1>1, <1>2, <1>3, <1>4, <1>6 DEF ListGiven
  <1>. QED BY <1>4, <1>5, <1>7, ListLayoutFits DEF ListInv

\* Another size of the terminal.
LEMMA ListResizeKeeps ==
    ASSUME ListInv, NEW l \in Heights, ListResize(l)
    PROVE  ListInv'
  <1>. DEFINE c == [list EXCEPT !.resized = TRUE]
  <1>1. ListGiven(list) /\ ListLocals(list)
    BY DEF ListResize, ListInv, ListLaidOut, ListGiven
  <1>2. /\ ListLocals(c) /\ c.hot = list.hot /\ c.count = list.count /\ c.choice = list.choice
        /\ c.scroll = list.scroll /\ c.button = list.button /\ c.resized = TRUE
    BY <1>1 DEF ListLocals, ListFields
  <1>3. list' = list_do_resize(c, l) /\ lines' = l /\ l \in Nat
    BY HeightsAssumption DEF ListResize
  <1>. HIDE DEF c
  <1>4. ListGiven(c)
    BY <1>1, <1>2 DEF ListGiven
  <1>. QED BY <1>2, <1>3, <1>4, ListLayoutFits DEF ListInv

LEMMA ListStep == ASSUME ListInv, [ListNext]_list_vars PROVE ListInv'
  <1>1. CASE ListUp \/ ListDown \/ \E c \in Letters : ListHotKey(c)
    BY <1>1, ListMoveKeeps
  <1>2. CASE ListTurn(1) \/ ListTurn(-1)
    BY <1>2, ListOtherKeeps
  <1>3. CASE ListSelect \/ ListHelp
    <2>1. list.open
      BY <1>3 DEF ListSelect, ListHelp, ListReturn
    <2>2. list.button \in 0..1 /\ 1 \in 0..1
      BY <2>1, SMT DEF ListInv, ListLaidOut, ListGiven
    <2>. QED BY <1>3, <2>2, ListOtherKeeps DEF ListSelect, ListHelp
  <1>4. CASE ListLeave \/ UNCHANGED list_vars
    BY <1>4, ListOtherKeeps
  <1>. QED BY <1>1, <1>2, <1>3, <1>4, ListOpenKeeps, ListResizeKeeps DEF ListNext

--------------------------------------------------------------------------------
(* The dialogs together                                                            *)

\* All of them, whichever is open: the others are closed, and share the terminal.
DialogsInv == MenuInv /\ ListInv /\ InputInv /\ TextInv /\ YesnoInv

\* A dialog that is closed does not mind the size of the terminal.
LEMMA ClosedKeep ==
    ASSUME DialogsInv, lines' \in Nat
    PROVE  /\ MenuUnused /\ menu' = menu => MenuInv'
           /\ ListUnused /\ list' = list => ListInv'
           /\ InputUnused /\ input' = input => InputInv'
           /\ TextUnused /\ text' = text => TextInv'
           /\ YesnoUnused /\ yesno' = yesno => YesnoInv'
  <1>1. MenuUnused /\ menu' = menu => MenuInv'
    BY DEF DialogsInv, MenuUnused, MenuClosed, MenuInv
  <1>2. ListUnused /\ list' = list => ListInv'
    BY DEF DialogsInv, ListUnused, ListClosed, ListInv
  <1>3. InputUnused /\ input' = input => InputInv'
    BY DEF DialogsInv, InputUnused, InputClosed, InputInv
  <1>4. TextUnused /\ text' = text => TextInv'
    BY DEF DialogsInv, TextUnused, TextClosed, TextInv
  <1>5. YesnoUnused /\ yesno' = yesno => YesnoInv'
    BY DEF DialogsInv, YesnoUnused, YesnoClosed, YesnoInv, LitIsTaken
  <1>. QED BY <1>1, <1>2, <1>3, <1>4, <1>5

\* For every list, text, terminal and sequence of keys, and whichever dialogs are called.
THEOREM DialogsInvariant == Spec => []DialogsInv
  <1>1. Init => DialogsInv
    <2>. SUFFICES ASSUME Init PROVE DialogsInv
      OBVIOUS
    <2>1. MenuInv
      BY HeightsAssumption DEF Init, MenuInit, MenuInv, MenuClosed
    <2>2. ListInv
      BY HeightsAssumption DEF Init, ListInit, ListInv, ListClosed
    <2>3. InputInv
      BY HeightsAssumption, LengthsAssumption, SMT DEF Init, InputInit, InputInv, InputClosed
    <2>4. TextInv
      BY HeightsAssumption DEF Init, TextInit, TextInv, TextClosed
    <2>5. YesnoInv
      BY HeightsAssumption DEF Init, YesnoInit, YesnoInv, YesnoClosed, LitIsTaken
    <2>. QED BY <2>1, <2>2, <2>3, <2>4, <2>5 DEF DialogsInv
  <1>2. DialogsInv /\ [Next]_vars => DialogsInv'
    <2>. SUFFICES ASSUME DialogsInv, [Next]_vars PROVE DialogsInv'
      OBVIOUS
    <2>1. CASE UNCHANGED vars
      BY <2>1 DEF vars, DialogsInv, MenuInv, ListInv, InputInv, TextInv, YesnoInv, LitIsTaken
    <2>2. CASE /\ ListUnused /\ InputUnused /\ TextUnused /\ YesnoUnused
               /\ MenuNext /\ UNCHANGED <<list, input, text, yesno>>
      <3>1. MenuInv'
        BY <2>2, MenuStep DEF DialogsInv
      <3>. QED BY <2>2, <3>1, ClosedKeep DEF MenuInv, DialogsInv
    <2>3. CASE /\ MenuUnused /\ InputUnused /\ TextUnused /\ YesnoUnused
               /\ ListNext /\ UNCHANGED <<menu, input, text, yesno>>
      <3>1. ListInv'
        BY <2>3, ListStep DEF DialogsInv
      <3>. QED BY <2>3, <3>1, ClosedKeep DEF ListInv, DialogsInv
    <2>4. CASE /\ MenuUnused /\ ListUnused /\ TextUnused /\ YesnoUnused
               /\ InputNext /\ UNCHANGED <<menu, list, text, yesno>>
      <3>1. InputInv'
        BY <2>4, InputStep DEF DialogsInv
      <3>. QED BY <2>4, <3>1, ClosedKeep DEF InputInv, DialogsInv
    <2>5. CASE /\ MenuUnused /\ ListUnused /\ InputUnused /\ YesnoUnused
               /\ TextNext /\ UNCHANGED <<menu, list, input, yesno>>
      <3>1. TextInv'
        BY <2>5, TextStep DEF DialogsInv
      <3>. QED BY <2>5, <3>1, ClosedKeep DEF TextInv, DialogsInv
    <2>6. CASE /\ MenuUnused /\ ListUnused /\ InputUnused /\ TextUnused
               /\ YesnoNext /\ UNCHANGED <<menu, list, input, text>>
      <3>1. YesnoInv'
        BY <2>6, YesnoStep DEF DialogsInv
      <3>. QED BY <2>6, <3>1, ClosedKeep DEF YesnoInv, DialogsInv
    <2>. QED BY <2>1, <2>2, <2>3, <2>4, <2>5, <2>6 DEF Next
  <1>. QED BY <1>1, <1>2, PTL DEF Spec

--------------------------------------------------------------------------------
(* What it gives                                                                   *)

\* The answer is the highlighted button, until the terminal is resized.
THEOREM AnswerIsLit == Spec => []LitIsTaken
  <1>1. DialogsInv => LitIsTaken
    BY DEF DialogsInv, YesnoInv
  <1>. QED BY <1>1, DialogsInvariant, PTL

\* The text never outgrows its buffer, and the cursor is where the next character
\* goes, in the box.
THEOREM CursorStaysAtPosition == Spec => []InputIsRight
  <1>1. InputInv => InputTypeOK
    BY DEF InputInv, Given, Placed, InputTypeOK
  <1>2. InputInv => CursorAtPosition
    BY DEF InputInv, Placed, CursorAtPosition
  <1>3. DialogsInv => InputIsRight
    BY <1>1, <1>2 DEF InputIsRight, DialogsInv
  <1>. QED BY <1>3, DialogsInvariant, PTL

\* The flags that stop the keys say where the page is, and the way back finds its top,
\* for every text, size of the terminal and sequence of keys.
THEOREM PageIsFound == Spec => []TextIsRight
  <1>1. TextInv => TextIsRight
    <2>. SUFFICES ASSUME TextInv, text.open PROVE TextFlagsAreRight /\ TopIsFound
      BY DEF TextIsRight, TextFlagsAreRight, TopIsFound
    <2>1. OnPage(text) /\ Reading(text)
      BY DEF TextInv, OnPage
    <2>2. /\ text.boxh \in Nat /\ text.end \in Nat \ {0} /\ text.top \in 0..text.end
          /\ text.page = Minimum(text.top + text.boxh, text.end)
          /\ text.page_length = Minimum(text.boxh, IF text.unended THEN Maximum(text.end - text.top, 1)
                                                   ELSE text.end - text.top + 1)
          /\ text.boxh > 0 =>
               /\ text.begin_reached <=> text.top = 0
               /\ text.end_reached <=> IF text.unended THEN text.top + text.boxh >= text.end
                                       ELSE text.top + text.boxh > text.end
      BY <2>1 DEF OnPage, Reading
    <2>3. TextFlagsAreRight
      BY <2>2 DEF TextFlagsAreRight, Minimum, Maximum
    <2>4. ASSUME ~text.unended PROVE back_lines(text, text.page_length).page = text.top
      <3>1. text.page_length \in Int /\ text.page \in Nat
        BY <2>2 DEF Minimum, Maximum
      <3>2. /\ Back(text, text.page_length) \in Nat
            /\ back_lines(text, text.page_length).page
                 = Maximum(text.page - Back(text, text.page_length), 0)
        BY <2>1, <3>1, GoesBack
      <3>3. text.page - Back(text, text.page_length) = text.top
        BY <2>2, <2>4 DEF Back, Counted, Minimum, Maximum
      <3>. QED BY <2>2, <3>2, <3>3 DEF Maximum
    <2>. QED BY <2>3, <2>4 DEF TopIsFound
  <1>2. DialogsInv => TextInv
    BY DEF DialogsInv
  <1>. QED BY <1>1, <1>2, DialogsInvariant, PTL

\* The locals keep their types.
THEOREM MenuTypes == Spec => []MenuTypeOK
  <1>1. ASSUME MenuInv PROVE MenuTypeOK
    <2>0. lines \in Nat /\ (menu.open => MenuLaidOut(menu, lines))
      BY <1>1 DEF MenuInv
    <2>1. CASE ~menu.open
      BY <2>0, <2>1, Zenon DEF MenuTypeOK
    <2>2. CASE menu.open
      <3>1. MenuLaidOut(menu, lines) /\ MenuGiven(menu) /\ lines \in Nat
        BY <2>0, <2>2, Zenon DEF MenuLaidOut
      <3>2. menu.count \in Nat /\ lines >= 15 /\ menu.max_choice = Minimum(lines - 14, menu.count)
        BY <3>1 DEF MenuLaidOut, MenuGiven, MENUBOX_HEIGTH_MIN
      <3>3. menu.max_choice \in 0..menu.count
        BY <3>1, <3>2, SMT DEF Minimum
      <3>4. DOMAIN menu.screen = 0..(menu.max_choice - 1)
        BY <3>1 DEF MenuLaidOut
      <3>. QED BY <3>1, <3>2, <3>3, <3>4 DEF MenuLaidOut, MenuGiven, MenuTypeOK
    <2>. QED BY <2>1, <2>2
  <1>2. DialogsInv => MenuInv
    BY DEF DialogsInv
  <1>. QED BY <1>1, <1>2, DialogsInvariant, PTL

\* The window stays in the list and the choice in the window, and what is drawn piece
\* by piece is the window, until the terminal is resized.
THEOREM MenuShowsWindow == Spec => []MenuIsRight
  <1>1. MenuInv => MenuInWindow
    BY DEF MenuInv, MenuLaidOut, MenuInWindow
  <1>2. MenuInv => MenuScreenIsWindow
    BY DEF MenuInv, MenuLaidOut, MenuScreenIsWindow
  <1>3. MenuInv => MenuIsRight
    BY <1>1, <1>2 DEF MenuIsRight
  <1>4. DialogsInv => MenuInv
    BY DEF DialogsInv
  <1>. QED BY <1>3, <1>4, DialogsInvariant, PTL

\* A hotkey goes on to the next item that has it, and wraps after the last.
THEOREM HotKeysCycle == Spec => HotKeySequences
  <1>. DEFINE Cycles(c) ==
         /\ menu.hot[menu'.scroll + menu'.choice + 1] = c
         /\ \A i \in MenuRowsWith(c) : ~(menu.choice < i /\ i < menu'.choice)
         /\ menu'.choice <= menu.choice =>
              \A i \in MenuRowsWith(c) : ~(menu.choice < i) /\ ~(i < menu'.choice)
  <1>1. ASSUME MenuInv, NEW c \in Letters, MenuHotKey(c) PROVE Cycles(c)
    <2>. DEFINE after == {i \in MenuRowsWith(c) : i > menu.choice}
                rows == IF after # {} THEN after ELSE MenuRowsWith(c)
    <2>1. /\ InList /\ menu.choice \in Nat /\ menu.max_choice \in Nat
          /\ MenuGiven(menu) /\ MenuLocals(menu)
      BY <1>1, MenuBounds DEF MenuHotKey, MenuLaidOut, MenuGiven
    <2>2. MenuRowsWith(c) # {} /\ MenuRowsWith(c) \subseteq 0..(menu.max_choice - 1)
      BY <1>1 DEF MenuHotKey, MenuRowsWith
    <2>3. 0..(menu.max_choice - 1) \subseteq Nat
      OBVIOUS
    <2>4. rows # {} /\ rows \subseteq Nat /\ rows \subseteq MenuRowsWith(c)
      BY <2>2, <2>3
    <2>5. menu' = [menu EXCEPT !.choice = FirstOf(rows), !.scroll = menu.scroll,
                               !.screen = print_item(Unlit, menu.scroll + FirstOf(rows), FirstOf(rows), TRUE)]
      BY <1>1 DEF MenuHotKey, MenuMoveTo
    <2>6. menu'.choice = FirstOf(rows) /\ menu'.scroll = menu.scroll
      BY <2>1, <2>5 DEF MenuLocals, MenuFields
    <2>7. after \subseteq MenuRowsWith(c) /\ (after # {} => rows = after) /\ (after = {} => rows = MenuRowsWith(c))
      OBVIOUS
    <2>. HIDE DEF rows
    <2>8. FirstOf(rows) \in rows /\ \A j \in rows : FirstOf(rows) <= j
      BY <2>4, MenuFirstIsLeast
    <2>9. menu.hot[menu'.scroll + menu'.choice + 1] = c
      BY <2>4, <2>6, <2>8 DEF MenuRowsWith
    <2>10. CASE after # {}
      <3>1. FirstOf(rows) > menu.choice /\ FirstOf(rows) \in Nat
        BY <2>4, <2>7, <2>8, <2>10
      <3>2. \A i \in MenuRowsWith(c) : ~(menu.choice < i /\ i < FirstOf(rows))
        BY <2>1, <2>2, <2>3, <2>7, <2>8, <2>10, <3>1
      <3>3. ~(FirstOf(rows) <= menu.choice)
        BY <2>1, <3>1, SMT
      <3>. QED BY <2>6, <2>9, <3>2, <3>3
    <2>11. CASE after = {}
      <3>1. \A i \in MenuRowsWith(c) : ~(menu.choice < i) /\ ~(i < FirstOf(rows))
        BY <2>1, <2>2, <2>3, <2>4, <2>7, <2>8, <2>11
      <3>. QED BY <2>6, <2>9, <3>1
    <2>. QED BY <2>10, <2>11
  <1>2. DialogsInv /\ [Next]_vars => [\A c \in Letters : MenuHotKey(c) => Cycles(c)]_menu_vars
    BY <1>1 DEF DialogsInv
  <1>. QED BY <1>2, DialogsInvariant, PTL DEF Spec, HotKeySequences

\* The window stays in the list and the choice in the window, and what is drawn piece
\* by piece is the window, also after a resize.
THEOREM ListShowsWindow == Spec => []ListIsRight
  <1>1. ListInv => ListInWindow
    BY DEF ListInv, ListLaidOut, ListInWindow
  <1>2. ListInv => ListScreenIsWindow
    BY DEF ListInv, ListLaidOut, ListScreenIsWindow
  <1>3. ListInv => ListIsRight
    BY <1>1, <1>2 DEF ListIsRight
  <1>4. DialogsInv => ListInv
    BY DEF DialogsInv
  <1>. QED BY <1>3, <1>4, DialogsInvariant, PTL

\* The menu box gives an item of the list, or none.
LEMMA MenuPromises == Spec => MenuKeepsPromise
  <1>. DEFINE Kept1 == menu.open /\ ~menu'.open /\ menu'.res # Crashed =>
                         [res |-> menu'.res, item |-> menu'.item] \in MenuPromise(menu.count)
  <1>0. /\ [res |-> KEY_ESC, item |-> NoItem] \in MenuPromise(menu.count)
        /\ [res |-> ERRDISPLAYTOOSMALL, item |-> NoItem] \in MenuPromise(menu.count)
    BY DEF MenuPromise, NoChoice, Promise
  <1>1. ASSUME MenuInv, NEW res \in MenuKeys, MenuReturn(res) PROVE Kept1
    <2>1. menu'.res = res /\ menu'.item = IF menu.count = 0 THEN NoItem ELSE menu.scroll + menu.choice
      BY <1>1 DEF MenuReturn, MenuClosed
    <2>2. CASE menu.count = 0
      BY <2>1, <2>2 DEF MenuPromise, Promise
    <2>3. CASE menu.count # 0
      <3>1. menu.scroll + menu.choice \in 0..(menu.count - 1)
        BY <1>1, <2>3, MenuBounds, SMT DEF InList, MenuReturn
      <3>. QED BY <2>1, <2>3, <3>1 DEF MenuPromise, Promise
    <2>. QED BY <2>2, <2>3
  <1>2. ASSUME MenuInv, MenuLeave PROVE Kept1
    BY <1>0, <1>2 DEF MenuLeave, MenuClosed
  <1>3. ASSUME MenuInv, NEW l \in Heights, MenuResize(l) PROVE Kept1
    <2>. DEFINE m == [menu EXCEPT !.resized = TRUE]
    <2>1. MenuLocals(menu)
      BY <1>3 DEF MenuResize, MenuInv, MenuLaidOut, MenuGiven
    <2>2. MenuLocals(m)
      BY <2>1 DEF MenuLocals, MenuFields
    <2>3. menu' = menu_do_resize(m, l)
      BY <1>3 DEF MenuResize
    <2>. HIDE DEF m
    <2>4. CASE menu' = MenuClosed(ERRDISPLAYTOOSMALL, m.s_scroll, NoItem)
      BY <1>0, <2>4 DEF MenuClosed
    <2>5. CASE menu' = MenuClosed(Crashed, m.s_scroll, NoItem)
      BY <2>5 DEF MenuClosed
    <2>6. CASE menu'.open = TRUE
      BY <2>6
    <2>7. \/ menu' = MenuClosed(ERRDISPLAYTOOSMALL, m.s_scroll, NoItem)
          \/ menu' = MenuClosed(Crashed, m.s_scroll, NoItem)
          \/ menu'.open = TRUE
      BY <2>2, <2>3 DEF menu_do_resize, MenuLocals, MenuFields
    <2>. QED BY <2>4, <2>5, <2>6, <2>7
  <1>4. ASSUME MenuInv, MenuMove PROVE Kept1
    <2>1. PICK screen, scroll, choice : MenuMoveTo(screen, scroll, choice)
      BY <1>4 DEF MenuMove, MenuUp, MenuDown, MenuPageUp, MenuPageDown, MenuHotKey, Scroll
    <2>2. CASE menu.open
      <3>1. MenuLocals(menu)
        BY <1>4, <2>2 DEF MenuInv, MenuLaidOut, MenuGiven
      <3>2. menu'.open = TRUE
        BY <2>1, <3>1 DEF MenuMoveTo, MenuLocals, MenuFields
      <3>. QED BY <3>2
    <2>. QED BY <2>2
  <1>5. ASSUME MenuInv, NEW by \in {1, -1}, MenuTurn(by) PROVE Kept1
    <2>1. MenuLocals(menu)
      BY <1>5 DEF MenuTurn, MenuInv, MenuLaidOut, MenuGiven
    <2>2. menu'.open = TRUE
      BY <1>5, <2>1 DEF MenuTurn, MenuLocals, MenuFields
    <2>. QED BY <2>2
  <1>6. ASSUME MenuInv, UNCHANGED menu_vars PROVE Kept1
    BY <1>6 DEF menu_vars
  <1>7. ASSUME MenuInv, [MenuNext]_menu_vars PROVE Kept1
    <2>1. CASE MenuEnter
      <3>1. menu.button \in 0..4
        BY <1>7, <2>1 DEF MenuEnter, MenuReturn, MenuInv, MenuLaidOut, MenuGiven
      <3>2. Buttons[menu.button] \in MenuKeys
        BY <3>1, SMT DEF Buttons, MenuKeys
      <3>. QED BY <1>1, <1>7, <2>1, <3>2 DEF MenuEnter
    <2>2. ASSUME NEW key \in DOMAIN Commands, Command(key) PROVE Kept1
      <3>1. Commands[key] \in MenuKeys
        BY DEF Commands, MenuKeys
      <3>. QED BY <1>1, <1>7, <2>2, <3>1 DEF Command
    <2>3. CASE ~menu.open
      BY <2>3
    <2>. QED BY <1>2, <1>3, <1>4, <1>5, <1>6, <1>7, <2>1, <2>2, <2>3 DEF MenuNext, dialog_menu
  <1>8. DialogsInv /\ [Next]_vars => [Kept1]_menu_vars
    <2>1. [Next]_vars => MenuNext \/ menu' = menu
      BY DEF Next, vars
    <2>. QED BY <1>7, <2>1 DEF DialogsInv
  <1>. QED BY <1>8, DialogsInvariant, PTL DEF Spec, MenuKeepsPromise

\* So does the checklist.
LEMMA ListPromises == Spec => ListKeepsPromise
  <1>. DEFINE PromiseKept == list.open /\ ~list'.open =>
                        [res |-> list'.res, item |-> list'.item] \in ListPromise(list.count)
  <1>0. /\ [res |-> KEY_ESC, item |-> NoItem] \in ListPromise(list.count)
        /\ [res |-> ERRDISPLAYTOOSMALL, item |-> NoItem] \in ListPromise(list.count)
    BY DEF ListPromise, NoChoice, Promise
  <1>1. ASSUME ListInv, NEW b \in 0..1, ListReturn(b) PROVE PromiseKept
    <2>1. list'.res = ListButtons[b] /\ list'.item = list.scroll + list.choice
      BY <1>1 DEF ListReturn, ListClosed
    <2>2. ListButtons[b] \in {"ok", "help"}
      BY <1>1, SMT DEF ListButtons
    <2>3. list.scroll + list.choice \in 0..(list.count - 1)
      BY <1>1, ListBounds, SMT DEF ListReturn
    <2>. QED BY <2>1, <2>2, <2>3 DEF ListPromise, Promise
  <1>2. ASSUME ListInv, ListLeave PROVE PromiseKept
    BY <1>0, <1>2 DEF ListLeave, ListClosed
  <1>3. ASSUME ListInv, NEW l \in Heights, ListResize(l) PROVE PromiseKept
    <2>. DEFINE c == [list EXCEPT !.resized = TRUE]
    <2>1. ListLocals(list)
      BY <1>3 DEF ListResize, ListInv, ListLaidOut, ListGiven
    <2>2. ListLocals(c)
      BY <2>1 DEF ListLocals, ListFields
    <2>3. list' = list_do_resize(c, l)
      BY <1>3 DEF ListResize
    <2>. HIDE DEF c
    <2>4. list' = ListClosed(ERRDISPLAYTOOSMALL, NoItem) \/ list'.open = TRUE
      BY <2>2, <2>3 DEF list_do_resize, ListLocals, ListFields
    <2>5. CASE list' = ListClosed(ERRDISPLAYTOOSMALL, NoItem)
      BY <1>0, <2>5 DEF ListClosed
    <2>. QED BY <2>4, <2>5
  <1>4. ASSUME ListInv, list.open, ListUp \/ ListDown \/ \E c \in Letters : ListHotKey(c) PROVE PromiseKept
    <2>1. ListLocals(list)
      BY <1>4 DEF ListInv, ListLaidOut, ListGiven
    <2>2. list'.open = TRUE
      BY <1>4, <2>1 DEF ListUp, ListDown, ListHotKey, ListMoveTo, ListScrollBy, ListLocals, ListFields
    <2>. QED BY <2>2
  <1>5. ASSUME ListInv, NEW by \in {1, -1}, ListTurn(by) PROVE PromiseKept
    <2>1. ListLocals(list)
      BY <1>5 DEF ListTurn, ListInv, ListLaidOut, ListGiven
    <2>2. list'.open = TRUE
      BY <1>5, <2>1 DEF ListTurn, ListLocals, ListFields
    <2>. QED BY <2>2
  <1>6. ASSUME ListInv, UNCHANGED list_vars PROVE PromiseKept
    BY <1>6 DEF list_vars
  <1>7. ASSUME ListInv, [ListNext]_list_vars PROVE PromiseKept
    <2>1. CASE ListSelect \/ ListHelp
      <3>1. list.open
        BY <2>1 DEF ListSelect, ListHelp, ListReturn
      <3>2. list.button \in 0..1 /\ 1 \in 0..1
        BY <1>7, <3>1, SMT DEF ListInv, ListLaidOut, ListGiven
      <3>. QED BY <1>1, <1>7, <2>1, <3>2 DEF ListSelect, ListHelp
    <2>2. CASE ~list.open
      BY <2>2
    <2>. QED BY <1>2, <1>3, <1>4, <1>5, <1>6, <1>7, <2>1, <2>2 DEF ListNext, dialog_checklist
  <1>8. DialogsInv /\ [Next]_vars => [PromiseKept]_list_vars
    <2>1. [Next]_vars => ListNext \/ list' = list
      BY DEF Next, vars
    <2>. QED BY <1>7, <2>1 DEF DialogsInv
  <1>. QED BY <1>8, DialogsInvariant, PTL DEF Spec, ListKeepsPromise

\* A caller gets an item of the list, or none, from the menu box and from the checklist:
\* they keep what Mconf relies on.
THEOREM PromisesAreKept == Spec => KeepsPromises
  <1>. QED BY MenuPromises, ListPromises, PTL DEF KeepsPromises

--------------------------------------------------------------------------------
(* The screens of menuconfig                                                       *)

(* Why: the first call is the main menu's, or handle_exit's after it, and so there   *)
(* is one to return to from any other; and a search is asked for in a menu, so that  *)
(* what replaces the question has its title next to the menu's.                  *)
Calls(st, tr) ==
    /\ st \in Seq(Frames) /\ tr \in Seq(Int) /\ Path(st, tr)
    /\ st # <<>> /\ st[1].f \in {"menu", "exit"}
    /\ \A i \in DOMAIN st : st[i].f = "ask" => i = Len(tr) + 1
ScreensInv == status = Running => Calls(stack, trail) /\ (Waiting(Titled) => subtitles = Titles(trail))

\* What a call is: a menu's has the menu, and those of the code that starts a screen.
LEMMA FrameIs ==
    /\ \A c \in Frames : c.f = "menu" => c.m \in Nat
    /\ Frame("menu", rootmenu) \in Frames
    /\ \A b \in BOOLEAN : [f |-> "exit", m |-> 0, signal |-> b] \in Frames
<1>1. \A c \in Frames : c.f = "menu" => c.m \in Nat BY DEF Frames
<1>2. Frame("menu", rootmenu) \in Frames BY DEF Frames, Frame, rootmenu
<1>3. \A b \in BOOLEAN : [f |-> "exit", m |-> 0, signal |-> b] \in Frames BY DEF Frames
<1> QED BY <1>1, <1>2, <1>3

\* A sequence without its last element.
LEMMA FrontIs ==
    ASSUME NEW E, NEW s \in Seq(E), s # <<>>
    PROVE  /\ Front(s) \in Seq(E) /\ Len(Front(s)) = Len(s) - 1 /\ Last(s) \in E
           /\ DOMAIN Front(s) = 1..Len(s) - 1
           /\ \A i \in 1..Len(s) - 1 : Front(s)[i] = s[i]
           /\ Append(Front(s), Last(s)) = s
<1>1. Len(s) \in Nat \ {0} OBVIOUS
<1>2. Front(s) = SubSeq(s, 1, Len(s) - 1) BY DEF Front
<1>3. Front(s) \in Seq(E) BY <1>1, <1>2
<1>4. Len(Front(s)) = Len(s) - 1
  <2>1. CASE Len(s) = 1 BY <1>1, <1>2, <2>1
  <2>2. CASE Len(s) > 1 BY <1>1, <1>2, <2>2
  <2>3. \A n \in Nat \ {0} : n = 1 \/ n > 1 OBVIOUS
  <2> QED BY <1>1, <2>1, <2>2, <2>3
<1>5. \A i \in 1..Len(s) - 1 : Front(s)[i] = s[i] BY <1>1, <1>2
<1>6. Last(s) \in E BY <1>1 DEF Last
<1>7. Append(Front(s), Last(s)) = s BY <1>1, <1>2, <1>6 DEF Last
<1>8. DOMAIN Front(s) = 1..Len(s) - 1 BY <1>3, <1>4
<1> QED BY <1>6, <1>7, <1>3, <1>4, <1>5, <1>8

\* Where the last call is: at the last title when it has one, next to it when it asks.
LEMMA LastCall ==
    ASSUME NEW st, NEW tr, Calls(st, tr)
    PROVE  /\ Len(st) \in Nat \ {0} /\ Last(st) = st[Len(st)] /\ Last(st) \in Frames
           /\ Len(tr) \in 0..Len(st)
           /\ Last(st).f \in Titled <=> Len(tr) = Len(st)
           /\ Last(st).f = "ask" => Len(tr) = Len(st) - 1
           /\ Last(st).f \notin {"menu", "exit"} => Len(st) > 1
<1>1. Len(st) \in Nat \ {0} /\ Last(st) = st[Len(st)] /\ Len(st) \in DOMAIN st BY DEF Calls, Last
<1>2. Last(st) \in Frames BY <1>1 DEF Calls
<1> QED BY <1>1, <1>2 DEF Calls, Path

\* A dialog without a title opens: a question for a search, only over a title.
LEMMA OpensUntitled ==
    ASSUME NEW st, NEW tr, Calls(st, tr), NEW c \in Frames, c.f \notin Titled,
           c.f = "ask" => Last(st).f \in Titled
    PROVE  Calls(Append(st, c), tr)
<1> DEFINE new == Append(st, c)
<1>1. /\ new \in Seq(Frames) /\ Len(new) = Len(st) + 1 /\ new[Len(st) + 1] = c
      /\ \A i \in 1..Len(st) : new[i] = st[i]
  BY DEF Calls
<1>2. Len(tr) \in 0..Len(st) /\ Len(st) \in Nat \ {0} /\ (c.f = "ask" => Len(tr) = Len(st)) BY LastCall
<1>3. Path(new, tr) BY <1>1, <1>2 DEF Calls, Path
<1> QED BY <1>1, <1>2, <1>3 DEF Calls

\* A menu or a search opens over another one, with its title.
LEMMA OpensTitled ==
    ASSUME NEW st, NEW tr, Calls(st, tr), Len(tr) = Len(st), NEW c \in Frames, c.f \in Titled,
           NEW t \in Int, TitleIs(t, c)
    PROVE  Calls(Append(st, c), Append(tr, t))
<1> DEFINE new == Append(st, c)
           titles == Append(tr, t)
<1>1. /\ new \in Seq(Frames) /\ Len(new) = Len(st) + 1 /\ new[Len(st) + 1] = c
      /\ \A i \in 1..Len(st) : new[i] = st[i]
      /\ titles \in Seq(Int) /\ Len(titles) = Len(st) + 1 /\ titles[Len(st) + 1] = t
      /\ \A i \in 1..Len(st) : titles[i] = tr[i]
  BY DEF Calls
<1>2. Len(st) \in Nat \ {0} BY LastCall
<1>3. Path(new, titles) BY <1>1, <1>2 DEF Calls, Path
<1>4. \A i \in DOMAIN new : new[i].f # "ask" BY <1>1, <1>2 DEF Calls, Titled
<1> QED BY <1>1, <1>2, <1>3, <1>4 DEF Calls

\* A dialog without a title closes, or a menu or a search with its title.
LEMMA Closes ==
    ASSUME NEW st, NEW tr, Calls(st, tr), Len(st) > 1
    PROVE  /\ Last(st).f \notin Titled => Calls(Front(st), tr) /\ (Last(st).f = "ask" => Len(tr) = Len(Front(st)))
           /\ Last(st).f \in Titled =>
                /\ Calls(Front(st), Front(tr)) /\ Len(Front(tr)) = Len(Front(st))
                /\ Append(Front(tr), Last(tr)) = tr /\ Last(tr) \in Int /\ TitleIs(Last(tr), Last(st))
<1>1. /\ Front(st) \in Seq(Frames) /\ Len(Front(st)) = Len(st) - 1 /\ Len(st) \in Nat
      /\ DOMAIN Front(st) = 1..Len(st) - 1 /\ DOMAIN st = 1..Len(st)
      /\ \A i \in 1..Len(st) - 1 : Front(st)[i] = st[i]
  <2>1. st \in Seq(Frames) /\ st # <<>> BY DEF Calls
  <2> QED BY <2>1, FrontIs
<1>2. Len(tr) \in Nat /\ tr \in Seq(Int) /\ DOMAIN tr = 1..Len(tr) BY DEF Calls
<1>3. /\ \A i \in 1..Len(st) : st[i].f \in Titled <=> i <= Len(tr)
      /\ \A i \in 1..Len(tr) : TitleIs(tr[i], st[i])
      /\ \A i \in 1..Len(st) : st[i].f = "ask" => i = Len(tr) + 1
  BY <1>1, <1>2 DEF Calls, Path
<1>4. ASSUME Last(st).f \notin Titled
      PROVE  Calls(Front(st), tr) /\ (Last(st).f = "ask" => Len(tr) = Len(Front(st)))
  <2>1. Len(tr) \in 0..Len(st) - 1 /\ (Last(st).f = "ask" => Len(tr) = Len(st) - 1) BY LastCall, <1>4
  <2>2. \A i \in DOMAIN Front(st) : Front(st)[i].f \in Titled <=> i <= Len(tr) BY <1>1, <1>3
  <2>3. \A i \in DOMAIN tr : TitleIs(tr[i], Front(st)[i])
    <3>1. \A i \in DOMAIN tr : i \in 1..Len(st) - 1 BY <1>1, <1>2, <2>1
    <3> QED BY <1>1, <1>2, <1>3, <3>1
  <2>4. Path(Front(st), tr) BY <1>1, <2>1, <2>2, <2>3 DEF Path
  <2>5. \A i \in DOMAIN Front(st) : Front(st)[i].f = "ask" => i = Len(tr) + 1 BY <1>1, <1>3
  <2>6. Front(st) # <<>> /\ Front(st)[1].f \in {"menu", "exit"} BY <1>1 DEF Calls
  <2> QED BY <1>1, <1>2, <2>1, <2>4, <2>5, <2>6 DEF Calls
<1>5. ASSUME Last(st).f \in Titled
      PROVE  /\ Calls(Front(st), Front(tr)) /\ Len(Front(tr)) = Len(Front(st))
             /\ Append(Front(tr), Last(tr)) = tr /\ Last(tr) \in Int /\ TitleIs(Last(tr), Last(st))
  <2>1. Len(tr) = Len(st) BY LastCall, <1>5
  <2>2. /\ Front(tr) \in Seq(Int) /\ Len(Front(tr)) = Len(st) - 1
        /\ DOMAIN Front(tr) = 1..Len(st) - 1
        /\ \A i \in 1..Len(st) - 1 : Front(tr)[i] = tr[i]
        /\ Append(Front(tr), Last(tr)) = tr /\ Last(tr) \in Int
    <3>1. tr \in Seq(Int) /\ tr # <<>> BY <1>1, <1>2, <2>1
    <3> QED BY <2>1, <3>1, FrontIs
  <2>3. TitleIs(Last(tr), Last(st)) BY <1>1, <2>1 DEF Calls, Path, Last
  <2>4. \A i \in 1..Len(st) - 1 : TitleIs(Front(tr)[i], Front(st)[i]) BY <1>1, <1>3, <2>1, <2>2
  <2>5. \A i \in 1..Len(st) - 1 : Front(st)[i].f \in Titled BY <1>1, <1>3, <2>1
  <2>6. Path(Front(st), Front(tr)) BY <1>1, <2>1, <2>2, <2>4, <2>5 DEF Path
  <2>7. \A i \in DOMAIN Front(st) : Front(st)[i].f # "ask" BY <1>1, <1>3, <2>1
  <2> QED BY <1>1, <2>2, <2>3, <2>6, <2>7 DEF Calls
<1> QED BY <1>4, <1>5

\* A step that goes on to a screen that is not drawn yet, with calls that fit.
LEMMA GoesOnKeeps ==
    ASSUME NEW st, NEW tr, Calls(st, tr), GoesOn(st, tr)
    PROVE  ScreensInv'
<1>1. stack' = st /\ trail' = tr /\ (Last(st).f \in Titled => ~drawn')
  BY DEF GoesOn, Goes, Titled
<1>2. ~Waiting(Titled)' BY <1>1 DEF Waiting, Top
<1> QED BY <1>1, <1>2 DEF ScreensInv

\* A step that ends the program.
LEMMA EndsKeeps == Ends => ScreensInv'
BY DEF Ends, ScreensInv

\* handle_exit asks over the calls st, or ends.
LEMMA ExitsKeep ==
    ASSUME NEW st, NEW tr, NEW b \in BOOLEAN, Exits(st, tr, b),
           Calls(Append(st, [f |-> "exit", m |-> 0, signal |-> b]), tr)
    PROVE  ScreensInv'
<1>1. CASE GoesOn(Append(st, [f |-> "exit", m |-> 0, signal |-> b]), tr) BY <1>1, GoesOnKeeps
<1>2. CASE Ends BY <1>2, EndsKeeps
<1> QED BY <1>1, <1>2 DEF Exits

\* The calls of a program that begins, and of handle_exit after the main menu.
LEMMA FirstCalls ==
    /\ Calls(<<Frame("menu", rootmenu)>>, <<TitleOf(rootmenu)>>)
    /\ \A b \in BOOLEAN : Calls(<<[f |-> "exit", m |-> 0, signal |-> b]>>, <<>>)
<1>1. Calls(<<Frame("menu", rootmenu)>>, <<TitleOf(rootmenu)>>)
  <2> DEFINE c == Frame("menu", rootmenu)
             t == TitleOf(rootmenu)
  <2>1. c \in Frames /\ c.f = "menu" /\ c.f \in Titled /\ c.f # "ask" BY FrameIs DEF Frame, Titled
  <2>2. t \in Int /\ TitleIs(t, c) BY DEF TitleIs, TitleOf, Frame, rootmenu
  <2> HIDE DEF c, t
  <2>3. Path(<<c>>, <<t>>)
    <3>1. \A i \in DOMAIN <<c>> : <<c>>[i] = c /\ i = 1 OBVIOUS
    <3>2. \A i \in DOMAIN <<t>> : <<t>>[i] = t /\ <<c>>[i] = c OBVIOUS
    <3>3. Len(<<c>>) = 1 /\ Len(<<t>>) = 1 OBVIOUS
    <3>4. Len(<<t>>) \in 0..Len(<<c>>) BY <3>3
    <3>5. \A i \in DOMAIN <<c>> : <<c>>[i].f \in Titled <=> i <= Len(<<t>>) BY <2>1, <3>1, <3>3
    <3>6. \A i \in DOMAIN <<t>> : TitleIs(<<t>>[i], <<c>>[i])
      <4> TAKE i \in DOMAIN <<t>>
      <4>1. <<t>>[i] = t /\ <<c>>[i] = c BY <3>2
      <4> QED BY <2>2, <4>1
    <3> QED BY <3>4, <3>5, <3>6 DEF Path
  <2>4. Calls(<<c>>, <<t>>) BY <2>1, <2>2, <2>3 DEF Calls
  <2> QED BY <2>4 DEF c, t
<1>2. ASSUME NEW b \in BOOLEAN PROVE Calls(<<[f |-> "exit", m |-> 0, signal |-> b]>>, <<>>)
  <2> DEFINE c == [f |-> "exit", m |-> 0, signal |-> b]
  <2>1. c \in Frames /\ c.f = "exit" /\ c.f \notin Titled BY FrameIs DEF Titled
  <2> HIDE DEF c
  <2>2. Path(<<c>>, <<>>) BY <2>1 DEF Path
  <2>3. Calls(<<c>>, <<>>) BY <2>1, <2>2 DEF Calls
  <2> QED BY <2>3 DEF c
<1> QED BY <1>1, <1>2

\* The calls and the titles stay as they should, for any configuration.
THEOREM ScreensInvariant == ScreensSpec => []ScreensInv
<1>1. ScreensInit => ScreensInv BY FirstCalls DEF ScreensInit, ScreensInv, Waiting
<1>2. ASSUME ScreensInv, [ScreensNext]_screen_vars PROVE ScreensInv'
  <2> DEFINE c == Last(stack')
  <2>1. CASE UNCHANGED screen_vars
    BY <1>2, <2>1 DEF ScreensInv, screen_vars, Waiting, Top
  <2>2. CASE DrawScreen
    <3>1. status = Running /\ Calls(stack, trail) BY <1>2, <2>2 DEF DrawScreen, ScreensInv
    <3>2. CASE Top.f # "results"
      <4>1. UNCHANGED <<stack, trail, status>> BY <2>2, <3>2 DEF DrawScreen
      <4>2. Top.f \in Titled => subtitles' = Titles(trail) BY <2>2 DEF DrawScreen
      <4> QED BY <3>1, <4>1, <4>2 DEF ScreensInv, Waiting, Top
    <3>3. CASE Top.f = "results"
      <4>1. c \in Frames /\ c.f = "results" /\ stack' = Append(Front(stack), c) BY <2>2, <3>3 DEF DrawScreen, Shows
      <4>2. Top.f \in Titled /\ c.f \in Titled BY <3>3, <4>1 DEF Titled
      <4>3. UNCHANGED <<trail, status>> /\ subtitles' = Titles(trail) BY <2>2, <4>2 DEF DrawScreen
      <4>4. Len(stack) > 1 BY <3>1, <3>3, LastCall DEF Top
      <4>5. /\ Calls(Front(stack), Front(trail)) /\ Len(Front(trail)) = Len(Front(stack))
            /\ Append(Front(trail), Last(trail)) = trail /\ Last(trail) \in Int /\ TitleIs(Last(trail), Last(stack))
        BY <3>1, <4>2, <4>4, Closes DEF Top
      <4>6. TitleIs(Last(trail), c) BY <3>3, <4>1, <4>5 DEF TitleIs, Top
      <4>7. Calls(stack', trail') BY <4>1, <4>2, <4>3, <4>5, <4>6, OpensTitled
      <4> QED BY <4>3, <4>7 DEF ScreensInv
    <3> QED BY <3>2, <3>3
  <2>3. CASE StayHere BY <1>2, <2>3, GoesOnKeeps DEF StayHere, Waiting, ScreensInv
  <2>4. CASE OpenDialog
    <3>1. Calls(stack, trail) /\ GoesOn(Append(stack, c), trail) BY <1>2, <2>4 DEF OpenDialog, ScreensInv
    <3>2. c \in Frames /\ c.f \in OpenedFrom(Top.f) BY <2>4 DEF OpenDialog, Shows
    <3>3. c.f \notin Titled /\ (c.f = "ask" => Last(stack).f \in Titled) BY <3>2 DEF OpenedFrom, Titled, Top
    <3>4. Calls(Append(stack, c), trail) BY <3>1, <3>2, <3>3, OpensUntitled
    <3> QED BY <3>1, <3>4, GoesOnKeeps
  <2>5. CASE CloseDialog
    <3>1. Calls(stack, trail) /\ GoesOn(Front(stack), trail) BY <1>2, <2>5 DEF CloseDialog, Waiting, ScreensInv
    <3>2. Last(stack).f \notin Titled /\ Last(stack).f \notin {"menu", "exit"}
      BY <2>5 DEF CloseDialog, Waiting, Titled, Top
    <3>3. Calls(Front(stack), trail) BY <3>1, <3>2, LastCall, Closes
    <3> QED BY <3>1, <3>3, GoesOnKeeps
  <2>6. CASE SaySaved
    <3>1. Calls(stack, trail) /\ GoesOn(Append(Front(stack), c), trail) BY <1>2, <2>6 DEF SaySaved, Waiting, ScreensInv
    <3>2. Last(stack).f \notin Titled /\ Last(stack).f \notin {"menu", "exit"}
      BY <2>6 DEF SaySaved, Waiting, Titled, Top
    <3>3. c \in Frames /\ c.f \notin Titled /\ c.f # "ask" BY <2>6 DEF SaySaved, Shows, Titled
    <3>4. Calls(Front(stack), trail) BY <3>1, <3>2, LastCall, Closes
    <3>5. Calls(Append(Front(stack), c), trail) BY <3>3, <3>4, OpensUntitled
    <3> QED BY <3>1, <3>5, GoesOnKeeps
  <2>7. CASE EnterMenu
    <3> DEFINE t == TitleOf(c.m)
    <3>1. Calls(stack, trail) /\ GoesOn(Append(stack, c), Append(trail, t))
      BY <1>2, <2>7 DEF EnterMenu, Waiting, ScreensInv
    <3>2. Len(trail) = Len(stack) BY <2>7, <3>1, LastCall DEF EnterMenu, Waiting, Top
    <3>3. c \in Frames /\ c.f = "menu" BY <2>7 DEF EnterMenu, Shows
    <3>4. c.f \in Titled /\ t \in Int /\ TitleIs(t, c) BY <3>3, FrameIs DEF Titled, TitleOf, TitleIs
    <3>5. Calls(Append(stack, c), Append(trail, t)) BY <3>1, <3>2, <3>3, <3>4, OpensTitled
    <3> QED BY <3>1, <3>5, GoesOnKeeps
  <2>8. CASE BeginSearch
    <3> DEFINE t == Last(trail')
    <3>1. Calls(stack, trail) /\ GoesOn(Append(Front(stack), c), Append(trail, t))
      BY <1>2, <2>8 DEF BeginSearch, Waiting, ScreensInv
    <3>2. Last(stack).f = "ask" BY <2>8 DEF BeginSearch, Waiting, Top
    <3>3. c \in Frames /\ c.f = "results" /\ t \in Int /\ t < 0 BY <2>8 DEF BeginSearch, Shows
    <3>4. c.f \in Titled /\ TitleIs(t, c) BY <3>3 DEF Titled, TitleIs
    <3>5. Calls(Front(stack), trail) /\ Len(trail) = Len(Front(stack))
      BY <3>1, <3>2, LastCall, Closes DEF Titled
    <3>6. Calls(Append(Front(stack), c), Append(trail, t)) BY <3>3, <3>4, <3>5, OpensTitled
    <3> QED BY <3>1, <3>6, GoesOnKeeps
  <2>9. CASE LeaveTitled
    <3>1. Calls(stack, trail) /\ GoesOn(Front(stack), Front(trail)) BY <1>2, <2>9 DEF LeaveTitled, Waiting, ScreensInv
    <3>2. Last(stack).f \in Titled /\ Len(stack) > 1 BY <2>9 DEF LeaveTitled, Waiting, Top
    <3>3. Calls(Front(stack), Front(trail)) BY <3>1, <3>2, Closes
    <3> QED BY <3>1, <3>3, GoesOnKeeps
  <2>10. CASE ExitMenu
    <3>1. Append(<<>>, [f |-> "exit", m |-> 0, signal |-> FALSE]) = <<[f |-> "exit", m |-> 0, signal |-> FALSE]>>
      OBVIOUS
    <3>2. Calls(<<[f |-> "exit", m |-> 0, signal |-> FALSE]>>, <<>>) BY FirstCalls
    <3> QED BY <2>10, <3>1, <3>2, ExitsKeep DEF ExitMenu
  <2>11. CASE InterruptHere
    <3> DEFINE e == [f |-> "exit", m |-> 0, signal |-> TRUE]
    <3>1. Calls(stack, trail) /\ Exits(stack, trail, TRUE) BY <1>2, <2>11 DEF InterruptHere, ScreensInv
    <3>2. e \in Frames /\ e.f \notin Titled /\ e.f # "ask" BY FrameIs DEF Titled
    <3>3. Calls(Append(stack, e), trail)
      <4> HIDE DEF e
      <4> QED BY <3>1, <3>2, OpensUntitled
    <3> QED BY <3>1, <3>3, ExitsKeep
  <2>12. CASE AnswerExit BY <2>12, EndsKeeps, FirstCalls, GoesOnKeeps DEF AnswerExit
  <2> QED BY <1>2, <2>1, <2>2, <2>3, <2>4, <2>5, <2>6, <2>7, <2>8, <2>9, <2>10, <2>11, <2>12 DEF ScreensNext
<1> QED BY <1>1, <1>2, PTL DEF ScreensSpec

\* The titles of menuconfig's screens are those of the menus and searches that are
\* open, however they were opened and left, and whatever is configured.
THEOREM TitlesArePath == ScreensSpec => []TrailIsPath
<1>1. ScreensInv => TrailIsPath BY DEF ScreensInv, Calls, TrailIsPath
<1> QED BY <1>1, ScreensInvariant, PTL
====================================================================================
