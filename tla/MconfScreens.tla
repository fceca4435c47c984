------------------------------- MODULE MconfScreens -------------------------------
(* The screens of menuconfig (support/kconfig/mconf.c) without what they show: the *)
(* functions of mconf.c call each other from one dialog to the next, and keep a    *)
(* list of titles, the trail, to which some of them add theirs when they begin and  *)
(* from which they remove it when they return. Mconf adds the configuration, and    *)
(* says which of these steps a key is.                                           *)
EXTENDS DialogResults, Sequences, SequencesExt

VARIABLES
    stack,          \* the calls under way: the last is the dialog that is shown
    drawn,          \* it was drawn, and waits
    trail,          \* the titles of the menus and searches entered: a menu, or -p for search p
    subtitles,      \* the titles shown at the top of the screen
    status          \* what main returns, or Running
screen_vars == <<stack, drawn, trail, subtitles, status>>

Running == "running"
rootmenu == 1
Frame(f, m) == [f |-> f, m |-> m]
Top == Last(stack)
\* The main menu has no title.
TitleOf(m) == IF m = rootmenu THEN 0 ELSE m
Titles(tr) == SelectSeq(tr, LAMBDA t : t # 0)

(* The calls: conf, conf_choice, conf_string and show_help with their menu; the     *)
(* texts, files and questions; the search with what it found; handle_exit, from     *)
(* main or from the handler of SIGINT; and the message of conf_write.               *)
Shown == [s : STRING, v : STRING]
Frames ==
    [f : {"menu", "choice", "string", "help"}, m : Nat]
    \cup [f : {"text", "readme", "load", "save", "ask"}, m : {0}]
    \cup [f : {"results"}, m : {0}, syms : Seq(STRING), shown : Seq(Shown), jumps : Seq(Nat)]
    \cup [f : {"exit"}, m : {0}, signal : BOOLEAN]
    \cup [f : {"saved"}, m : {0}, name : STRING]
Titled == {"menu", "results"}
\* The dialogs that another one opens and comes back to.
OpenedFrom(f) ==
    CASE f = "menu" -> {"choice", "string", "text", "readme", "help", "load", "save", "ask"}
      [] f = "choice" -> {"help"}
      [] f = "string" -> {"help", "text"}
      [] f \in {"load", "save", "ask"} -> {"text"}
      [] OTHER -> {}

(* The last of the calls st comes next: a menu, a choice, a search and a help       *)
(* build what they show each time.                                               *)
Goes(st, tr) ==
    /\ stack' = st /\ trail' = tr
    /\ drawn' = (Last(st).f \notin {"menu", "choice", "results", "help"})
    /\ subtitles' = IF Last(st).f \in {"readme", "load", "save", "exit"} THEN <<>> ELSE subtitles
GoesOn(st, tr) == Goes(st, tr) /\ UNCHANGED status
Shows(fs) == stack' # <<>> /\ Last(stack') \in Frames /\ Last(stack').f \in fs
Waiting(fs) == status = Running /\ drawn /\ Top.f \in fs

\* set_subtitle, and what a search has found now.
DrawScreen ==
    /\ status = Running /\ ~drawn /\ drawn' = TRUE
    /\ subtitles' = IF Top.f \in Titled THEN Titles(trail) ELSE subtitles
    /\ IF Top.f = "results" THEN Shows({"results"}) /\ stack' = Append(Front(stack), Last(stack'))
       ELSE UNCHANGED stack
    /\ UNCHANGED <<trail, status>>
StayHere == Waiting({"menu", "choice"}) /\ GoesOn(stack, trail)
OpenDialog == status = Running /\ drawn /\ Shows(OpenedFrom(Top.f)) /\ GoesOn(Append(stack, Last(stack')), trail)
CloseDialog ==
    /\ Waiting({"choice", "string", "text", "readme", "help", "load", "save", "ask", "saved"})
    /\ GoesOn(Front(stack), trail)
\* conf_write says what it wrote while conf_save waits for it, to return then.
SaySaved == Waiting({"save"}) /\ Shows({"saved"}) /\ GoesOn(Append(Front(stack), Last(stack')), trail)

\* conf and search_conf add a title and take it away.
EnterMenu ==
    /\ Waiting(Titled) /\ Shows({"menu"})
    /\ GoesOn(Append(stack, Last(stack')), Append(trail, TitleOf(Last(stack').m)))
BeginSearch ==
    /\ Waiting({"ask"}) /\ Shows({"results"})
    /\ trail' # <<>> /\ Last(trail') \in Int /\ Last(trail') < 0
    /\ GoesOn(Append(Front(stack), Last(stack')), Append(trail, Last(trail')))
LeaveTitled == Waiting(Titled) /\ Len(stack) > 1 /\ GoesOn(Front(stack), Front(trail))

\* handle_exit: the main menu has returned, or a signal came on top of anything.
Ends == status' # Running /\ UNCHANGED drawn
Exits(st, tr, signal) ==
    \/ GoesOn(Append(st, [f |-> "exit", m |-> 0, signal |-> signal]), tr)
    \/ Ends /\ stack' = st /\ trail' = tr /\ subtitles' = <<>>
ExitMenu == Waiting({"menu"}) /\ Len(stack) = 1 /\ Exits(<<>>, <<>>, FALSE)
InterruptHere == status = Running /\ ~(Top.f = "exit" /\ Top.signal) /\ Exits(stack, trail, TRUE)
AnswerExit ==
    /\ Waiting({"exit"})
    /\ \/ Ends /\ UNCHANGED <<stack, trail, subtitles>>
       \/ ~Top.signal /\ GoesOn(<<Frame("menu", rootmenu)>>, <<TitleOf(rootmenu)>>)

ScreensInit ==
    /\ stack = <<Frame("menu", rootmenu)>> /\ trail = <<TitleOf(rootmenu)>> /\ subtitles = <<>>
    /\ drawn = FALSE /\ status = Running
ScreensNext ==
    \/ DrawScreen \/ StayHere \/ OpenDialog \/ CloseDialog \/ SaySaved \/ EnterMenu \/ BeginSearch \/ LeaveTitled
    \/ ExitMenu \/ InterruptHere \/ AnswerExit
ScreensSpec == ScreensInit /\ [][ScreensNext]_screen_vars

--------------------------------------------------------------------------------
TitleIs(t, c) == IF c.f = "menu" THEN t = TitleOf(c.m) ELSE t < 0
Path(st, tr) ==
    /\ Len(tr) \in 0..Len(st)
    /\ \A i \in DOMAIN st : st[i].f \in Titled <=> i <= Len(tr)
    /\ \A i \in DOMAIN tr : TitleIs(tr[i], st[i])
\* The titles at the top of the screen are those of the menus and searches that are
\* open, which are the first calls of the stack, however they were left and whatever
\* reset the titles (mconf.c:320-356).
TrailIsPath ==
    status = Running => Path(stack, trail) /\ (Waiting(Titled) => subtitles = Titles(trail))
================================================================================
