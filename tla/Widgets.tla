------------------------------- MODULE Widgets ------------------------------
(***************************************************************************)
(* The user interface of the plotter: the menus and messages of main()     *)
(* (plotter/main.cpp), their states and how they are drawn                 *)
(* (plotter/widgets.cpp), and the part of struct state (plotter/driver.cpp)*)
(* that hands the presses of three buttons to the widget on display and    *)
(* draws it.  One round of the main loop handles events, looks for a       *)
(* message to the server, and draws; between two rounds a homing may       *)
(* change the texts of its messages, or the widget.  (Two homings at a     *)
(* time, and the tasks that keep them alive, are the subject of Homing.)   *)
(***************************************************************************)
EXTENDS Display, Sequences, FiniteSets

CONSTANTS
  Texts       \* bound: different texts a message may have

ASSUME WidgetsAssumption == Texts # {}

MenuSize == [exit_menu |-> 2, main_menu |-> 5, utilities_menu |-> 15]

\* Lines of text a message has, the empty one behind the last "\n" included.
Lines == [message |-> 4, show_homing_results |-> 4, homing_message |-> 3, results_message |-> 4]

Menus == DOMAIN MenuSize
Messages == DOMAIN Lines

\* The messages that get another text while they may be on the screen.
Updated == {"homing_message", "show_homing_results"}

Buttons == {"down", "up", "ok"}

VARIABLES
  widget,       \* state::widget_: what it is made from, and its own state
  changed,      \* state::changed_
  text,         \* text_ of the messages that are updated
  prev_pressed, \* the buttons that were down at the last look
  homed,        \* state::homed_ has a value
  return_to,    \* show_homing_limits_return_widget
  homing,       \* what the HomeState is doing, if there is one
  from_menu,    \* it was asked for by the menu, and not by a G28
  exit,         \* "yes" was chosen
  phase,        \* where the main loop is
  canvas,       \* what the pixels on the screen were drawn from
  opener,       \* ghost: the menu that the results were opened from
  interrupted   \* ghost: a G28 has taken the screen while utilities were open

vars == <<widget, changed, text, prev_pressed, homed, return_to, homing, from_menu, exit, phase,
          canvas, opener, interrupted>>

\* The text of a message that has only one.
Same == CHOOSE t \in Texts : TRUE

TextOf(w) == IF w \in Updated THEN text[w] ELSE Same

(***************************************************************************)
(* make(): a menu's first item is selected; a message takes a copy of its  *)
(* text, to compare with it later.                                         *)
(***************************************************************************)
Make(w) ==
  [shows |-> w, current_item |-> 0, current_text |-> TextOf(w)]

SetWidget(w) ==
  /\ widget' = Make(w)
  /\ changed' = TRUE

Init ==
  /\ text = [m \in Updated |-> Same]
  /\ widget = [shows |-> "main_menu", current_item |-> 0, current_text |-> Same]
  /\ changed = TRUE
  /\ prev_pressed = {}
  /\ homed = FALSE
  /\ return_to = "main_menu"
  /\ homing = "none"
  /\ from_menu = TRUE
  /\ exit = FALSE
  /\ phase = "sched"
  /\ canvas = [shows |-> "nothing", current_item |-> 0, current_text |-> Same]
  /\ opener = "main_menu"
  /\ interrupted = FALSE

-----------------------------------------------------------------------------
(***************************************************************************)
(* The geometry of a menu of a given size with one item selected: where    *)
(* that item is drawn, how many are drawn above it, and the first one that *)
(* is not drawn any more below.                                            *)
(***************************************************************************)
HeaderHeight == 25
ItemHeight == 20
Padding == 4
SpaceForMore == 20
ScrollBarWidth == 3

BelowFrom(y) == (Height - (y + ItemHeight)) \div ItemHeight + 1

\* Mutant of Layout: one row too few is drawn below.
LayoutEndsEarly(size, item) ==
  LET middle == HeaderHeight + (Height - HeaderHeight - ItemHeight) \div 2
      left == size - 1 - item
      ideal == IF BelowFrom(middle) > left THEN Height - (left + 1) * ItemHeight ELSE middle
      above == Least((ideal - HeaderHeight) \div ItemHeight + 1, item)
      y == Least(ideal, above * ItemHeight + HeaderHeight)
  IN  [y |-> y, first |-> item - above, end |-> Least(item + BelowFrom(y) - 1, size)]

Layout(size, item) ==
  LET middle == HeaderHeight + (Height - HeaderHeight - ItemHeight) \div 2
      left == size - 1 - item
      ideal == IF BelowFrom(middle) > left THEN Height - (left + 1) * ItemHeight ELSE middle
      above == Least((ideal - HeaderHeight) \div ItemHeight + 1, item)
      y == Least(ideal, above * ItemHeight + HeaderHeight)
  IN  [y |-> y, first |-> item - above, end |-> Least(item + BelowFrom(y), size)]

\* Where an item is drawn.
ItemY(layout, item, i) == layout.y + (i - item) * ItemHeight

ItemBar(y, selected) ==
  Fill(Rect(Point(0, y + 1), Point(Width - ScrollBarWidth - 2, y + ItemHeight)), selected)

\* Names of any width; they reach as far from the baseline as any character.
ItemName(y, selected) ==
  PrintText(Point(Padding, y + ItemHeight - Padding),
            Rect(Point(0, y), Point(Width - 1 - SpaceForMore, y + ItemHeight)),
            Width, 14, 4, ~ selected)

(***************************************************************************)
(* base_menu_state::draw, in the order in which it draws: of each row the  *)
(* bar, the name, and an arrow if it leads to another menu.  (A row above  *)
(* the screen would keep those below it from moving on, but the first row  *)
(* starts less than a row above the lower edge of the header.)             *)
(***************************************************************************)
Items(name, size, item) ==
  LET layout == Layout(size, item)
      ItemAt(n) == layout.first + (n - 1) \div 3
      Y(n) == ItemY(layout, item, ItemAt(n))
      OnScreen(n) == Y(n) + ItemHeight > 0 /\ Y(n) <= Height
      More(n) == name = "main_menu" /\ ItemAt(n) = 3
  IN  [n \in 1 .. 3 * (layout.end - layout.first) |->
         CASE OnScreen(n) /\ n % 3 = 1 -> ItemBar(Y(n), ItemAt(n) = item)
           [] OnScreen(n) /\ n % 3 = 2 -> ItemName(Y(n), ItemAt(n) = item)
           [] OnScreen(n) /\ n % 3 = 0 /\ More(n) ->
                PrintText(Point(Width - SpaceForMore + Padding, Y(n) + ItemHeight - Padding),
                          Screen, 5, 8, 0, ItemAt(n) # item)
           [] OTHER -> Nothing]

HeaderBar == Fill(Rect(Point(0, 0), Point(Width - 1, HeaderHeight)), FALSE)
HeaderText ==
  PrintText(Point(Padding, HeaderHeight - Padding), Rect(Point(0, 0), Point(Width - 1, HeaderHeight)),
            Width, 14, 4, TRUE)
HeaderLine == HLine(Point(0, HeaderHeight + 1), Width, TRUE)

\* Mutant of Thumb: the header's height is not taken off the row's.
ThumbOfScreen(size, item) ==
  LET visible == Height - HeaderHeight
      all == size * ItemHeight
  IN  [start |-> HeaderHeight + ((item * ItemHeight - Layout(size, item).y) * visible) \div all,
       height |-> (visible * visible) \div all]

\* The thumb of the scroll bar: its first line, and how much longer it is.
Thumb(size, item) ==
  LET visible == Height - HeaderHeight
      all == size * ItemHeight
  IN  [start |-> HeaderHeight +
                 ((item * ItemHeight - Layout(size, item).y + HeaderHeight) * visible) \div all,
       height |-> (visible * visible) \div all]

ScrollBar(size, item) ==
  LET thumb == Thumb(size, item)
  IN  IF size * ItemHeight <= Height - HeaderHeight THEN <<>>
      ELSE <<VLine(Point(Width - 3, HeaderHeight), thumb.start - 1, TRUE),
             VLine(Point(Width - 3, thumb.start + thumb.height + 2),
                   Height - (thumb.height + 1 + thumb.start), TRUE),
             Fill(Rect(Point(Width - ScrollBarWidth, thumb.start),
                       Point(Width - 1, thumb.start + thumb.height)), TRUE)>>

MenuPicture(name, size, item) ==
  <<Clear(FALSE)>> \o Items(name, size, item) \o <<HeaderBar, HeaderText, HeaderLine>> \o
  ScrollBar(size, item)

\* Mutant of ButtonRect: the corners are the upper right's and lower left's.
ButtonRectTurned ==
  LET width == Width \div 3
      left == (Width - width) \div 2
  IN  Rect(Point(left + width, Height - 1 - ItemHeight), Point(left, Height - 1))

(***************************************************************************)
(* message_state::draw: header, lines of text, and a button.               *)
(***************************************************************************)
ButtonRect ==
  LET width == Width \div 3
      left == (Width - width) \div 2
  IN  Rect(Point(left, Height - 1 - ItemHeight), Point(left + width, Height - 1))

MessagePicture(lines) ==
  <<Clear(FALSE), HeaderText>> \o
  [i \in 1 .. lines |->
     PrintText(Point(Padding, HeaderHeight + i * ItemHeight - Padding), Screen, Width, 14, 4, TRUE)] \o
  <<Fill(ButtonRect, TRUE),
    PrintText(Point(ButtonRect.topLeft.x + Padding, ButtonRect.bottomRight.y - Padding),
              ButtonRect, Width, 14, 4, FALSE)>>

\* state::draw prints the positions of the motors over what the widget draws.
Overlay == PrintText(Point(Width \div 2, HeaderHeight - Padding), Screen, Width, 14, 4, TRUE)

Picture(shows, item) ==
  (IF shows \in Menus THEN MenuPicture(shows, MenuSize[shows], item) ELSE MessagePicture(Lines[shows])) \o
  <<Overlay>>

\* What can be on the screen: every menu with every item of it, every message.
MenusDrawn == {menu \in {<<w, i>> : w \in Menus, i \in 0 .. 14} : menu[2] < MenuSize[menu[1]]}
MessagesDrawn == {<<w, 0>> : w \in Messages}

-----------------------------------------------------------------------------
LoopStart ==
  /\ phase = "sched"
  /\ ~ exit
  /\ phase' = "events"
  /\ UNCHANGED <<widget, changed, text, prev_pressed, homed, return_to, homing, from_menu, exit, canvas, opener,
                 interrupted>>

\* Mutant of Moved: "down" does not stop at the last item.
MovedTooFar(pressed) ==
  LET item == widget.current_item
      menu == widget.shows \in Menus
      down == "down" \in pressed /\ ~ changed /\ menu /\ item + 1 <= MenuSize[widget.shows]
      up == "up" \in pressed /\ ~ changed /\ ~ down /\ menu /\ item # 0
  IN  [changed |-> changed \/ down \/ up,
       item |-> IF down THEN item + 1 ELSE IF up THEN item - 1 ELSE item]

(***************************************************************************)
(* What "down" and "up" leave behind: they move within a menu, and nothing *)
(* is looked at once something has changed.                                *)
(***************************************************************************)
Moved(pressed) ==
  LET item == widget.current_item
      menu == widget.shows \in Menus
      down == "down" \in pressed /\ ~ changed /\ menu /\ item + 1 < MenuSize[widget.shows]
      up == "up" \in pressed /\ ~ changed /\ ~ down /\ menu /\ item # 0
  IN  [changed |-> changed \/ down \/ up,
       item |-> IF down THEN item + 1 ELSE IF up THEN item - 1 ELSE item]

Pressed(held) == held \ prev_pressed

\* Mutant of OkReaches: "ok" is handled whether or not something has changed.
OkReachesAlways(held) == "ok" \in Pressed(held)

OkReaches(held) == "ok" \in Pressed(held) /\ ~ Moved(Pressed(held)).changed

(***************************************************************************)
(* A homing starts and shows its message, or one that tells which motors   *)
(* are not connected.                                                      *)
(***************************************************************************)
Home(by_menu) ==
  /\ homing = "none"
  /\ homing' \in {"running", "failed"}
  /\ from_menu' = by_menu
  /\ SetWidget("homing_message")

(***************************************************************************)
(* The actions of the menus and messages.                                  *)
(***************************************************************************)
ClickMainMenu ==
  /\ widget.shows = "main_menu"
  /\ \/ widget.current_item = 0 /\ Home(TRUE) /\ UNCHANGED opener
     \/ widget.current_item = 1 /\ SetWidget("message") /\ UNCHANGED <<homing, from_menu, opener>>
     \/ widget.current_item = 2 /\ SetWidget("show_homing_results") /\ opener' = "main_menu"
        /\ UNCHANGED <<homing, from_menu>>
     \/ widget.current_item = 3 /\ SetWidget("utilities_menu")
        /\ UNCHANGED <<homing, from_menu, opener>>
     \/ widget.current_item = 4 /\ SetWidget("exit_menu") /\ UNCHANGED <<homing, from_menu, opener>>
  /\ UNCHANGED <<return_to, exit, interrupted>>

ClickExitMenu ==
  /\ widget.shows = "exit_menu"
  /\ \/ widget.current_item = 0 /\ exit' = TRUE /\ changed' = TRUE /\ UNCHANGED widget
     \/ widget.current_item = 1 /\ SetWidget("main_menu") /\ UNCHANGED exit
  /\ UNCHANGED <<homing, from_menu, return_to, opener, interrupted>>

\* Mutant of ClickUtilities: going back does not reset where results return to.
ClickUtilitiesForgets ==
  /\ widget.shows = "utilities_menu"
  /\ \/ widget.current_item = 0 /\ SetWidget("main_menu") /\ UNCHANGED <<return_to, opener, interrupted>>
     \/ widget.current_item # 0 /\ homed
        /\ changed' = TRUE /\ UNCHANGED <<widget, return_to, opener, interrupted>>
     \/ widget.current_item # 0 /\ ~ homed
        /\ return_to' = "utilities_menu" /\ opener' = "utilities_menu"
        /\ SetWidget("show_homing_results") /\ UNCHANGED interrupted
  /\ UNCHANGED <<homing, from_menu, exit>>

(***************************************************************************)
(* "< Back", and the fourteen items that move the motors if their limits   *)
(* are known, and tell that they are not otherwise.                        *)
(***************************************************************************)
ClickUtilities ==
  /\ widget.shows = "utilities_menu"
  /\ \/ widget.current_item = 0 /\ SetWidget("main_menu") /\ return_to' = "main_menu"
        /\ interrupted' = FALSE /\ UNCHANGED opener
     \/ widget.current_item # 0 /\ homed
        /\ changed' = TRUE /\ UNCHANGED <<widget, return_to, opener, interrupted>>
     \/ widget.current_item # 0 /\ ~ homed
        /\ return_to' = "utilities_menu" /\ opener' = "utilities_menu"
        /\ SetWidget("show_homing_results") /\ UNCHANGED interrupted
  /\ UNCHANGED <<homing, from_menu, exit>>

ClickMessage ==
  /\ \/ widget.shows = "message" /\ SetWidget("main_menu") /\ UNCHANGED homing
     \/ widget.shows = "show_homing_results" /\ SetWidget(return_to) /\ UNCHANGED homing
     \/ widget.shows \in {"homing_message", "results_message"} /\ SetWidget("main_menu")
        /\ homing' = IF homing = "failed" THEN "stop_failed" ELSE "stop"
  /\ UNCHANGED <<from_menu, return_to, exit, opener, interrupted>>

(***************************************************************************)
(* state::handle_events.  The action of a menu or message has handled the  *)
(* press when it returns, whatever it did: changed_ is set.                *)
(***************************************************************************)
LoopEvents(held) ==
  /\ phase = "events"
  /\ \/ /\ ~ OkReaches(held)
        /\ widget' = [widget EXCEPT !.current_item = Moved(Pressed(held)).item]
        /\ changed' = Moved(Pressed(held)).changed
        /\ UNCHANGED <<homing, from_menu, return_to, exit, opener, interrupted>>
     \/ /\ OkReaches(held)
        /\ ClickMainMenu \/ ClickExitMenu \/ ClickUtilities \/ ClickMessage
  /\ prev_pressed' = held
  /\ phase' = "server"
  /\ UNCHANGED <<text, homed, canvas>>

(***************************************************************************)
(* A G28 shows the homing's message in place of whatever is on the screen, *)
(* and leads back to the main menu.  Other messages do not show anything.  *)
(***************************************************************************)
LoopServer ==
  /\ phase = "server"
  /\ \/ UNCHANGED <<widget, changed, homing, from_menu, interrupted>>
     \/ Home(FALSE) /\ interrupted' = (interrupted \/ return_to = "utilities_menu")
  /\ phase' = "draw"
  /\ UNCHANGED <<text, prev_pressed, homed, return_to, exit, canvas, opener>>

\* Mutant of LoopDraw: a message's text is not compared with the one drawn.
LoopDrawOwnChanges(force) ==
  /\ phase = "draw"
  /\ UNCHANGED widget
  /\ changed' = FALSE
  /\ canvas' = IF changed \/ force THEN widget ELSE canvas
  /\ phase' = "sched"
  /\ UNCHANGED <<text, prev_pressed, homed, return_to, homing, from_menu, exit, opener, interrupted>>

(***************************************************************************)
(* state::draw, which looks at the widget's text only if nothing else has  *)
(* changed, and then draws if anything has, or once in 200 ms.             *)
(***************************************************************************)
LoopDraw(force) ==
  LET newer == ~ changed /\ widget.shows \in Messages /\ widget.current_text # TextOf(widget.shows)
  IN
  /\ phase = "draw"
  /\ widget' = IF newer THEN [widget EXCEPT !.current_text = TextOf(widget.shows)] ELSE widget
  /\ changed' = FALSE
  /\ canvas' = IF changed \/ newer \/ force THEN widget' ELSE canvas
  /\ phase' = "sched"
  /\ UNCHANGED <<text, prev_pressed, homed, return_to, homing, from_menu, exit, opener, interrupted>>

-----------------------------------------------------------------------------
(***************************************************************************)
(* Between two rounds of the loop: a step of the homing gives its message  *)
(* another text; it shows its results; it reports them, or that it failed, *)
(* after its message was dismissed.  main() keeps them, and for a homing   *)
(* from the menu makes a text of them.                                     *)
(***************************************************************************)
HomingStep(t) ==
  /\ phase = "sched"
  /\ homing = "running"
  /\ text' = [text EXCEPT !["homing_message"] = t]
  /\ UNCHANGED <<widget, changed, prev_pressed, homed, return_to, homing, from_menu, exit, phase,
                 canvas, opener, interrupted>>

HomingShowsResults ==
  /\ phase = "sched"
  /\ homing = "running"
  /\ homing' = "results"
  /\ SetWidget("results_message")
  /\ UNCHANGED <<text, prev_pressed, homed, return_to, from_menu, exit, phase, canvas, opener,
                 interrupted>>

HomingDone(t) ==
  /\ phase = "sched"
  /\ homing \in {"stop", "stop_failed"}
  /\ homing' = "none"
  /\ homed' = (homed \/ homing = "stop")
  /\ text' = IF homing = "stop" /\ from_menu THEN [text EXCEPT !["show_homing_results"] = t] ELSE text
  /\ UNCHANGED <<widget, changed, prev_pressed, return_to, from_menu, exit, phase, canvas, opener,
                 interrupted>>

Next ==
  \/ LoopStart
  \/ \E held \in SUBSET Buttons : LoopEvents(held)
  \/ LoopServer
  \/ \E force \in BOOLEAN : LoopDraw(force)
  \/ HomingShowsResults
  \/ \E t \in Texts : HomingStep(t) \/ HomingDone(t)

Spec == Init /\ [][Next]_vars

-----------------------------------------------------------------------------
TypeOK ==
  /\ widget \in [shows : Menus \cup Messages, current_item : 0 .. 14, current_text : Texts]
  /\ canvas \in [shows : Menus \cup Messages \cup {"nothing"}, current_item : 0 .. 14, current_text : Texts]
  /\ text \in [Updated -> Texts]
  /\ prev_pressed \subseteq Buttons
  /\ return_to \in {"main_menu", "utilities_menu"} /\ opener \in {"main_menu", "utilities_menu"}
  /\ homing \in {"none", "running", "results", "failed", "stop", "stop_failed"}
  /\ phase \in {"sched", "events", "server", "draw"}
  /\ {changed, homed, from_menu, exit, interrupted} \subseteq BOOLEAN

\* A menu's item, and the only one of a message.
ItemsOf(shows) == IF shows \in Menus THEN MenuSize[shows] ELSE 1

\* The item selected is one there is; so is the one on the screen.
ItemsExist ==
  /\ widget.current_item < ItemsOf(widget.shows)
  /\ canvas.shows # "nothing" => canvas.current_item < ItemsOf(canvas.shows)

\* A message of a homing is the widget exactly as long as the homing can be dismissed with it.
Dismissable ==
  /\ widget.shows = "homing_message" <=> homing \in {"running", "failed"}
  /\ widget.shows = "results_message" <=> homing = "results"

\* Unless changed_ says otherwise the screen was drawn from the widget, and if it does the widget
\* was made from the text there is now: nothing gives it another between that and the drawing.
DrawnOrFresh ==
  IF ~ changed THEN canvas = widget
  ELSE /\ widget.shows \in Messages => widget.current_text = TextOf(widget.shows)
       /\ phase = "sched" => homing \in {"none", "results"}

\* The results lead back to the utilities only from within them.
KnowsWayBack ==
  interrupted \/
    /\ return_to = "utilities_menu" => widget.shows \in {"utilities_menu", "show_homing_results"}
    /\ widget.shows = "show_homing_results" => return_to = opener

(***************************************************************************)
(* The selected item is one of the menu's, and a message of a homing is on *)
(* the screen exactly as long as the homing can be dismissed with it; the  *)
(* other parts are what makes this, and what a step does, inductive.       *)
(***************************************************************************)
IInv == TypeOK /\ ItemsExist /\ Dismissable /\ DrawnOrFresh /\ KnowsWayBack

(***************************************************************************)
(* Each time the screen has been looked after, it shows the widget, its    *)
(* selected item and the text the message has now, whoever changed them.   *)
(***************************************************************************)
DrawnIsCurrent ==
  [][phase = "draw" /\ phase' = "sched" =>
       /\ canvas'.shows = widget'.shows
       /\ canvas'.current_item = widget'.current_item
       /\ canvas'.shows \in Messages => canvas'.current_text = TextOf(widget.shows)]_vars

(***************************************************************************)
(* What a press of "ok" does, stopping a homing and leaving the program    *)
(* included, is what the screen showed it would do: never the action of a  *)
(* widget, or an item, that replaced it a moment ago.                      *)
(***************************************************************************)
ClickIsOnWhatIsShown ==
  [][phase = "events" /\ (widget'.shows # widget.shows \/ homing' # homing \/ exit' # exit) =>
       canvas.shows = widget.shows /\ canvas.current_item = widget.current_item]_vars

(***************************************************************************)
(* "Exit" of the homing results goes back to the menu they were opened     *)
(* from, unless a G28 took the user out of the utilities without "< Back". *)
(***************************************************************************)
BackToOpener ==
  [][phase = "events" /\ widget.shows = "show_homing_results"
       /\ widget'.shows # widget.shows /\ ~ interrupted => widget'.shows = opener]_vars

(***************************************************************************)
(* Of the row of the selected item at least all lines but one can be seen: *)
(* they are on the screen, below the header, and no row, bar or line that  *)
(* is drawn later covers them.                                             *)
(***************************************************************************)
RowVisible(picture) ==
  \E n \in DOMAIN picture :
    /\ picture[n].op = "fill" /\ picture[n].color /\ picture[n].left = 0
    /\ Cardinality({y \in picture[n].top .. picture[n].bottom - 1 :
                      /\ HeaderHeight + 1 < y /\ y < Height
                      /\ \A m \in n + 1 .. Len(picture) :
                           picture[m].op \notin {"text", "nothing"} => ~ Covers(picture[m], Point(Padding, y))})
         >= ItemHeight - 1

WithRowVisible ==
  {menu \in MenusDrawn : RowVisible(Picture(menu[1], menu[2]))}

SelectedRowVisible ==
  canvas.shows \in Menus => <<canvas.shows, canvas.current_item>> \in WithRowVisible

\* No loop of what is drawn runs past the number it is to stop at.
WithLoopsThatEnd ==
  {w \in MenusDrawn \cup MessagesDrawn :
     \A n \in DOMAIN Picture(w[1], w[2]) : LoopsStop(Picture(w[1], w[2])[n])}

LoopsEnd ==
  canvas.shows = "nothing" \/ <<canvas.shows, canvas.current_item>> \in WithLoopsThatEnd

(***************************************************************************)
(* The thumb of the scroll bar stays within the bar, touches its upper end *)
(* if and only if the first item is the topmost row, and is at most a line *)
(* and the rounding away from the lower end when the last is drawn.        *)
(***************************************************************************)
ThumbFits(size, item) ==
  LET thumb == Thumb(size, item)
      y == Layout(size, item).y
  IN  /\ HeaderHeight <= thumb.start /\ thumb.start + thumb.height <= Height
      /\ thumb.start = HeaderHeight <=> y = HeaderHeight + item * ItemHeight
      /\ y + (size - item) * ItemHeight = Height => thumb.start + thumb.height >= Height - 2

WithThumbThatFits ==
  {menu \in MenusDrawn : MenuSize[menu[1]] * ItemHeight > Height - HeaderHeight
                           => ThumbFits(MenuSize[menu[1]], menu[2])}

ThumbShowsPosition ==
  canvas.shows \in Menus => <<canvas.shows, canvas.current_item>> \in WithThumbThatFits

(***************************************************************************)
(* plotter/display.cpp asserts that every line has a length.               *)
(***************************************************************************)
WithLinesOfALength ==
  {w \in MenusDrawn \cup MessagesDrawn :
     \A n \in DOMAIN Picture(w[1], w[2]) :
       Picture(w[1], w[2])[n].op \in {"hline", "vline"} => Picture(w[1], w[2])[n].length > 0}

LinesHaveLength ==
  canvas.shows = "nothing" \/ <<canvas.shows, canvas.current_item>> \in WithLinesOfALength
=============================================================================
