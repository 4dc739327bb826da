---------------------------- MODULE WidgetsProofs ---------------------------
(***************************************************************************)
(* Proofs about the user interface of the plotter: the inductive invariant *)
(* IInv, and what it says about the screen, a press of "ok" and the way    *)
(* back from the results, for any number of texts; for the EV3's screen,   *)
(* where the thumb of a scroll bar is, that the selected row can be seen   *)
(* and that the loops that draw come to their ends; and, for any screen,   *)
(* what display::set and rectangle write.                                  *)
(***************************************************************************)
EXTENDS Widgets, FiniteSetTheorems, SequenceTheorems, TLAPS

Shows == Menus \cup Messages

LEMMA Names ==
  /\ Menus = {"exit_menu", "main_menu", "utilities_menu"}
  /\ Messages = {"message", "show_homing_results", "homing_message", "results_message"}
  /\ ItemsOf("exit_menu") = 2 /\ ItemsOf("main_menu") = 5 /\ ItemsOf("utilities_menu") = 15
  /\ \A m \in Messages : m \notin Menus /\ ItemsOf(m) = 1
BY DEF Menus, Messages, MenuSize, Lines, ItemsOf

LEMMA ItemsNat == \A w \in Shows : ItemsOf(w) \in 1 .. 15
BY Names DEF Shows

LEMMA TextTypes ==
  ASSUME text \in [Updated -> Texts]
  PROVE  Same \in Texts /\ \A w \in Shows : TextOf(w) \in Texts
<1>1. Same \in Texts
  BY WidgetsAssumption DEF Same
<1>2. QED
  BY <1>1 DEF TextOf

\* A widget that was made shows its first item, and the text there is.
LEMMA MadeWidget ==
  ASSUME text \in [Updated -> Texts], NEW w \in Shows
  PROVE  /\ Make(w) \in [shows : Shows, current_item : 0 .. 14, current_text : Texts]
         /\ Make(w).shows = w /\ Make(w).current_item = 0 /\ Make(w).current_text = TextOf(w)
BY TextTypes DEF Make

(***************************************************************************)
(* "down" and "up" stay within the menu, and say so when they move.        *)
(***************************************************************************)
LEMMA MovedWithin ==
  ASSUME TypeOK, ItemsExist, NEW pressed
  PROVE  LET m == Moved(pressed) IN
         /\ m.changed \in BOOLEAN /\ m.item \in 0 .. 14 /\ m.item < ItemsOf(widget.shows)
         /\ changed => m.changed
         /\ ~ m.changed => m.item = widget.current_item
         /\ widget.shows \notin Menus => m.changed = changed /\ m.item = widget.current_item
<1>1. widget.current_item \in 0 .. 14 /\ changed \in BOOLEAN /\ widget.shows \in Shows
  BY DEF TypeOK, Shows
<1>2. widget.current_item < ItemsOf(widget.shows) /\ ItemsOf(widget.shows) \in 1 .. 15
  BY <1>1, ItemsNat DEF ItemsExist
<1>3. widget.shows \in Menus => ItemsOf(widget.shows) = MenuSize[widget.shows]
  BY DEF ItemsOf
<1> DEFINE item == widget.current_item
           menu == widget.shows \in Menus
           down == "down" \in pressed /\ ~ changed /\ menu /\ item + 1 < MenuSize[widget.shows]
           up == "up" \in pressed /\ ~ changed /\ ~ down /\ menu /\ item # 0
           other == IF down THEN item + 1 ELSE IF up THEN item - 1 ELSE item
<1>4. /\ other \in 0 .. 14 /\ other < ItemsOf(widget.shows)
      /\ ~ menu => other = item
      /\ ~ (changed \/ down \/ up) => other = item
  BY <1>1, <1>2, <1>3
<1>5. /\ (changed \/ down \/ up) \in BOOLEAN
      /\ changed => (changed \/ down \/ up)
      /\ ~ menu => (changed \/ down \/ up) = changed
  BY <1>1
<1>6. Moved(pressed) = [changed |-> changed \/ down \/ up, item |-> other]
  BY DEF Moved
<1> HIDE DEF item, menu, down, up, other
<1>7. Moved(pressed).changed = (changed \/ down \/ up) /\ Moved(pressed).item = other
  BY <1>6
<1>8. (menu <=> widget.shows \in Menus) /\ item = widget.current_item
  BY DEF menu, item
<1>9. QED
  BY <1>4, <1>5, <1>7, <1>8

-----------------------------------------------------------------------------
LEMMA InitIInv == Init => IInv
<1> SUFFICES ASSUME Init PROVE IInv
  OBVIOUS
<1>1. Same \in Texts
  BY WidgetsAssumption DEF Same
<1>2. TypeOK
  <2>1. widget \in [shows : Menus \cup Messages, current_item : 0 .. 14, current_text : Texts]
    BY <1>1, Names DEF Init
  <2>2. canvas \in [shows : Menus \cup Messages \cup {"nothing"}, current_item : 0 .. 14, current_text : Texts]
    BY <1>1 DEF Init
  <2>3. text \in [Updated -> Texts]
    BY <1>1 DEF Init
  <2>4. QED
    BY <2>1, <2>2, <2>3 DEF Init, TypeOK
<1>3. ItemsExist /\ Dismissable /\ KnowsWayBack
  BY Names DEF Init, ItemsExist, Dismissable, KnowsWayBack
<1>4. DrawnOrFresh
  BY Names DEF Init, DrawnOrFresh
<1>5. QED
  BY <1>2, <1>3, <1>4 DEF IInv

(***************************************************************************)
(* The steps.  What a step that sets another widget does, first.           *)
(***************************************************************************)
LEMMA WidgetSet ==
  ASSUME IInv, NEW w \in Shows, SetWidget(w), UNCHANGED <<text, canvas>>,
         phase' # "sched" \/ homing' \in {"none", "results"}
  PROVE  /\ widget' \in [shows : Shows, current_item : 0 .. 14, current_text : Texts]
         /\ changed' = TRUE
         /\ widget'.shows = w
         /\ ItemsExist'
         /\ DrawnOrFresh'
<1>1. text \in [Updated -> Texts]
  BY DEF IInv, TypeOK
<1>2. widget' = Make(w) /\ changed' = TRUE
  BY DEF SetWidget
<1>3. /\ widget' \in [shows : Shows, current_item : 0 .. 14, current_text : Texts]
      /\ widget'.shows = w /\ widget'.current_item = 0 /\ widget'.current_text = TextOf(w)
  BY <1>1, <1>2, MadeWidget
<1>4. ItemsExist'
  BY <1>3, ItemsNat DEF IInv, ItemsExist, ItemsOf
<1>5. DrawnOrFresh'
  BY <1>2, <1>3 DEF DrawnOrFresh, TextOf
<1>6. QED
  BY <1>2, <1>3, <1>4, <1>5

LEMMA LoopStartIInv == IInv /\ LoopStart => IInv'
BY Names DEF IInv, LoopStart, TypeOK, ItemsExist, ItemsOf, Dismissable, DrawnOrFresh, TextOf, KnowsWayBack

\* No press of "ok" is handled: the widget stays, and with it all that depends on what it shows.
LEMMA MoveIInv ==
  ASSUME IInv, NEW held \in SUBSET Buttons, LoopEvents(held), ~ OkReaches(held)
  PROVE  IInv'
<1> DEFINE m == Moved(Pressed(held))
<1>1. /\ widget' = [widget EXCEPT !.current_item = m.item] /\ changed' = m.changed
      /\ prev_pressed' = held /\ phase' = "server"
      /\ UNCHANGED <<homing, from_menu, return_to, exit, opener, interrupted, text, homed, canvas>>
  BY DEF LoopEvents
<1>2. /\ m.changed \in BOOLEAN /\ m.item \in 0 .. 14 /\ m.item < ItemsOf(widget.shows)
      /\ changed => m.changed
      /\ ~ m.changed => m.item = widget.current_item
      /\ widget.shows \notin Menus => m.changed = changed /\ m.item = widget.current_item
  BY MovedWithin DEF IInv
<1> HIDE DEF m
<1>3. /\ widget' \in [shows : Menus \cup Messages, current_item : 0 .. 14, current_text : Texts]
      /\ widget'.shows = widget.shows /\ widget'.current_item = m.item
      /\ widget'.current_text = widget.current_text
      /\ m.item = widget.current_item => widget' = widget
  BY <1>1, <1>2 DEF IInv, TypeOK
<1>4. TypeOK'
  BY <1>1, <1>2, <1>3 DEF IInv, TypeOK
<1>5. ItemsExist'
  BY <1>1, <1>2, <1>3 DEF IInv, ItemsExist, ItemsOf
<1>6. Dismissable' /\ KnowsWayBack'
  BY <1>1, <1>3 DEF IInv, Dismissable, KnowsWayBack
<1>7. DrawnOrFresh'
  <2>1. CASE ~ changed'
    BY <1>1, <1>2, <1>3, <2>1 DEF IInv, DrawnOrFresh
  <2>2. CASE changed' /\ widget.shows \in Menus
    BY <1>1, <1>3, <2>2, Names DEF DrawnOrFresh
  <2>3. CASE changed' /\ widget.shows \notin Menus
    <3>1. changed
      BY <1>1, <1>2, <2>3
    <3>2. QED
      BY <1>1, <1>3, <2>3, <3>1 DEF IInv, DrawnOrFresh, TextOf
  <2>4. QED
    BY <2>1, <2>2, <2>3
<1>8. QED
  BY <1>4, <1>5, <1>6, <1>7 DEF IInv

\* A press of "ok" is handled by the menu or message there is.
LEMMA ClickIInv ==
  ASSUME IInv, NEW held \in SUBSET Buttons, LoopEvents(held), OkReaches(held)
  PROVE  IInv'
<1>1. /\ prev_pressed' = held /\ phase' = "server" /\ UNCHANGED <<text, homed, canvas>>
      /\ ClickMainMenu \/ ClickExitMenu \/ ClickUtilities \/ ClickMessage
  BY DEF LoopEvents
<1>2. TypeOK /\ ItemsExist /\ Dismissable /\ DrawnOrFresh /\ KnowsWayBack
  BY DEF IInv
<1>3. ASSUME NEW w \in Shows, SetWidget(w)
      PROVE  /\ widget' \in [shows : Menus \cup Messages, current_item : 0 .. 14, current_text : Texts]
             /\ changed' = TRUE /\ widget'.shows = w /\ ItemsExist' /\ DrawnOrFresh'
  BY <1>1, <1>3, WidgetSet DEF Shows
<1>4. ASSUME UNCHANGED widget, changed', widget.shows \in Menus
      PROVE  ItemsExist' /\ DrawnOrFresh'
  BY <1>1, <1>2, <1>4, Names DEF ItemsExist, ItemsOf, DrawnOrFresh
<1>5. CASE ClickMainMenu
  <2> USE <1>5
  <2>1. CASE widget.current_item = 0 /\ Home(TRUE) /\ UNCHANGED opener
    BY <1>1, <1>2, <1>3, <2>1, Names
    DEF ClickMainMenu, Home, IInv, TypeOK, Dismissable, KnowsWayBack, Shows
  <2>2. ASSUME NEW w \in {"message", "utilities_menu", "exit_menu"}, SetWidget(w), widget.shows = "main_menu",
               UNCHANGED <<homing, from_menu, opener, return_to, exit, interrupted>>
        PROVE  IInv'
    BY <1>1, <1>2, <1>3, <2>2, Names DEF IInv, TypeOK, Dismissable, KnowsWayBack, Shows
  <2>3. CASE SetWidget("show_homing_results") /\ opener' = "main_menu" /\ UNCHANGED <<homing, from_menu>>
    BY <1>1, <1>2, <1>3, <2>3, Names
    DEF ClickMainMenu, IInv, TypeOK, Dismissable, KnowsWayBack, Shows
  <2>4. QED
    BY <2>1, <2>2, <2>3 DEF ClickMainMenu
<1>6. CASE ClickExitMenu
  <2>1. CASE SetWidget("main_menu") /\ UNCHANGED exit
    BY <1>1, <1>2, <1>3, <1>6, <2>1, Names
    DEF ClickExitMenu, IInv, TypeOK, Dismissable, KnowsWayBack, Shows
  <2>2. CASE exit' = TRUE /\ changed' = TRUE /\ UNCHANGED widget
    BY <1>1, <1>2, <1>4, <1>6, <2>2, Names
    DEF ClickExitMenu, IInv, TypeOK, Dismissable, KnowsWayBack
  <2>3. QED
    BY <1>6, <2>1, <2>2 DEF ClickExitMenu
<1>7. CASE ClickUtilities
  <2>1. CASE SetWidget("main_menu") /\ return_to' = "main_menu" /\ interrupted' = FALSE /\ UNCHANGED opener
    BY <1>1, <1>2, <1>3, <1>7, <2>1, Names
    DEF ClickUtilities, IInv, TypeOK, Dismissable, KnowsWayBack, Shows
  <2>2. CASE changed' = TRUE /\ UNCHANGED <<widget, return_to, opener, interrupted>>
    BY <1>1, <1>2, <1>4, <1>7, <2>2, Names
    DEF ClickUtilities, IInv, TypeOK, Dismissable, KnowsWayBack
  <2>3. CASE /\ return_to' = "utilities_menu" /\ opener' = "utilities_menu"
             /\ SetWidget("show_homing_results") /\ UNCHANGED interrupted
    BY <1>1, <1>2, <1>3, <1>7, <2>3, Names
    DEF ClickUtilities, IInv, TypeOK, Dismissable, KnowsWayBack, Shows
  <2>4. QED
    BY <1>7, <2>1, <2>2, <2>3 DEF ClickUtilities
<1>8. CASE ClickMessage
  <2>1. CASE widget.shows = "message" /\ SetWidget("main_menu") /\ UNCHANGED homing
    BY <1>1, <1>2, <1>3, <1>8, <2>1, Names
    DEF ClickMessage, IInv, TypeOK, Dismissable, KnowsWayBack, Shows
  <2>2. CASE widget.shows = "show_homing_results" /\ SetWidget(return_to) /\ UNCHANGED homing
    BY <1>1, <1>2, <1>3, <1>8, <2>2, Names
    DEF ClickMessage, IInv, TypeOK, Dismissable, KnowsWayBack, Shows
  <2>3. CASE /\ widget.shows \in {"homing_message", "results_message"} /\ SetWidget("main_menu")
             /\ homing' = IF homing = "failed" THEN "stop_failed" ELSE "stop"
    BY <1>1, <1>2, <1>3, <1>8, <2>3, Names
    DEF ClickMessage, IInv, TypeOK, Dismissable, KnowsWayBack, Shows
  <2>4. QED
    BY <1>8, <2>1, <2>2, <2>3 DEF ClickMessage
<1>9. QED
  BY <1>1, <1>5, <1>6, <1>7, <1>8

LEMMA LoopServerIInv == IInv /\ LoopServer => IInv'
<1> SUFFICES ASSUME IInv, LoopServer PROVE IInv'
  OBVIOUS
<1>1. TypeOK /\ ItemsExist /\ Dismissable /\ DrawnOrFresh /\ KnowsWayBack
  BY DEF IInv
<1>2. CASE UNCHANGED <<widget, changed, homing, from_menu, interrupted>>
  BY <1>1, <1>2 DEF LoopServer, IInv, TypeOK, ItemsExist, ItemsOf, Dismissable, DrawnOrFresh, TextOf, KnowsWayBack
<1>3. CASE Home(FALSE) /\ interrupted' = (interrupted \/ return_to = "utilities_menu")
  <2>1. /\ widget' \in [shows : Shows, current_item : 0 .. 14, current_text : Texts] /\ changed' = TRUE
        /\ widget'.shows = "homing_message" /\ ItemsExist' /\ DrawnOrFresh'
    BY <1>3, WidgetSet, Names DEF LoopServer, Home, Shows
  <2>2. TypeOK'
    BY <1>1, <1>3, <2>1 DEF LoopServer, Home, TypeOK, Shows
  <2>3. Dismissable' /\ KnowsWayBack'
    BY <1>1, <1>3, <2>1 DEF LoopServer, Home, Dismissable, KnowsWayBack, TypeOK
  <2>4. QED
    BY <2>1, <2>2, <2>3 DEF IInv
<1>4. QED
  BY <1>2, <1>3 DEF LoopServer

(***************************************************************************)
(* After the drawing the screen shows the widget, which has the text there *)
(* is now.                                                                 *)
(***************************************************************************)
LEMMA LoopDrawDraws ==
  ASSUME IInv, NEW force \in BOOLEAN, LoopDraw(force)
  PROVE  /\ canvas' = widget'
         /\ widget'.shows = widget.shows /\ widget'.current_item = widget.current_item
         /\ widget' \in [shows : Shows, current_item : 0 .. 14, current_text : Texts]
         /\ widget.shows \in Messages => widget'.current_text = TextOf(widget.shows)
<1> DEFINE newer == ~ changed /\ widget.shows \in Messages /\ widget.current_text # TextOf(widget.shows)
<1>1. /\ widget' = IF newer THEN [widget EXCEPT !.current_text = TextOf(widget.shows)] ELSE widget
      /\ canvas' = IF changed \/ newer \/ force THEN widget' ELSE canvas
  BY DEF LoopDraw
<1>2. widget \in [shows : Shows, current_item : 0 .. 14, current_text : Texts] /\ text \in [Updated -> Texts]
  BY DEF IInv, TypeOK, Shows
<1>3. TextOf(widget.shows) \in Texts
  BY <1>2, TextTypes
<1>4. canvas' = widget'
  BY <1>1 DEF IInv, DrawnOrFresh
<1>5. changed /\ widget.shows \in Messages => widget.current_text = TextOf(widget.shows)
  BY DEF IInv, DrawnOrFresh
<1>6. CASE newer
  BY <1>1, <1>2, <1>3, <1>4, <1>6
<1>7. CASE ~ newer
  BY <1>1, <1>2, <1>4, <1>5, <1>7
<1>8. QED
  BY <1>6, <1>7

LEMMA LoopDrawIInv ==
  ASSUME IInv, NEW force \in BOOLEAN, LoopDraw(force)
  PROVE  IInv'
<1>1. TypeOK /\ ItemsExist /\ Dismissable /\ DrawnOrFresh /\ KnowsWayBack
  BY DEF IInv
<1>2. /\ changed' = FALSE /\ phase' = "sched"
      /\ UNCHANGED <<text, prev_pressed, homed, return_to, homing, from_menu, exit, opener, interrupted>>
  BY DEF LoopDraw
<1>3. TypeOK'
  <2>1. widget' \in [shows : Menus \cup Messages, current_item : 0 .. 14, current_text : Texts]
    BY LoopDrawDraws DEF Shows
  <2>2. canvas' \in [shows : Menus \cup Messages \cup {"nothing"}, current_item : 0 .. 14, current_text : Texts]
    BY <2>1, LoopDrawDraws
  <2>3. QED
    BY <1>1, <1>2, <2>1, <2>2 DEF TypeOK
<1>4. ItemsExist'
  BY <1>1, LoopDrawDraws DEF ItemsExist, ItemsOf
<1>5. Dismissable' /\ KnowsWayBack'
  BY <1>1, <1>2, LoopDrawDraws DEF Dismissable, KnowsWayBack
<1>6. DrawnOrFresh'
  BY <1>2, LoopDrawDraws DEF DrawnOrFresh
<1>7. QED
  BY <1>3, <1>4, <1>5, <1>6 DEF IInv

\* A text changes only while changed_ is not set: what is set then was made from the text before.
LEMMA TextChangesIInv ==
  ASSUME IInv, NEW t \in Texts, HomingStep(t) \/ HomingDone(t)
  PROVE  IInv'
<1>1. TypeOK /\ ItemsExist /\ Dismissable /\ DrawnOrFresh /\ KnowsWayBack
  BY DEF IInv
<1>2. /\ phase = "sched" /\ homing \in {"running", "stop", "stop_failed"}
      /\ (homing' = homing /\ homing = "running") \/ (homing' = "none" /\ homing # "running")
      /\ text' \in [Updated -> Texts]
      /\ UNCHANGED <<widget, changed, prev_pressed, return_to, from_menu, exit, phase, canvas, opener,
                     interrupted>>
      /\ {homed, homed'} \subseteq BOOLEAN
  <2>1. phase = "sched" /\ text \in [Updated -> Texts] /\ homed \in BOOLEAN
    BY <1>1 DEF HomingStep, HomingDone, TypeOK
  <2>2. CASE HomingStep(t)
    BY <2>1, <2>2 DEF HomingStep
  <2>3. CASE HomingDone(t)
    <3>1. homed' \in BOOLEAN
      BY <2>1, <2>3 DEF HomingDone
    <3>2. text' \in [Updated -> Texts]
      BY <2>1, <2>3 DEF HomingDone
    <3>3. QED
      BY <2>1, <2>3, <3>1, <3>2 DEF HomingDone
  <2>4. QED
    BY <2>2, <2>3
<1>3. TypeOK'
  BY <1>1, <1>2 DEF TypeOK
<1>4. ItemsExist' /\ Dismissable' /\ KnowsWayBack'
  BY <1>1, <1>2 DEF ItemsExist, ItemsOf, Dismissable, KnowsWayBack
<1>5. ~ changed
  BY <1>1, <1>2 DEF DrawnOrFresh
<1>6. DrawnOrFresh'
  BY <1>1, <1>2, <1>5 DEF DrawnOrFresh
<1>7. QED
  BY <1>3, <1>4, <1>6 DEF IInv

LEMMA HomingShowsResultsIInv == IInv /\ HomingShowsResults => IInv'
<1> SUFFICES ASSUME IInv, HomingShowsResults PROVE IInv'
  OBVIOUS
<1>1. TypeOK /\ ItemsExist /\ Dismissable /\ DrawnOrFresh /\ KnowsWayBack
  BY DEF IInv
<1>2. /\ widget' \in [shows : Shows, current_item : 0 .. 14, current_text : Texts] /\ changed' = TRUE
      /\ widget'.shows = "results_message" /\ ItemsExist' /\ DrawnOrFresh'
  BY WidgetSet, Names DEF HomingShowsResults, Shows
<1>3. TypeOK'
  BY <1>1, <1>2 DEF HomingShowsResults, TypeOK, Shows
<1>4. Dismissable' /\ KnowsWayBack'
  BY <1>1, <1>2 DEF HomingShowsResults, Dismissable, KnowsWayBack
<1>5. QED
  BY <1>2, <1>3, <1>4 DEF IInv

LEMMA NextIInv == IInv /\ [Next]_vars => IInv'
<1> SUFFICES ASSUME IInv, [Next]_vars PROVE IInv'
  OBVIOUS
<1>1. CASE LoopStart
  BY <1>1, LoopStartIInv
<1>2. ASSUME NEW held \in SUBSET Buttons, LoopEvents(held) PROVE IInv'
  BY <1>2, MoveIInv, ClickIInv
<1>3. CASE LoopServer
  BY <1>3, LoopServerIInv
<1>4. ASSUME NEW force \in BOOLEAN, LoopDraw(force) PROVE IInv'
  BY <1>4, LoopDrawIInv
<1>5. CASE HomingShowsResults
  BY <1>5, HomingShowsResultsIInv
<1>6. ASSUME NEW t \in Texts, HomingStep(t) \/ HomingDone(t) PROVE IInv'
  BY <1>6, TextChangesIInv
<1>7. CASE UNCHANGED vars
  BY <1>7 DEF vars, IInv, TypeOK, ItemsExist, ItemsOf, Dismissable, DrawnOrFresh, TextOf, KnowsWayBack
<1>8. QED
  BY <1>1, <1>2, <1>3, <1>4, <1>5, <1>6, <1>7 DEF Next
(***************************************************************************)
(* A menu never has an item selected that it does not have; a homing's     *)
(* message is the widget exactly while the homing waits for it; changed_   *)
(* tells whether the screen is out of date; and a menu other than the main *)
(* one is remembered as the way back only from within the utilities        *)
(* (plotter/driver.cpp, plotter/widgets.cpp and main() in plotter/main.cpp).*)
(***************************************************************************)
THEOREM WidgetsInvariant == Spec => []IInv
BY InitIInv, NextIInv, PTL DEF Spec

-----------------------------------------------------------------------------
(***************************************************************************)
(* state::draw leaves on the screen what the widget is, with the item that *)
(* is selected and the text there is at that moment.                       *)
(***************************************************************************)
THEOREM ScreenIsCurrent == Spec => DrawnIsCurrent
<1>1. ASSUME IInv, [Next]_vars, phase = "draw", phase' = "sched"
      PROVE  \E force \in BOOLEAN : LoopDraw(force)
  BY <1>1 DEF Next, vars, LoopStart, LoopEvents, LoopServer, HomingShowsResults, HomingStep, HomingDone
<1>2. IInv /\ [Next]_vars =>
        [phase = "draw" /\ phase' = "sched" =>
           /\ canvas'.shows = widget'.shows
           /\ canvas'.current_item = widget'.current_item
           /\ canvas'.shows \in Messages => canvas'.current_text = TextOf(widget.shows)]_vars
  <2> SUFFICES ASSUME IInv, [Next]_vars, phase = "draw", phase' = "sched"
      PROVE  /\ canvas' = widget'
             /\ widget'.shows \in Messages => widget'.current_text = TextOf(widget.shows)
    OBVIOUS
  <2>1. PICK force \in BOOLEAN : LoopDraw(force)
    BY <1>1
  <2>2. QED
    BY <2>1, LoopDrawDraws
<1>3. QED
  BY <1>2, WidgetsInvariant, PTL DEF Spec, DrawnIsCurrent

(***************************************************************************)
(* A press of "ok" has the effect of what was on the screen when it was    *)
(* pressed: state::handle_events hands it to the widget only if nothing    *)
(* has changed since the last drawing.                                     *)
(***************************************************************************)
THEOREM ClicksAreMeant == Spec => ClickIsOnWhatIsShown
<1>1. ASSUME IInv, [Next]_vars, phase = "events",
             widget'.shows # widget.shows \/ homing' # homing \/ exit' # exit
      PROVE  canvas = widget
  <2>1. PICK held \in SUBSET Buttons : LoopEvents(held)
    BY <1>1 DEF Next, vars, LoopStart, LoopServer, LoopDraw, HomingShowsResults, HomingStep, HomingDone
  <2>2. widget \in [shows : Shows, current_item : 0 .. 14, current_text : Texts]
    BY <1>1 DEF IInv, TypeOK, Shows
  <2>3. OkReaches(held)
    BY <1>1, <2>1, <2>2 DEF LoopEvents
  <2>4. ~ changed
    BY <1>1, <2>3, MovedWithin DEF OkReaches, IInv
  <2>5. QED
    BY <1>1, <2>4 DEF IInv, DrawnOrFresh
<1>2. IInv /\ [Next]_vars =>
        [phase = "events" /\ (widget'.shows # widget.shows \/ homing' # homing \/ exit' # exit) =>
           canvas.shows = widget.shows /\ canvas.current_item = widget.current_item]_vars
  BY <1>1
<1>3. QED
  BY <1>2, WidgetsInvariant, PTL DEF Spec, ClickIsOnWhatIsShown

(***************************************************************************)
(* show_homing_limits_return_widget, which is set in one place and reset   *)
(* in another, leads back to where the results were opened from.           *)
(***************************************************************************)
THEOREM ResultsLeadBack == Spec => BackToOpener
<1>1. ASSUME IInv, [Next]_vars, phase = "events", widget.shows = "show_homing_results",
             widget'.shows # widget.shows, ~ interrupted
      PROVE  widget'.shows = opener
  <2>1. PICK held \in SUBSET Buttons : LoopEvents(held)
    BY <1>1 DEF Next, vars, LoopStart, LoopServer, LoopDraw, HomingShowsResults, HomingStep, HomingDone
  <2>2. /\ widget \in [shows : Shows, current_item : 0 .. 14, current_text : Texts]
        /\ return_to \in Shows /\ text \in [Updated -> Texts]
    BY <1>1, Names DEF IInv, TypeOK, Shows
  <2>3. OkReaches(held)
    BY <1>1, <2>1, <2>2 DEF LoopEvents
  <2>4. SetWidget(return_to)
    BY <1>1, <2>1, <2>3 DEF LoopEvents, ClickMainMenu, ClickExitMenu, ClickUtilities, ClickMessage
  <2>5. widget'.shows = return_to
    BY <2>2, <2>4, MadeWidget DEF SetWidget
  <2>6. QED
    BY <1>1, <2>5 DEF IInv, KnowsWayBack
<1>2. IInv /\ [Next]_vars =>
        [phase = "events" /\ widget.shows = "show_homing_results"
           /\ widget'.shows # widget.shows /\ ~ interrupted => widget'.shows = opener]_vars
  BY <1>1
<1>3. QED
  BY <1>2, WidgetsInvariant, PTL DEF Spec, BackToOpener

-----------------------------------------------------------------------------
(***************************************************************************)
(* Integer division leaves the thumb of the scroll bar within the bar, for *)
(* every item of the utilities on the screen of the EV3.                   *)
(***************************************************************************)
LEMMA UtilitiesThumb ==
  ASSUME Height = 128, NEW item \in 0 .. 14
  PROVE  ThumbFits(15, item)
<1>1. BelowFrom(66) = 3
  BY DEF BelowFrom, ItemHeight
<1>2. PICK y \in Int : y = IF item <= 2 THEN 20 * item + 25 ELSE IF item <= 11 THEN 66 ELSE 20 * item - 172
  OBVIOUS
<1>3. Layout(15, item).y = y
  <2>1. CASE item <= 11
    BY <1>1, <1>2, <2>1 DEF Layout, Least, HeaderHeight, ItemHeight
  <2>2. CASE item > 11
    BY <1>1, <1>2, <2>2 DEF Layout, Least, HeaderHeight, ItemHeight
  <2>3. QED
    BY <2>1, <2>2
<1>4. PICK start \in Int : start = 25 + ((20 * item - y + 25) * 103) \div 300
  BY <1>2
<1>5. Thumb(15, item) = [start |-> start, height |-> 35]
  BY <1>3, <1>4 DEF Thumb, HeaderHeight, ItemHeight
<1>6. /\ 25 <= start /\ start <= 92
      /\ start = 25 <=> item <= 2
      /\ item >= 12 => start = 92
  <2>1. CASE item <= 2
    BY <1>2, <1>4, <2>1
  <2>2. CASE item \in 3 .. 11
    BY <1>2, <1>4, <2>2
  <2>3. CASE item >= 12
    BY <1>2, <1>4, <2>3
  <2>4. QED
    BY <2>1, <2>2, <2>3
<1>7. /\ 25 <= start /\ start + 35 <= Height
      /\ start = 25 <=> y = 25 + item * 20
      /\ y + (15 - item) * 20 = Height => start + 35 >= Height - 2
  BY <1>2, <1>6
<1>8. QED
  BY <1>3, <1>5, <1>7 DEF ThumbFits, HeaderHeight, ItemHeight

(***************************************************************************)
(* The scroll bar that base_menu_state::draw paints shows where the rows   *)
(* on the screen of the EV3 are: the utilities are the only menu that has  *)
(* one, and no other item of it is ever drawn as the selected one.         *)
(***************************************************************************)
THEOREM ThumbIsRight == ASSUME Height = 128 PROVE Spec => []ThumbShowsPosition
<1>1. ASSUME NEW menu \in MenusDrawn, MenuSize[menu[1]] * ItemHeight > Height - HeaderHeight
      PROVE  ThumbFits(MenuSize[menu[1]], menu[2])
  <2>1. menu[1] \in Menus /\ menu[2] \in 0 .. 14
    BY DEF MenusDrawn
  <2>2. MenuSize[menu[1]] = 15
    BY <1>1, <2>1, Names DEF ItemsOf, ItemHeight, HeaderHeight
  <2>3. QED
    BY <2>1, <2>2, UtilitiesThumb
<1>2. IInv => ThumbShowsPosition
  <2> SUFFICES ASSUME IInv, canvas.shows \in Menus
      PROVE  <<canvas.shows, canvas.current_item>> \in WithThumbThatFits
    BY DEF ThumbShowsPosition
  <2>1. canvas.current_item \in 0 .. 14 /\ canvas.current_item < MenuSize[canvas.shows]
    BY Names DEF IInv, TypeOK, ItemsExist, ItemsOf
  <2>2. <<canvas.shows, canvas.current_item>> \in MenusDrawn
    BY <2>1 DEF MenusDrawn
  <2>3. QED
    BY <1>1, <2>2 DEF WithThumbThatFits
<1>3. QED
  BY <1>2, WidgetsInvariant, PTL

-----------------------------------------------------------------------------
(***************************************************************************)
(* The pictures, on the EV3's screen.  The selected row of a menu of any   *)
(* size lies below the header and above the lower edge; the first row that *)
(* is drawn is not above it, and the last one not below.                   *)
(***************************************************************************)
ScreenOfEV3 == Width = 178 /\ Height = 128

LEMMA LayoutBounds ==
  ASSUME ScreenOfEV3, NEW size \in Nat, NEW item \in 0 .. size - 1
  PROVE  /\ Layout(size, item).y \in 25 .. 108 /\ Layout(size, item).y <= 20 * item + 25
         /\ Layout(size, item).first \in 0 .. item
         /\ Layout(size, item).end \in item + 1 .. size
<1>1. PICK ideal \in Int : ideal = IF 3 > size - 1 - item THEN 128 - (size - item) * 20 ELSE 66
  OBVIOUS
<1>2. ideal \in 66 .. 108
  BY <1>1
<1>3. PICK above \in Int : above = Least((ideal - 25) \div 20 + 1, item)
  BY <1>2 DEF Least
<1>4. above \in 0 .. item
  BY <1>2, <1>3 DEF Least
<1>5. PICK y \in Int : y = Least(ideal, above * 20 + 25)
  BY <1>2, <1>4 DEF Least
<1>6. y \in 25 .. 108 /\ y <= 20 * item + 25
  BY <1>2, <1>4, <1>5 DEF Least
<1>7. PICK below \in Int : below = (128 - (y + 20)) \div 20 + 1
  BY <1>6
<1>8. below >= 1
  BY <1>6, <1>7
<1>9. PICK end \in Int : end = Least(item + below, size)
  BY <1>8 DEF Least
<1>10. end \in item + 1 .. size
  BY <1>8, <1>9 DEF Least
<1>11. Layout(size, item) = [y |-> y, first |-> item - above, end |-> end]
  <2>1. BelowFrom(66) = 3 /\ BelowFrom(y) = below
    BY <1>7 DEF BelowFrom, ItemHeight, ScreenOfEV3
  <2>2. HeaderHeight + (Height - HeaderHeight - ItemHeight) \div 2 = 66
    BY DEF HeaderHeight, ItemHeight, ScreenOfEV3
  <2>3. ideal = IF BelowFrom(66) > size - 1 - item THEN Height - (size - 1 - item + 1) * ItemHeight ELSE 66
    BY <1>1, <2>1 DEF ItemHeight, ScreenOfEV3
  <2>4. QED
    BY <1>3, <1>5, <1>9, <2>1, <2>2, <2>3 DEF Layout, HeaderHeight, ItemHeight
<1>12. item - above \in 0 .. item
  BY <1>4
<1>13. QED
  BY <1>6, <1>10, <1>11, <1>12

\* What display.cpp is asked to do.
Operations ==
  [op : {"clear", "fill"}, left : Int, top : Int, right : Int, bottom : Int, color : BOOLEAN] \cup
  [op : {"hline", "vline"}, left : Int, top : Int, right : Int, bottom : Int, color : BOOLEAN, length : Int] \cup
  [op : {"text"}, left : Int, top : Int, right : Int, bottom : Int, color : BOOLEAN, clipped : BOOLEAN] \cup
  [op : {"nothing"}]

LEMMA Clamped ==
  ASSUME NEW v \in Int, NEW w \in Int, NEW high \in Nat
  PROVE  /\ Clamp(v, 0, high) \in 0 .. high
         /\ v <= w => Clamp(v, 0, high) <= Clamp(w, 0, high)
  BY DEF Clamp

LEMMA Filled ==
  ASSUME ScreenOfEV3, NEW a \in Int, NEW b \in Int, NEW c \in Int, NEW d \in Int, NEW color \in BOOLEAN
  PROVE  LET f == Fill(Rect(Point(a, b), Point(c, d)), color) IN
         /\ f \in Operations
         /\ f.op = "fill" /\ f.color = color
         /\ f.left = Clamp(a, 0, 178) /\ f.top = Clamp(b, 0, 128)
         /\ f.right = Clamp(c + 1, 0, 178) /\ f.bottom = Clamp(d + 1, 0, 128)
         /\ a <= c + 1 /\ b <= d + 1 => LoopsStop(f)
<1>1. PICK left \in Int : left = Clamp(a, 0, 178)
  BY Clamped
<1>2. PICK top \in Int : top = Clamp(b, 0, 128)
  BY Clamped
<1>3. PICK right \in Int : right = Clamp(c + 1, 0, 178)
  BY Clamped
<1>4. PICK bottom \in Int : bottom = Clamp(d + 1, 0, 128)
  BY Clamped
<1>5. a <= c + 1 /\ b <= d + 1 => left <= right /\ top <= bottom
  BY <1>1, <1>2, <1>3, <1>4, Clamped
<1>6. Fill(Rect(Point(a, b), Point(c, d)), color) =
        [op |-> "fill", left |-> left, top |-> top, right |-> right, bottom |-> bottom, color |-> color]
  BY <1>1, <1>2, <1>3, <1>4 DEF Fill, Rect, Point, ScreenOfEV3
<1>7. QED
  BY <1>1, <1>2, <1>3, <1>4, <1>5, <1>6 DEF Operations, LoopsStop

LEMMA Printed ==
  ASSUME ScreenOfEV3, NEW x \in Int, NEW y \in Int, NEW a \in Int, NEW b \in Int, NEW c \in Int, NEW d \in Int,
         NEW width \in Int, NEW rise \in Int, NEW drop \in Int, NEW color \in BOOLEAN
  PROVE  LET t == PrintText(Point(x, y), Rect(Point(a, b), Point(c, d)), width, rise, drop, color) IN
         t \in Operations /\ t.op = "text" /\ LoopsStop(t)
<1>1. PICK left \in Int : left = Greatest(x, Greatest(a, 0))
  BY DEF Greatest
<1>2. PICK top \in Int : top = Greatest(y - rise, Greatest(b, 0))
  BY DEF Greatest
<1>3. PICK right \in Int : right = 1 + Least(x + width - 1, Least(178 - 1, c))
  BY DEF Least
<1>4. PICK bottom \in Int : bottom = 1 + Least(y + drop, Least(128 - 1, d))
  BY DEF Least
<1>5. PICK clipped \in BOOLEAN : clipped = (y + drop > Least(128 - 1, d) \/ y - rise < Greatest(b, 0))
  OBVIOUS
<1>6. PrintText(Point(x, y), Rect(Point(a, b), Point(c, d)), width, rise, drop, color) =
        [op |-> "text", left |-> left, top |-> top, right |-> right, bottom |-> bottom, color |-> color,
         clipped |-> clipped]
  BY <1>1, <1>2, <1>3, <1>4, <1>5 DEF PrintText, Rect, Point, ScreenOfEV3
<1>7. QED
  BY <1>6 DEF Operations, LoopsStop

LEMMA Barred ==
  ASSUME ScreenOfEV3, NEW x \in Int, NEW y \in Int, NEW length \in Int, NEW color \in BOOLEAN
  PROVE  LET l == VLine(Point(x, y), length, color) IN
         /\ l \in Operations
         /\ l.op = "vline" /\ l.left = x
         /\ length >= 0 \/ y + length >= 128 => LoopsStop(l)
<1>1. PICK top \in Int : top = Clamp(y, 0, 128)
  BY Clamped
<1>2. PICK bottom \in Int : bottom = Clamp(y + length, 0, 128)
  BY Clamped
<1>3. length >= 0 \/ y + length >= 128 => top <= bottom
  BY <1>1, <1>2 DEF Clamp
<1>4. VLine(Point(x, y), length, color) =
        [op |-> "vline", left |-> x, top |-> top, right |-> x + 1, bottom |-> bottom, color |-> color,
         length |-> length]
  BY <1>1, <1>2 DEF VLine, Point, ScreenOfEV3
<1>5. QED
  BY <1>1, <1>2, <1>3, <1>4 DEF Operations, LoopsStop

(***************************************************************************)
(* The parts of a menu's picture.                                          *)
(***************************************************************************)
LEMMA NothingDrawn == Nothing \in Operations /\ Nothing.op = "nothing" /\ LoopsStop(Nothing)
  BY DEF Nothing, Operations, LoopsStop

LEMMA RowDrawn ==
  ASSUME ScreenOfEV3, NEW y \in Int, NEW selected \in BOOLEAN, NEW bar, bar = ItemBar(y, selected)
  PROVE  /\ bar \in Operations /\ LoopsStop(bar)
         /\ bar.op = "fill" /\ bar.color = selected /\ bar.left = 0
         /\ bar.top = Clamp(y + 1, 0, 128) /\ bar.bottom = Clamp(y + 21, 0, 128)
<1>1. Width - ScrollBarWidth - 2 = 173 /\ y + ItemHeight = y + 20
  BY DEF ScrollBarWidth, ItemHeight, ScreenOfEV3
<1>2. bar = Fill(Rect(Point(0, y + 1), Point(173, y + 20)), selected)
  BY <1>1 DEF ItemBar
<1>3. /\ bar \in Operations /\ bar.op = "fill" /\ bar.color = selected
      /\ bar.left = Clamp(0, 0, 178) /\ bar.top = Clamp(y + 1, 0, 128)
      /\ bar.bottom = Clamp(y + 20 + 1, 0, 128) /\ LoopsStop(bar)
  BY <1>2, Filled
<1>4. Clamp(0, 0, 178) = 0 /\ y + 20 + 1 = y + 21
  BY DEF Clamp
<1>5. QED
  BY <1>3, <1>4

LEMMA NameDrawn ==
  ASSUME ScreenOfEV3, NEW y \in Int, NEW selected \in BOOLEAN, NEW caption, caption = ItemName(y, selected)
  PROVE  caption \in Operations /\ LoopsStop(caption) /\ caption.op = "text"
<1>1. PICK color \in BOOLEAN : color = ~ selected
  OBVIOUS
<1>2. PICK t : t = PrintText(Point(4, y + 16), Rect(Point(0, y), Point(157, y + 20)), 178, 14, 4, color)
  OBVIOUS
<1>3. t \in Operations /\ t.op = "text" /\ LoopsStop(t)
  BY <1>2, Printed
<1>4. /\ Padding = 4 /\ y + ItemHeight = y + 20 /\ y + ItemHeight - Padding = y + 16
      /\ Width - 1 - SpaceForMore = 157 /\ Width = 178
  BY DEF Padding, ItemHeight, SpaceForMore, ScreenOfEV3
<1>5. caption = t
  BY <1>1, <1>2, <1>4 DEF ItemName
<1>6. QED
  BY <1>3, <1>5

LEMMA ArrowDrawn ==
  ASSUME ScreenOfEV3, NEW y \in Int, NEW color \in BOOLEAN
  PROVE  LET t == PrintText(Point(Width - SpaceForMore + Padding, y + ItemHeight - Padding), Screen, 5, 8, 0, color)
         IN  t \in Operations /\ t.op = "text" /\ LoopsStop(t)
  BY Printed DEF SpaceForMore, Padding, ItemHeight, Screen, ScreenOfEV3

\* A menu with one item selected, and how it is laid out; rows counts the operations of its rows.
LaidOut(size, item, y, first, end, rows) ==
  /\ size \in Nat /\ item \in 0 .. size - 1
  /\ y \in 25 .. 108 /\ y = Layout(size, item).y
  /\ first \in 0 .. item /\ first = Layout(size, item).first
  /\ end \in item + 1 .. size /\ end = Layout(size, item).end
  /\ rows \in Nat /\ rows = 3 * (end - first)

\* The item that an operation belongs to.
ItemOf(first, n) == first + (n - 1) \div 3

\* Each row is three operations, of which only the first fills pixels.
LEMMA ItemsDrawn ==
  ASSUME ScreenOfEV3, NEW size, NEW item, NEW y, NEW first, NEW end, NEW rows,
         LaidOut(size, item, y, first, end, rows),
         NEW name, NEW items, items = Items(name, size, item), NEW n \in 1 .. rows
  PROVE  /\ items[n] \in Operations /\ LoopsStop(items[n])
         /\ items[n].op \in {"fill", "text", "nothing"}
         /\ items[n].op = "fill" =>
              n % 3 = 1 /\ items[n].top = Clamp(y + (ItemOf(first, n) - item) * 20 + 1, 0, 128)
         /\ n % 3 = 1 /\ ItemOf(first, n) = item =>
              /\ items[n].op = "fill" /\ items[n].color /\ items[n].left = 0
              /\ items[n].top = y + 1 /\ items[n].bottom = Clamp(y + 21, 0, 128)
<1>1. /\ size \in Nat /\ item \in Int /\ y \in 25 .. 108 /\ y = Layout(size, item).y
      /\ first \in Int /\ first = Layout(size, item).first
      /\ end \in Int /\ end = Layout(size, item).end /\ rows = 3 * (end - first)
  BY DEF LaidOut
<1>a. PICK i \in Int : i = first + (n - 1) \div 3
  BY <1>1
<1>b. PICK d : d = items[n]
  OBVIOUS
<1>2. PICK r \in Int : r = y + (i - item) * 20
  BY <1>1
<1>3. PICK bar : bar = ItemBar(r, i = item)
  OBVIOUS
<1>4. PICK caption : caption = ItemName(r, i = item)
  OBVIOUS
<1>5. PICK arrow : arrow = PrintText(Point(Width - SpaceForMore + Padding, r + ItemHeight - Padding), Screen, 5, 8, 0, i # item)
  OBVIOUS
<1>6. PICK seen \in BOOLEAN : seen <=> r + ItemHeight > 0 /\ r <= Height
  OBVIOUS
<1>7. PICK more \in BOOLEAN : more <=> name = "main_menu" /\ i = 3
  OBVIOUS
<1>9. d = CASE seen /\ n % 3 = 1 -> bar
            [] seen /\ n % 3 = 2 -> caption
            [] seen /\ n % 3 = 0 /\ more -> arrow
            [] OTHER -> Nothing
  <2>1. ItemY(Layout(size, item), item, i) = r
    BY <1>1, <1>2 DEF ItemY, ItemHeight
  <2>2. QED
    BY <1>1, <1>a, <1>b, <1>3, <1>4, <1>5, <1>6, <1>7, <2>1 DEF Items
<1>s. PICK selected \in BOOLEAN : selected = (i = item)
  OBVIOUS
<1>t. bar = ItemBar(r, selected) /\ caption = ItemName(r, selected)
  BY <1>3, <1>4, <1>s, Zenon
<1>10. /\ bar \in Operations /\ LoopsStop(bar) /\ bar.op = "fill" /\ bar.color = selected /\ bar.left = 0
       /\ bar.top = Clamp(r + 1, 0, 128) /\ bar.bottom = Clamp(r + 21, 0, 128)
  BY <1>t, RowDrawn
<1>c. caption \in Operations /\ LoopsStop(caption) /\ caption.op = "text"
  BY <1>t, NameDrawn
<1>11. arrow \in Operations /\ LoopsStop(arrow) /\ arrow.op = "text"
  BY <1>5, ArrowDrawn
<1>12. /\ d \in Operations /\ LoopsStop(d) /\ d.op \in {"fill", "text", "nothing"}
       /\ d.op = "fill" => n % 3 = 1 /\ d = bar
  BY <1>9, <1>10, <1>c, <1>11, NothingDrawn
<1>13. ASSUME n % 3 = 1, i = item
       PROVE  /\ d.op = "fill" /\ d.color /\ d.left = 0
              /\ d.top = y + 1 /\ d.bottom = Clamp(y + 21, 0, 128)
  <2>1. r = y
    BY <1>1, <1>2, <1>13
  <2>2. y + ItemHeight > 0 /\ y <= Height
    BY <1>1 DEF ItemHeight, ScreenOfEV3
  <2>3. d = bar
    BY <1>6, <1>9, <1>13, <2>1, <2>2
  <2>4. selected
    BY <1>s, <1>13
  <2>5. Clamp(y + 1, 0, 128) = y + 1
    BY <1>1 DEF Clamp
  <2>6. QED
    BY <1>10, <2>1, <2>3, <2>4, <2>5
<1>14. QED
  BY <1>a, <1>b, <1>2, <1>10, <1>12, <1>13 DEF ItemOf

LEMMA ItemsOperations ==
  ASSUME ScreenOfEV3, NEW size, NEW item, NEW y, NEW first, NEW end, NEW rows,
         LaidOut(size, item, y, first, end, rows),
         NEW name, NEW items, items = Items(name, size, item)
  PROVE  /\ items = [n \in 1 .. rows |-> items[n]]
         /\ \A n \in 1 .. rows : items[n] \in Operations /\ LoopsStop(items[n])
<1>1. \A n \in 1 .. rows : items[n] \in Operations /\ LoopsStop(items[n])
  BY ItemsDrawn
<1>2. items = [n \in 1 .. rows |-> items[n]]
  BY DEF Items, LaidOut
<1>3. QED
  BY <1>1, <1>2

\* What covers nothing of a row: a text, the header, or what is right of the names.
Aside(d) == d.op \in {"text", "nothing"} \/ d.left > 4 \/ d.bottom <= 27

LEMMA HeaderDrawn ==
  ASSUME ScreenOfEV3
  PROVE  /\ Clear(FALSE) \in Operations /\ LoopsStop(Clear(FALSE))
         /\ HeaderBar \in Operations /\ LoopsStop(HeaderBar) /\ Aside(HeaderBar)
         /\ HeaderText \in Operations /\ LoopsStop(HeaderText) /\ Aside(HeaderText)
         /\ HeaderLine \in Operations /\ LoopsStop(HeaderLine) /\ Aside(HeaderLine)
         /\ Overlay \in Operations /\ LoopsStop(Overlay) /\ Aside(Overlay)
<1>a. PICK black, white : black = TRUE /\ white = FALSE
  OBVIOUS
<1>b. black \in BOOLEAN /\ white \in BOOLEAN
  BY <1>a
<1>1. Clear(FALSE) \in Operations /\ LoopsStop(Clear(FALSE))
  <2>1. Clear(FALSE) = [op |-> "clear", left |-> 0, top |-> 0, right |-> 178, bottom |-> 128, color |-> white]
    BY <1>a DEF Clear, ScreenOfEV3
  <2>2. PICK c : c = [op |-> "clear", left |-> 0, top |-> 0, right |-> 178, bottom |-> 128, color |-> white]
    OBVIOUS
  <2>3. c \in Operations /\ LoopsStop(c)
    BY <1>b, <2>2 DEF Operations, LoopsStop
  <2>4. Clear(FALSE) = c
    BY <2>1, <2>2, Zenon
  <2>5. QED
    BY <2>3, <2>4, Zenon
<1>2. HeaderBar \in Operations /\ LoopsStop(HeaderBar) /\ Aside(HeaderBar)
  <2>1. PICK bar : bar = Fill(Rect(Point(0, 0), Point(177, 25)), white)
    OBVIOUS
  <2>2. bar \in Operations /\ bar.bottom = Clamp(25 + 1, 0, 128) /\ LoopsStop(bar)
    BY <1>b, <2>1, Filled
  <2>3. HeaderBar = bar
    <3>1. Width - 1 = 177 /\ HeaderHeight = 25
      BY DEF HeaderHeight, ScreenOfEV3
    <3>2. QED
      BY <1>a, <2>1, <3>1, Zenon DEF HeaderBar
  <2>4. QED
    BY <2>2, <2>3 DEF Clamp, Aside
<1>3. HeaderText \in Operations /\ LoopsStop(HeaderText) /\ Aside(HeaderText)
  <2>1. PICK t : t = PrintText(Point(4, 21), Rect(Point(0, 0), Point(177, 25)), 178, 14, 4, black)
    OBVIOUS
  <2>2. t \in Operations /\ t.op = "text" /\ LoopsStop(t)
    BY <1>b, <2>1, Printed
  <2>3. HeaderText = t
    BY <1>a, <2>1 DEF HeaderText, HeaderHeight, Padding, ScreenOfEV3
  <2>4. QED
    BY <2>2, <2>3 DEF Aside
<1>4. HeaderLine \in Operations /\ LoopsStop(HeaderLine) /\ Aside(HeaderLine)
  <2>1. HeaderLine = [op |-> "hline", left |-> 0, top |-> 26, right |-> 178, bottom |-> 27, color |-> black,
                      length |-> 178]
    BY <1>a DEF HeaderLine, HLine, Point, Clamp, HeaderHeight, ScreenOfEV3
  <2>2. QED
    BY <1>b, <2>1 DEF Operations, LoopsStop, Aside
<1>5. Overlay \in Operations /\ LoopsStop(Overlay) /\ Aside(Overlay)
  <2>1. PICK t : t = PrintText(Point(89, 21), Rect(Point(0, 0), Point(178, 128)), 178, 14, 4, black)
    OBVIOUS
  <2>2. t \in Operations /\ t.op = "text" /\ LoopsStop(t)
    BY <1>b, <2>1, Printed
  <2>3. Overlay = t
    BY <1>a, <2>1 DEF Overlay, HeaderHeight, Padding, Screen, ScreenOfEV3
  <2>4. QED
    BY <2>2, <2>3 DEF Aside
<1>6. QED
  BY <1>1, <1>2, <1>3, <1>4, <1>5

LEMMA QuotientNat ==
  ASSUME NEW a \in Nat, NEW b \in Nat \ {0}
  PROVE  a \div b \in Nat
OBVIOUS

\* The scroll bar, if the menu has more rows than there is room for.
LEMMA ScrollBarDrawn ==
  ASSUME ScreenOfEV3, NEW size \in Nat, NEW item \in 0 .. size - 1
  PROVE  /\ ScrollBar(size, item) \in Seq(Operations)
         /\ \A n \in 1 .. Len(ScrollBar(size, item)) :
              LoopsStop(ScrollBar(size, item)[n]) /\ Aside(ScrollBar(size, item)[n])
<1>1. CASE size * ItemHeight <= Height - HeaderHeight
  <2>1. ScrollBar(size, item) = <<>>
    BY <1>1 DEF ScrollBar
  <2>2. QED
    BY <2>1
<1>2. CASE ~ (size * ItemHeight <= Height - HeaderHeight)
  <2>1. PICK y \in 25 .. 108 : y = Layout(size, item).y /\ y <= 20 * item + 25
    BY LayoutBounds
  <2>2. PICK all \in Nat \ {0} : all = size * 20
    BY <1>2 DEF ItemHeight, HeaderHeight, ScreenOfEV3
  <2>3. PICK rows \in Nat : rows = (item * 20 - y + 25) * 103
    BY <2>1
  <2>4. PICK start \in Int : start = 25 + rows \div all /\ start >= 25
    BY <2>2, <2>3, QuotientNat
  <2>5. PICK height \in Nat : height = (103 * 103) \div all
    BY <2>2, QuotientNat
  <2>6. Thumb(size, item) = [start |-> start, height |-> height]
    BY <2>1, <2>2, <2>3, <2>4, <2>5 DEF Thumb, ItemHeight, HeaderHeight, ScreenOfEV3
  <2>a. PICK black : black = TRUE
    OBVIOUS
  <2>b. black \in BOOLEAN
    BY <2>a
  <2>7. PICK above : above = VLine(Point(175, 25), start - 1, black)
    OBVIOUS
  <2>8. PICK below : below = VLine(Point(175, start + height + 2), 128 - (height + 1 + start), black)
    OBVIOUS
  <2>9. PICK thumb : thumb = Fill(Rect(Point(175, start), Point(177, start + height)), black)
    OBVIOUS
  <2>10. ScrollBar(size, item) = <<above, below, thumb>>
    <3>1. /\ Width - 3 = 175 /\ Width - ScrollBarWidth = 175 /\ Width - 1 = 177 /\ HeaderHeight = 25
          /\ Height - (height + 1 + start) = 128 - (height + 1 + start)
      BY DEF HeaderHeight, ScrollBarWidth, ScreenOfEV3
    <3>2. Thumb(size, item).start = start /\ Thumb(size, item).height = height
      BY <2>6
    <3>3. PICK bar : bar = Thumb(size, item)
      OBVIOUS
    <3>4. ScrollBar(size, item) =
            <<VLine(Point(Width - 3, HeaderHeight), bar.start - 1, black),
              VLine(Point(Width - 3, bar.start + bar.height + 2), Height - (bar.height + 1 + bar.start), black),
              Fill(Rect(Point(Width - ScrollBarWidth, bar.start), Point(Width - 1, bar.start + bar.height)), black)>>
      BY <1>2, <2>a, <3>3, Zenon DEF ScrollBar
    <3>5. bar.start = start /\ bar.height = height
      BY <3>2, <3>3, Zenon
    <3>6. VLine(Point(Width - 3, HeaderHeight), bar.start - 1, black) = above
      BY <2>7, <3>1, <3>5, Zenon
    <3>7. VLine(Point(Width - 3, bar.start + bar.height + 2), Height - (bar.height + 1 + bar.start), black) = below
      BY <2>8, <3>1, <3>5, Zenon
    <3>8. Fill(Rect(Point(Width - ScrollBarWidth, bar.start), Point(Width - 1, bar.start + bar.height)), black) = thumb
      BY <2>9, <3>1, <3>5, Zenon
    <3>9. QED
      BY <3>4, <3>6, <3>7, <3>8, Zenon
  <2>11. above \in Operations /\ LoopsStop(above) /\ Aside(above)
    BY <2>b, <2>4, <2>7, Barred DEF Aside
  <2>12. below \in Operations /\ LoopsStop(below) /\ Aside(below)
    BY <2>b, <2>4, <2>8, Barred DEF Aside
  <2>13. thumb \in Operations /\ LoopsStop(thumb) /\ Aside(thumb)
    BY <2>b, <2>4, <2>9, Filled DEF Aside, Clamp
  <2>14. QED
    BY <2>10, <2>11, <2>12, <2>13
<1>3. QED
  BY <1>1, <1>2

(***************************************************************************)
(* The whole picture: what is drawn after the first operations that are    *)
(* counted leaves them as they are.                                        *)
(***************************************************************************)
LEMMA Joined ==
  ASSUME NEW s \in Seq(Operations), NEW t \in Seq(Operations), NEW c \in 0 .. Len(s),
         \A n \in 1 .. Len(s) : LoopsStop(s[n]),
         \A n \in c + 1 .. Len(s) : Aside(s[n]),
         \A n \in 1 .. Len(t) : LoopsStop(t[n]) /\ Aside(t[n])
  PROVE  /\ s \o t \in Seq(Operations) /\ c \in 0 .. Len(s \o t)
         /\ \A n \in 1 .. Len(s \o t) : LoopsStop((s \o t)[n])
         /\ \A n \in c + 1 .. Len(s \o t) : Aside((s \o t)[n])
         /\ \A n \in 1 .. c : (s \o t)[n] = s[n]
<1>1. PICK u \in Seq(Operations) : u = s \o t
  BY ConcatProperties
<1>2. Len(s) \in Nat /\ Len(t) \in Nat /\ Len(u) = Len(s) + Len(t)
  BY <1>1, ConcatProperties, LenProperties
<1>3. \A n \in 1 .. Len(s) + Len(t) : u[n] = IF n <= Len(s) THEN s[n] ELSE t[n - Len(s)]
  BY <1>1, ConcatProperties
<1> HIDE DEF Operations
<1>4. ASSUME NEW n \in 1 .. Len(u)
      PROVE  LoopsStop(u[n]) /\ (n > c => Aside(u[n])) /\ (n <= c => u[n] = s[n])
  <2>1. CASE n <= Len(s)
    BY <1>2, <1>3, <2>1
  <2>2. CASE n > Len(s)
    <3>1. n - Len(s) \in 1 .. Len(t)
      BY <1>2, <2>2
    <3>2. QED
      BY <1>2, <1>3, <2>2, <3>1
  <2>3. QED
    BY <1>2, <2>1, <2>2
<1>5. c \in 0 .. Len(u)
  BY <1>2
<1>6. QED
  BY <1>1, <1>4, <1>5, <1>2

LEMMA OneOf ==
  ASSUME NEW S, NEW d \in S
  PROVE  <<d>> \in Seq(S) /\ Len(<<d>>) = 1 /\ <<d>>[1] = d /\ \A n \in 1 .. Len(<<d>>) : <<d>>[n] = d
OBVIOUS

LEMMA ThreeOf ==
  ASSUME NEW S, NEW d \in S, NEW e \in S, NEW f \in S
  PROVE  <<d, e, f>> \in Seq(S) /\ \A n \in 1 .. Len(<<d, e, f>>) : <<d, e, f>>[n] \in {d, e, f}
OBVIOUS

LEMMA Prefixed ==
  ASSUME NEW S, NEW one \in Seq(S), Len(one) = 1, NEW s \in Seq(S), NEW k \in Nat, Len(s) = k,
         NEW a, a = one \o s
  PROVE  /\ a \in Seq(S) /\ Len(a) = k + 1
         /\ \A n \in 1 .. k : a[n + 1] = s[n]
         /\ \A n \in 1 .. k + 1 : a[n] = one[1] \/ \E m \in 1 .. k : a[n] = s[m]
<1>1. /\ a \in Seq(S) /\ Len(a) = Len(one) + Len(s)
      /\ \A n \in 1 .. Len(one) + Len(s) : a[n] = IF n <= Len(one) THEN one[n] ELSE s[n - Len(one)]
  BY ConcatProperties
<1>2. Len(one) + Len(s) = k + 1
  OBVIOUS
<1>3. \A n \in 1 .. k + 1 : a[n] = IF n <= 1 THEN one[n] ELSE s[n - 1]
  BY <1>1, <1>2
<1>4. ASSUME NEW n \in 1 .. k
      PROVE  a[n + 1] = s[n]
  <2>1. PICK i \in 1 .. k + 1 : i = n + 1 /\ ~ (i <= 1) /\ i - 1 = n
    OBVIOUS
  <2>2. a[i] = s[i - 1]
    BY <1>3, <2>1
  <2>3. QED
    BY <2>1, <2>2, Zenon
<1>5. ASSUME NEW n \in 1 .. k + 1
      PROVE  a[n] = one[1] \/ \E m \in 1 .. k : a[n] = s[m]
  <2>1. CASE n = 1
    <3>1. n \in 1 .. k + 1 /\ n <= 1
      BY <2>1
    <3>2. a[n] = one[n]
      BY <1>3, <3>1, Zenon
    <3>3. QED
      BY <2>1, <3>2, Zenon
  <2>2. CASE n # 1
    <3>1. n - 1 \in 1 .. k /\ ~ (n <= 1)
      BY <2>2
    <3>2. QED
      BY <1>3, <3>1
  <2>3. QED
    BY <2>1, <2>2
<1>6. QED
  BY <1>1, <1>2, <1>4, <1>5

LEMMA EmptyAbove ==
  ASSUME NEW n \in Nat
  PROVE  n \in 0 .. n /\ n + 1 .. n = {}
OBVIOUS

LEMMA HeaderSequence ==
  ASSUME ScreenOfEV3
  PROVE  /\ <<HeaderBar, HeaderText, HeaderLine>> \in Seq(Operations)
         /\ \A n \in 1 .. Len(<<HeaderBar, HeaderText, HeaderLine>>) :
              /\ LoopsStop(<<HeaderBar, HeaderText, HeaderLine>>[n])
              /\ Aside(<<HeaderBar, HeaderText, HeaderLine>>[n])
         /\ <<Overlay>> \in Seq(Operations)
         /\ \A n \in 1 .. Len(<<Overlay>>) : LoopsStop(<<Overlay>>[n]) /\ Aside(<<Overlay>>[n])
<1>1. PICK d \in Operations : d = HeaderBar /\ LoopsStop(d) /\ Aside(d)
  BY HeaderDrawn
<1>2. PICK e \in Operations : e = HeaderText /\ LoopsStop(e) /\ Aside(e)
  BY HeaderDrawn
<1>3. PICK f \in Operations : f = HeaderLine /\ LoopsStop(f) /\ Aside(f)
  BY HeaderDrawn
<1>4. PICK o \in Operations : o = Overlay /\ LoopsStop(o) /\ Aside(o)
  BY HeaderDrawn
<1>5. <<d, e, f>> \in Seq(Operations) /\ \A n \in 1 .. Len(<<d, e, f>>) : <<d, e, f>>[n] \in {d, e, f}
  BY ThreeOf
<1>6. <<o>> \in Seq(Operations) /\ \A n \in 1 .. Len(<<o>>) : <<o>>[n] = o
  BY OneOf
<1>7. /\ \A n \in 1 .. Len(<<d, e, f>>) : LoopsStop(<<d, e, f>>[n]) /\ Aside(<<d, e, f>>[n])
      /\ \A n \in 1 .. Len(<<o>>) : LoopsStop(<<o>>[n]) /\ Aside(<<o>>[n])
  BY <1>1, <1>2, <1>3, <1>4, <1>5, <1>6, Zenon
<1>8. QED
  BY <1>1, <1>2, <1>3, <1>4, <1>5, <1>6, <1>7, Zenon

\* The picture of a menu of any size; n counts the operations of the header's clearing and the rows.
LEMMA MenuDrawn ==
  ASSUME ScreenOfEV3, NEW size, NEW item, NEW y, NEW first, NEW end, NEW rows,
         LaidOut(size, item, y, first, end, rows),
         NEW name
  PROVE  \E picture \in Seq(Operations) :
           /\ picture = MenuPicture(name, size, item) \o <<Overlay>> /\ rows + 1 \in 0 .. Len(picture)
           /\ \A n \in 1 .. Len(picture) : LoopsStop(picture[n])
           /\ \A n \in rows + 2 .. Len(picture) : Aside(picture[n])
           /\ \A n \in 1 .. rows : picture[n + 1] = Items(name, size, item)[n]
<1>1. PICK items : items = Items(name, size, item)
  OBVIOUS
<1>a. size \in Nat /\ item \in 0 .. size - 1 /\ rows \in Nat
  BY DEF LaidOut
<1> HIDE DEF Operations
<1>2. \A n \in 1 .. rows : items[n] \in Operations /\ LoopsStop(items[n])
  BY <1>1, ItemsOperations
<1>3. items = [n \in 1 .. rows |-> items[n]]
  BY <1>1, ItemsOperations
<1>4. items \in Seq(Operations) /\ Len(items) = rows
  <2>1. [n \in 1 .. rows |-> items[n]] \in Seq(Operations) /\ Len([n \in 1 .. rows |-> items[n]]) = rows
    BY <1>2, <1>a
  <2>2. QED
    BY <1>3, <2>1
<1>5. PICK clear \in Operations : clear = Clear(FALSE) /\ LoopsStop(clear)
  BY HeaderDrawn
<1>b. PICK one \in Seq(Operations) : one = <<clear>> /\ Len(one) = 1 /\ one[1] = clear
  BY <1>5, OneOf
<1>6. PICK a : a = one \o items
  OBVIOUS
<1>7. /\ a \in Seq(Operations) /\ Len(a) = rows + 1
      /\ \A n \in 1 .. rows : a[n + 1] = items[n]
      /\ \A n \in 1 .. rows + 1 : a[n] = one[1] \/ \E k \in 1 .. rows : a[n] = items[k]
  BY <1>4, <1>6, <1>a, <1>b, Prefixed
<1>8. \A n \in 1 .. Len(a) : LoopsStop(a[n])
  BY <1>2, <1>5, <1>b, <1>7, Zenon
<1>9. PICK header \in Seq(Operations) :
        /\ header = <<HeaderBar, HeaderText, HeaderLine>>
        /\ \A n \in 1 .. Len(header) : LoopsStop(header[n]) /\ Aside(header[n])
  BY HeaderSequence
<1>10. PICK bar \in Seq(Operations) :
         /\ bar = ScrollBar(size, item)
         /\ \A n \in 1 .. Len(bar) : LoopsStop(bar[n]) /\ Aside(bar[n])
  BY <1>a, ScrollBarDrawn
<1>11. PICK over \in Seq(Operations) :
         /\ over = <<Overlay>>
         /\ \A n \in 1 .. Len(over) : LoopsStop(over[n]) /\ Aside(over[n])
  BY HeaderSequence
<1>12. PICK c \in Nat : c = rows + 1
  BY <1>a
<1> DEFINE Drawn(s, before) ==
      /\ s \in Seq(Operations) /\ c \in 0 .. Len(s)
      /\ \A n \in 1 .. Len(s) : LoopsStop(s[n])
      /\ \A n \in c + 1 .. Len(s) : Aside(s[n])
      /\ \A n \in 1 .. c : s[n] = before[n]
<1>13. Drawn(a, a)
  <2>1. Len(a) = c
    BY <1>7, <1>12
  <2>2. c \in 0 .. c /\ c + 1 .. c = {}
    BY EmptyAbove
  <2>3. QED
    BY <1>7, <1>8, <2>1, <2>2, Zenon
<1>14. ASSUME NEW s, NEW t \in Seq(Operations), Drawn(s, a),
              \A n \in 1 .. Len(t) : LoopsStop(t[n]) /\ Aside(t[n])
       PROVE  Drawn(s \o t, a)
  <2>1. /\ s \o t \in Seq(Operations) /\ c \in 0 .. Len(s \o t)
        /\ \A n \in 1 .. Len(s \o t) : LoopsStop((s \o t)[n])
        /\ \A n \in c + 1 .. Len(s \o t) : Aside((s \o t)[n])
        /\ \A n \in 1 .. c : (s \o t)[n] = s[n]
    BY <1>14, Joined, Zenon
  <2>2. QED
    BY <1>14, <2>1, Zenon
<1> HIDE DEF Drawn
<1>15. PICK b : b = a \o header /\ Drawn(b, a)
  BY <1>9, <1>13, <1>14
<1>16. PICK d : d = b \o bar /\ Drawn(d, a)
  BY <1>10, <1>14, <1>15
<1>17. PICK e : e = d \o over /\ Drawn(e, a)
  BY <1>11, <1>14, <1>16
<1>18. e = MenuPicture(name, size, item) \o <<Overlay>>
  BY <1>1, <1>5, <1>6, <1>b, <1>9, <1>10, <1>11, <1>15, <1>16, <1>17, Zenon DEF MenuPicture
<1>19. /\ e \in Seq(Operations) /\ c \in 0 .. Len(e)
       /\ \A n \in 1 .. Len(e) : LoopsStop(e[n])
       /\ \A n \in c + 1 .. Len(e) : Aside(e[n])
       /\ \A n \in 1 .. c : e[n] = a[n]
  BY <1>17 DEF Drawn
<1>20. \A n \in 1 .. rows : e[n + 1] = items[n]
  <2>1. \A n \in 1 .. rows : n + 1 \in 1 .. c
    BY <1>a, <1>12
  <2>2. QED
    BY <1>7, <1>19, <2>1
<1>21. rows + 2 = c + 1
  BY <1>a, <1>12
<1>22. QED
  BY <1>1, <1>12, <1>18, <1>19, <1>20, <1>21

(***************************************************************************)
(* The lines of the selected row that can be seen.                         *)
(***************************************************************************)
LEMMA NotCovered ==
  ASSUME NEW d \in Operations, d.op \notin {"text", "nothing"}, NEW l \in Int, NEW bottom \in Int, l >= 27, l < bottom,
         Aside(d) \/ d.top >= bottom
  PROVE  ~ Covers(d, Point(4, l))
<1>1. d.left \in Int /\ d.top \in Int /\ d.bottom \in Int
  BY DEF Operations
<1>2. d.left > 4 \/ d.bottom <= 27 \/ d.top >= bottom
  BY DEF Aside
<1>3. Point(4, l).x = 4 /\ Point(4, l).y = l
  BY DEF Point
<1>4. QED
  BY <1>1, <1>2, <1>3 DEF Covers

LEMMA LinesOfRow ==
  ASSUME NEW y \in 25 .. 108
  PROVE  \E seen \in SUBSET Int :
           /\ IsFiniteSet(seen) /\ Cardinality(seen) >= 19
           /\ \A l \in seen : l >= 27 /\ l < 128 /\ l >= y + 1 /\ l < Clamp(y + 21, 0, 128)
<1>1. PICK from \in Int : from = Greatest(y + 1, 27)
  BY DEF Greatest
<1>2. PICK to \in Int : to = Least(y + 20, 127)
  BY DEF Least
<1>3. PICK bottom \in Int : bottom = Clamp(y + 21, 0, 128)
  BY DEF Clamp
<1>4. to - from + 1 >= 19 /\ ~ (from > to) /\ from >= 27 /\ to < 128
  BY <1>1, <1>2 DEF Greatest, Least
<1>5. IsFiniteSet(from .. to) /\ Cardinality(from .. to) = to - from + 1
  BY <1>4, FS_Interval
<1>6. from >= y + 1 /\ to < bottom
  BY <1>1, <1>2, <1>3 DEF Greatest, Least, Clamp
<1>7. PICK seen : seen = from .. to
  OBVIOUS
<1>8. /\ seen \in SUBSET Int
      /\ \A l \in seen : l >= 27 /\ l < 128 /\ l >= y + 1 /\ l < bottom
  BY <1>4, <1>6, <1>7
<1>9. QED
  BY <1>3, <1>4, <1>5, <1>7, <1>8

LEMMA RowUncovered ==
  ASSUME ScreenOfEV3, NEW picture \in Seq(Operations), NEW n \in 1 .. Len(picture), NEW y \in 25 .. 108,
         picture[n].op = "fill", picture[n].color, picture[n].left = 0,
         picture[n].top = y + 1, picture[n].bottom = Clamp(y + 21, 0, 128),
         \A m \in n + 1 .. Len(picture) : Aside(picture[m]) \/ picture[m].top >= Clamp(y + 21, 0, 128)
  PROVE  RowVisible(picture)
<1>1. PICK bottom \in Int : bottom = Clamp(y + 21, 0, 128)
  BY DEF Clamp
<1>a. PICK seen \in SUBSET Int :
        /\ IsFiniteSet(seen) /\ Cardinality(seen) >= 19
        /\ \A l \in seen : l >= 27 /\ l < 128 /\ l >= y + 1 /\ l < Clamp(y + 21, 0, 128)
  BY LinesOfRow, Zenon
<1>2. /\ IsFiniteSet(seen) /\ Cardinality(seen) >= 19
      /\ \A l \in seen : l >= 27 /\ l < 128 /\ l >= y + 1 /\ l < bottom
  BY <1>1, <1>a, Zenon
<1> DEFINE Seen(l) ==
      /\ HeaderHeight + 1 < l /\ l < Height
      /\ \A m \in n + 1 .. Len(picture) :
           picture[m].op \notin {"text", "nothing"} => ~ Covers(picture[m], Point(Padding, l))
<1>5. ASSUME NEW l \in seen
      PROVE  Seen(l)
  <2>1. l \in Int /\ l >= 27 /\ l < 128 /\ l < bottom
    BY <1>2
  <2>2. HeaderHeight + 1 < l /\ l < Height /\ Padding = 4
    BY <2>1 DEF HeaderHeight, Padding, ScreenOfEV3
  <2>3. ASSUME NEW m \in n + 1 .. Len(picture), picture[m].op \notin {"text", "nothing"}
        PROVE  ~ Covers(picture[m], Point(4, l))
    <3>1. m \in 1 .. Len(picture)
      BY LenProperties
    <3>2. PICK d \in Operations : d = picture[m]
      BY <3>1, ElementOfSeq
    <3>3. Aside(d) \/ d.top >= bottom
      BY <1>1, <3>2
    <3>4. QED
      BY <2>1, <2>3, <3>2, <3>3, NotCovered
  <2>4. QED
    BY <2>2, <2>3
<1>6. PICK lines : lines = {l \in y + 1 .. bottom - 1 : Seen(l)}
  OBVIOUS
<1>7. seen \subseteq lines
  BY <1>2, <1>5, <1>6
<1>8. IsFiniteSet(lines)
  <2>1. IsFiniteSet(y + 1 .. bottom - 1)
    <3>1. y + 1 \in Int /\ bottom - 1 \in Int
      OBVIOUS
    <3>2. QED
      BY <3>1, FS_Interval
  <2>2. QED
    BY <1>6, <2>1, FS_Subset
<1>9. Cardinality(lines) >= 19
  <2>1. Cardinality(seen) <= Cardinality(lines)
    BY <1>7, <1>8, FS_Subset
  <2>2. Cardinality(seen) \in Nat /\ Cardinality(lines) \in Nat
    BY <1>2, <1>8, FS_CardinalityType
  <2>3. QED
    BY <1>2, <2>1, <2>2
<1>10. ItemHeight - 1 = 19
  BY DEF ItemHeight
<1>11. DOMAIN picture = 1 .. Len(picture)
  BY LenProperties
<1>12. picture[n].top .. picture[n].bottom - 1 = y + 1 .. bottom - 1
  BY <1>1
<1>13. Cardinality({l \in picture[n].top .. picture[n].bottom - 1 : Seen(l)}) >= ItemHeight - 1
  BY <1>6, <1>9, <1>10, <1>12, Zenon
<1>14. QED
  BY <1>11, <1>13, Zenon DEF RowVisible

LEMMA LaterRow ==
  ASSUME NEW j \in Nat, NEW k \in Nat, k > 3 * j + 1, k % 3 = 1
  PROVE  (k - 1) \div 3 >= j + 1
OBVIOUS

LEMMA LowerRow ==
  ASSUME NEW y \in 25 .. 108, NEW i \in Int, i >= 1
  PROVE  Clamp(y + i * 20 + 1, 0, 128) >= Clamp(y + 21, 0, 128)
<1>1. i * 20 >= 20
  OBVIOUS
<1>2. QED
  BY <1>1 DEF Clamp

LEMMA EveryMenuLaidOut ==
  ASSUME ScreenOfEV3, NEW size \in Nat, NEW item \in 0 .. size - 1
  PROVE  \E y, first, end, rows : LaidOut(size, item, y, first, end, rows)
<1>1. PICK y \in 25 .. 108 : y = Layout(size, item).y
  BY LayoutBounds
<1>2. PICK first \in 0 .. item : first = Layout(size, item).first
  BY LayoutBounds
<1>3. PICK end \in item + 1 .. size : end = Layout(size, item).end
  BY LayoutBounds
<1>4. PICK rows \in Nat : rows = 3 * (end - first)
  OBVIOUS
<1>5. LaidOut(size, item, y, first, end, rows)
  BY <1>1, <1>2, <1>3, <1>4 DEF LaidOut
<1>6. QED
  BY <1>5

\* At least all lines but one of the selected row of a menu of any size can be seen.
LEMMA RowShown ==
  ASSUME ScreenOfEV3, NEW size \in Nat, NEW item \in 0 .. size - 1, NEW name
  PROVE  RowVisible(MenuPicture(name, size, item) \o <<Overlay>>)
<1>1. PICK y, first, end, rows : LaidOut(size, item, y, first, end, rows)
  BY EveryMenuLaidOut
<1>2. PICK picture \in Seq(Operations) :
        /\ picture = MenuPicture(name, size, item) \o <<Overlay>> /\ rows + 1 \in 0 .. Len(picture)
        /\ \A n \in rows + 2 .. Len(picture) : Aside(picture[n])
        /\ \A n \in 1 .. rows : picture[n + 1] = Items(name, size, item)[n]
  BY <1>1, MenuDrawn
<1>3. /\ item \in Nat /\ y \in 25 .. 108 /\ first \in Nat /\ first <= item /\ end \in Int /\ item < end
      /\ rows \in Nat /\ rows = 3 * (end - first)
  BY <1>1 DEF LaidOut
<1>4. PICK items : items = Items(name, size, item)
  OBVIOUS
<1>5. \A n \in 1 .. rows :
        /\ items[n] \in Operations /\ items[n].op \in {"fill", "text", "nothing"}
        /\ items[n].op = "fill" =>
             n % 3 = 1 /\ items[n].top = Clamp(y + (ItemOf(first, n) - item) * 20 + 1, 0, 128)
        /\ n % 3 = 1 /\ ItemOf(first, n) = item =>
             /\ items[n].op = "fill" /\ items[n].color /\ items[n].left = 0
             /\ items[n].top = y + 1 /\ items[n].bottom = Clamp(y + 21, 0, 128)
  BY <1>1, <1>4, ItemsDrawn
<1>6. PICK j \in Nat : j = item - first
  BY <1>3
<1>7. PICK n \in 1 .. rows : n = 3 * j + 1
  BY <1>3, <1>6
<1>8. n % 3 = 1 /\ ItemOf(first, n) = item
  BY <1>3, <1>6, <1>7 DEF ItemOf
<1>9. ASSUME NEW m \in n + 2 .. Len(picture)
      PROVE  Aside(picture[m]) \/ picture[m].top >= Clamp(y + 21, 0, 128)
  <2>1. CASE m >= rows + 2
    <3>1. m \in rows + 2 .. Len(picture)
      BY <1>2, <1>3, <2>1
    <3>2. QED
      BY <1>2, <3>1
  <2>2. CASE m < rows + 2
    <3>1. PICK k \in 1 .. rows : m = k + 1 /\ k > n
      BY <1>2, <1>3, <2>2
    <3>2. PICK d \in Operations : d = items[k] /\ d.op \in {"fill", "text", "nothing"}
      BY <1>5
    <3>3. picture[m] = d
      BY <1>2, <1>4, <3>1, <3>2
    <3>4. CASE d.op # "fill"
      BY <3>2, <3>3, <3>4 DEF Aside
    <3>5. CASE d.op = "fill"
      <4>1. k % 3 = 1 /\ d.top = Clamp(y + (ItemOf(first, k) - item) * 20 + 1, 0, 128)
        BY <1>5, <3>2, <3>5
      <4>2. (k - 1) \div 3 >= j + 1 /\ (k - 1) \div 3 \in Int
        BY <1>7, <3>1, <4>1, LaterRow
      <4>3. PICK i \in Int : i = ItemOf(first, k) - item /\ i >= 1
        BY <1>3, <1>6, <4>2 DEF ItemOf
      <4>4. d.top >= Clamp(y + 21, 0, 128)
        BY <1>3, <4>1, <4>3, LowerRow
      <4>5. QED
        BY <3>3, <4>4
    <3>6. QED
      BY <3>4, <3>5
  <2>3. QED
    BY <1>3, <2>1, <2>2
<1>10. PICK s \in 1 .. Len(picture) : s = n + 1
  BY <1>2, <1>3, <1>7
<1>11. picture[s] = items[n]
  BY <1>2, <1>4, <1>10
<1>12. /\ picture[s].op = "fill" /\ picture[s].color /\ picture[s].left = 0
       /\ picture[s].top = y + 1 /\ picture[s].bottom = Clamp(y + 21, 0, 128)
  BY <1>5, <1>8, <1>11
<1>13. s + 1 = n + 2
  BY <1>10
<1>14. \A m \in s + 1 .. Len(picture) : Aside(picture[m]) \/ picture[m].top >= Clamp(y + 21, 0, 128)
  BY <1>9, <1>13
<1>15. RowVisible(picture)
  BY <1>3, <1>12, <1>14, RowUncovered
<1>16. QED
  BY <1>2, <1>15, Zenon

(***************************************************************************)
(* The picture of a message of any number of lines.                        *)
(***************************************************************************)
LEMMA ButtonDrawn ==
  ASSUME ScreenOfEV3, NEW black \in BOOLEAN
  PROVE  /\ ButtonRect = Rect(Point(59, 107), Point(118, 127))
         /\ Fill(ButtonRect, black) \in Operations /\ LoopsStop(Fill(ButtonRect, black))
<1>1. ButtonRect = Rect(Point(59, 107), Point(118, 127))
  <2>1. Width \div 3 = 59 /\ (Width - 59) \div 2 = 59 /\ Height - 1 - ItemHeight = 107 /\ Height - 1 = 127
    BY DEF ItemHeight, ScreenOfEV3
  <2>2. QED
    BY <2>1 DEF ButtonRect
<1>2. QED
  BY <1>1, Filled

LEMMA MessageLine ==
  ASSUME ScreenOfEV3, NEW n \in Nat, NEW black \in BOOLEAN
  PROVE  LET t == PrintText(Point(Padding, HeaderHeight + n * ItemHeight - Padding), Screen, Width, 14, 4, black)
         IN  t \in Operations /\ LoopsStop(t)
<1>1. PICK y \in Int : y = HeaderHeight + n * ItemHeight - Padding
  BY DEF HeaderHeight, ItemHeight, Padding
<1>2. PICK t : t = PrintText(Point(4, y), Rect(Point(0, 0), Point(178, 128)), 178, 14, 4, black)
  OBVIOUS
<1>3. t \in Operations /\ LoopsStop(t)
  BY <1>2, Printed
<1>4. PrintText(Point(Padding, HeaderHeight + n * ItemHeight - Padding), Screen, Width, 14, 4, black) = t
  BY <1>1, <1>2 DEF Padding, Screen, ScreenOfEV3
<1>5. QED
  BY <1>3, <1>4

LEMMA ButtonText ==
  ASSUME ScreenOfEV3, NEW white \in BOOLEAN
  PROVE  LET t == PrintText(Point(ButtonRect.topLeft.x + Padding, ButtonRect.bottomRight.y - Padding),
                            ButtonRect, Width, 14, 4, white)
         IN  t \in Operations /\ LoopsStop(t)
<1>1. PICK t : t = PrintText(Point(63, 123), Rect(Point(59, 107), Point(118, 127)), 178, 14, 4, white)
  OBVIOUS
<1>2. t \in Operations /\ LoopsStop(t)
  BY <1>1, Printed
<1>3. ButtonRect.topLeft.x + Padding = 63 /\ ButtonRect.bottomRight.y - Padding = 123
  <2>1. Rect(Point(59, 107), Point(118, 127)).topLeft.x = 59 /\ Rect(Point(59, 107), Point(118, 127)).bottomRight.y = 127
    BY DEF Rect, Point
  <2>2. QED
    BY <2>1, ButtonDrawn DEF Padding
<1>4. PrintText(Point(ButtonRect.topLeft.x + Padding, ButtonRect.bottomRight.y - Padding),
                ButtonRect, Width, 14, 4, white) = t
  BY <1>1, <1>3, ButtonDrawn DEF ScreenOfEV3
<1>5. QED
  BY <1>2, <1>4

LEMMA LoopsJoin ==
  ASSUME NEW s \in Seq(Operations), NEW t \in Seq(Operations),
         \A n \in 1 .. Len(s) : LoopsStop(s[n]), \A n \in 1 .. Len(t) : LoopsStop(t[n])
  PROVE  \E u \in Seq(Operations) : u = s \o t /\ \A n \in 1 .. Len(u) : LoopsStop(u[n])
<1>1. PICK u \in Seq(Operations) : u = s \o t
  BY ConcatProperties
<1>2. Len(s) \in Nat /\ Len(t) \in Nat /\ Len(u) = Len(s) + Len(t)
  BY <1>1, ConcatProperties, LenProperties
<1>3. \A n \in 1 .. Len(s) + Len(t) : u[n] = IF n <= Len(s) THEN s[n] ELSE t[n - Len(s)]
  BY <1>1, ConcatProperties
<1>4. ASSUME NEW n \in 1 .. Len(u)
      PROVE  LoopsStop(u[n])
  <2>1. CASE n <= Len(s)
    BY <1>2, <1>3, <2>1
  <2>2. CASE n > Len(s)
    <3>1. PICK k \in 1 .. Len(t) : k = n - Len(s)
      BY <1>2, <2>2
    <3>2. u[n] = t[k]
      BY <1>2, <1>3, <2>2, <3>1
    <3>3. QED
      BY <3>1, <3>2
  <2>3. QED
    BY <1>2, <2>1, <2>2
<1>5. QED
  BY <1>1, <1>4

LEMMA TwoOf ==
  ASSUME NEW S, NEW d \in S, NEW e \in S
  PROVE  <<d, e>> \in Seq(S) /\ \A n \in 1 .. Len(<<d, e>>) : <<d, e>>[n] \in {d, e}
OBVIOUS

LEMMA MessageDrawn ==
  ASSUME ScreenOfEV3, NEW lines \in Nat
  PROVE  \E picture \in Seq(Operations) :
           picture = MessagePicture(lines) \o <<Overlay>> /\ \A n \in 1 .. Len(picture) : LoopsStop(picture[n])
<1>a. PICK black : black = TRUE
  OBVIOUS
<1>b. PICK white : white = FALSE
  OBVIOUS
<1>c. black \in BOOLEAN /\ white \in BOOLEAN
  BY <1>a, <1>b
<1>1. PICK head \in Seq(Operations) :
        head = <<Clear(FALSE), HeaderText>> /\ \A n \in 1 .. Len(head) : LoopsStop(head[n])
  <2>1. PICK d \in Operations : d = Clear(FALSE) /\ LoopsStop(d)
    BY HeaderDrawn
  <2>2. PICK e \in Operations : e = HeaderText /\ LoopsStop(e)
    BY HeaderDrawn
  <2>3. <<d, e>> \in Seq(Operations) /\ \A n \in 1 .. Len(<<d, e>>) : <<d, e>>[n] \in {d, e}
    BY TwoOf
  <2>4. QED
    BY <2>1, <2>2, <2>3, Zenon
<1>2. PICK body : body = [i \in 1 .. lines |->
        PrintText(Point(Padding, HeaderHeight + i * ItemHeight - Padding), Screen, Width, 14, 4, black)]
  OBVIOUS
<1>3. \A i \in 1 .. lines : body[i] \in Operations /\ LoopsStop(body[i])
  BY <1>2, <1>c, MessageLine
<1>4. body = [i \in 1 .. lines |-> body[i]]
  BY <1>2
<1>5. body \in Seq(Operations) /\ Len(body) = lines
  <2>1. [i \in 1 .. lines |-> body[i]] \in Seq(Operations) /\ Len([i \in 1 .. lines |-> body[i]]) = lines
    BY <1>3
  <2>2. QED
    BY <1>4, <2>1
<1>6. \A n \in 1 .. Len(body) : LoopsStop(body[n])
  BY <1>3, <1>5
<1>7. PICK foot \in Seq(Operations) :
        /\ foot = <<Fill(ButtonRect, black),
                    PrintText(Point(ButtonRect.topLeft.x + Padding, ButtonRect.bottomRight.y - Padding),
                              ButtonRect, Width, 14, 4, white)>>
        /\ \A n \in 1 .. Len(foot) : LoopsStop(foot[n])
  <2>1. PICK d \in Operations : d = Fill(ButtonRect, black) /\ LoopsStop(d)
    BY <1>c, ButtonDrawn
  <2>2. PICK e \in Operations :
          /\ e = PrintText(Point(ButtonRect.topLeft.x + Padding, ButtonRect.bottomRight.y - Padding),
                           ButtonRect, Width, 14, 4, white)
          /\ LoopsStop(e)
    BY <1>c, ButtonText
  <2>3. <<d, e>> \in Seq(Operations) /\ \A n \in 1 .. Len(<<d, e>>) : <<d, e>>[n] \in {d, e}
    BY TwoOf
  <2>4. QED
    BY <2>1, <2>2, <2>3, Zenon
<1>8. PICK over \in Seq(Operations) : over = <<Overlay>> /\ \A n \in 1 .. Len(over) : LoopsStop(over[n])
  BY HeaderSequence
<1>9. PICK a \in Seq(Operations) : a = head \o body /\ \A n \in 1 .. Len(a) : LoopsStop(a[n])
  BY <1>1, <1>5, <1>6, LoopsJoin
<1>10. PICK b \in Seq(Operations) : b = a \o foot /\ \A n \in 1 .. Len(b) : LoopsStop(b[n])
  BY <1>7, <1>9, LoopsJoin
<1>11. PICK c \in Seq(Operations) : c = b \o over /\ \A n \in 1 .. Len(c) : LoopsStop(c[n])
  BY <1>8, <1>10, LoopsJoin
<1>12. c = MessagePicture(lines) \o <<Overlay>>
  BY <1>a, <1>b, <1>1, <1>2, <1>7, <1>8, <1>9, <1>10, <1>11, Zenon DEF MessagePicture
<1>13. QED
  BY <1>11, <1>12, Zenon

\* What can be on the screen is a picture of one of these two kinds.
LEMMA PicturesAreOf ==
  ASSUME NEW shows \in Shows, NEW item
  PROVE  /\ shows \in Menus =>
              MenuSize[shows] \in Nat /\ Picture(shows, item) = MenuPicture(shows, MenuSize[shows], item) \o <<Overlay>>
         /\ shows \notin Menus =>
              Lines[shows] \in Nat /\ Picture(shows, item) = MessagePicture(Lines[shows]) \o <<Overlay>>
<1>1. shows \in Menus => MenuSize[shows] \in Nat
  BY Names DEF MenuSize
<1>2. shows \notin Menus => Lines[shows] \in Nat
  BY Names DEF Lines, Shows
<1>3. QED
  BY <1>1, <1>2, Zenon DEF Picture

LEMMA ShownExists ==
  ASSUME TypeOK, ItemsExist
  PROVE  /\ canvas.shows \in Menus => <<canvas.shows, canvas.current_item>> \in MenusDrawn
         /\ canvas.shows \in Messages => <<canvas.shows, canvas.current_item>> \in MessagesDrawn
<1>1. canvas.shows \in Menus => canvas.current_item \in 0 .. 14 /\ canvas.current_item < MenuSize[canvas.shows]
  BY Names DEF TypeOK, ItemsExist, ItemsOf
<1>2. canvas.shows \in Messages => canvas.current_item = 0
  BY Names DEF TypeOK, ItemsExist
<1>3. QED
  BY <1>1, <1>2 DEF MenusDrawn, MessagesDrawn

(***************************************************************************)
(* Of the selected row of the menu on the screen all lines but one can be  *)
(* seen: no header, bar or other row that base_menu_state::draw draws      *)
(* later covers them.                                                      *)
(***************************************************************************)
THEOREM RowsCanBeSeen == ASSUME Width = 178, Height = 128 PROVE Spec => []SelectedRowVisible
<1>1. ScreenOfEV3
  BY DEF ScreenOfEV3
<1>2. ASSUME NEW menu \in MenusDrawn
      PROVE  RowVisible(Picture(menu[1], menu[2]))
  <2>1. PICK name \in Menus, item \in 0 .. 14 : menu = <<name, item>> /\ item < MenuSize[name]
    BY DEF MenusDrawn
  <2>2. PICK size \in Nat : size = MenuSize[name] /\ Picture(name, item) = MenuPicture(name, size, item) \o <<Overlay>>
    BY PicturesAreOf DEF Shows
  <2>3. item \in 0 .. size - 1
    BY <2>1, <2>2
  <2>4. RowVisible(MenuPicture(name, size, item) \o <<Overlay>>)
    BY <1>1, <2>3, RowShown
  <2>5. menu[1] = name /\ menu[2] = item
    BY <2>1
  <2>6. QED
    BY <2>2, <2>4, <2>5, Zenon
<1>3. WithRowVisible = MenusDrawn
  BY <1>2, Zenon DEF WithRowVisible
<1>4. IInv => SelectedRowVisible
  BY <1>3, ShownExists, Zenon DEF IInv, SelectedRowVisible
<1>5. QED
  BY <1>4, WidgetsInvariant, PTL

(***************************************************************************)
(* No loop of display.cpp that draws a menu or a message runs past the     *)
(* number it is to stop at.                                                *)
(***************************************************************************)
THEOREM LoopsOfPicturesEnd == ASSUME Width = 178, Height = 128 PROVE Spec => []LoopsEnd
<1>1. ScreenOfEV3
  BY DEF ScreenOfEV3
<1>2. ASSUME NEW w \in MenusDrawn
      PROVE  \A n \in DOMAIN Picture(w[1], w[2]) : LoopsStop(Picture(w[1], w[2])[n])
  <2>1. PICK name \in Menus, item \in 0 .. 14 : w = <<name, item>> /\ item < MenuSize[name]
    BY DEF MenusDrawn
  <2>2. PICK size \in Nat : size = MenuSize[name] /\ Picture(name, item) = MenuPicture(name, size, item) \o <<Overlay>>
    BY PicturesAreOf DEF Shows
  <2>3. item \in 0 .. size - 1
    BY <2>1, <2>2
  <2>4. PICK y, first, end, rows : LaidOut(size, item, y, first, end, rows)
    BY <1>1, <2>3, EveryMenuLaidOut
  <2>5. PICK picture \in Seq(Operations) :
          /\ picture = MenuPicture(name, size, item) \o <<Overlay>>
          /\ \A n \in 1 .. Len(picture) : LoopsStop(picture[n])
    BY <1>1, <2>4, MenuDrawn
  <2>6. DOMAIN picture = 1 .. Len(picture)
    BY LenProperties
  <2>7. w[1] = name /\ w[2] = item
    BY <2>1
  <2>8. QED
    BY <2>2, <2>5, <2>6, <2>7, Zenon
<1>3. ASSUME NEW w \in MessagesDrawn
      PROVE  \A n \in DOMAIN Picture(w[1], w[2]) : LoopsStop(Picture(w[1], w[2])[n])
  <2>1. PICK name \in Messages : w = <<name, 0>>
    BY DEF MessagesDrawn
  <2>2. name \in Shows /\ name \notin Menus
    BY Names DEF Shows
  <2>3. PICK lines \in Nat : Picture(name, 0) = MessagePicture(lines) \o <<Overlay>>
    BY <2>2, PicturesAreOf
  <2>4. PICK picture \in Seq(Operations) :
          picture = MessagePicture(lines) \o <<Overlay>> /\ \A n \in 1 .. Len(picture) : LoopsStop(picture[n])
    BY <1>1, MessageDrawn
  <2>5. DOMAIN picture = 1 .. Len(picture)
    BY LenProperties
  <2>6. w[1] = name /\ w[2] = 0
    BY <2>1
  <2>7. QED
    BY <2>3, <2>4, <2>5, <2>6, Zenon
<1>4. WithLoopsThatEnd = MenusDrawn \cup MessagesDrawn
  BY <1>2, <1>3, Zenon DEF WithLoopsThatEnd
<1>5. IInv => LoopsEnd
  <2>1. TypeOK => canvas.shows \in Menus \cup Messages \cup {"nothing"}
    BY DEF TypeOK
  <2>2. QED
    BY <1>4, <2>1, ShownExists, Zenon DEF IInv, LoopsEnd
<1>6. QED
  BY <1>5, WidgetsInvariant, PTL

(***************************************************************************)
(* On a screen of any size: the bytes of a pixel that display::set writes, *)
(* whatever crop it is given, are in the buffer, as display.h asserts; and *)
(* rectangle draws the pixels on its edge, and no others.                  *)
(***************************************************************************)
THEOREM PixelsAreInBuffer ==
  ASSUME NEW x \in Int, NEW y \in Int, NEW a \in Int, NEW b \in Int, NEW c \in Int, NEW d \in Int,
         Sets(Point(x, y), Rect(Point(a, b), Point(c, d)))
  PROVE  0 <= Index(Point(x, y)) /\ Index(Point(x, y)) < Width * Height * 4 - 3
<1>1. Width \in Nat \ {0} /\ Height \in Nat \ {0}
  BY DisplayAssumption
<1>2. x \in 0 .. Width - 1 /\ y \in 0 .. Height - 1
  BY <1>1 DEF Sets, Point, Rect, Greatest, Least
<1>3. PICK row \in Nat : row = y * Width
  BY <1>1, <1>2
<1>4. PICK all \in Nat : all = Height * Width
  BY <1>1
<1>5. row + Width <= all
  <2>1. y + 1 <= Height
    BY <1>1, <1>2
  <2>2. (y + 1) * Width <= Height * Width
    BY <1>1, <1>2, <2>1
  <2>3. (y + 1) * Width = row + Width
    BY <1>1, <1>2, <1>3
  <2>4. QED
    BY <1>4, <2>2, <2>3
<1>6. Index(Point(x, y)) = (row + x) * 4
  BY <1>3 DEF Index, Point
<1>7. Width * Height * 4 = all * 4
  BY <1>1, <1>4
<1>8. QED
  BY <1>1, <1>2, <1>5, <1>6, <1>7

THEOREM RectangleIsItsEdge ==
  ASSUME NEW a \in 0 .. Width - 1, NEW c \in a .. Width - 1, NEW b \in 0 .. Height - 1, NEW d \in b .. Height - 1,
         NEW x \in Int, NEW y \in Int, NEW color
  PROVE  (\E line \in Rectangle(Rect(Point(a, b), Point(c, d)), color) : Covers(line, Point(x, y)))
           <=> x \in a .. c /\ y \in b .. d /\ (x \in {a, c} \/ y \in {b, d})
<1>1. Width \in Nat \ {0} /\ Height \in Nat \ {0}
  BY DisplayAssumption
<1>2. PICK r : r = Rect(Point(a, b), Point(c, d))
  OBVIOUS
<1>3. /\ RectWidth(r) = c - a + 1 /\ RectHeight(r) = d - b + 1
      /\ r.topLeft = Point(a, b) /\ r.bottomRight = Point(c, d)
  BY <1>2 DEF RectWidth, RectHeight, Rect, Point
<1>4. PICK w \in Int, h \in Int : w = c - a + 1 /\ h = d - b + 1
  BY <1>1
<1>5. Point(a, b).x = a /\ Point(a, b).y = b /\ Point(c, d).x = c /\ Point(c, d).y = d
  BY DEF Point
<1>6. Rectangle(r, color) =
        {HLine(Point(a, b), w, color), HLine(Point(a, d), w, color)} \cup
        (IF h > 2 THEN {VLine(Point(a, b + 1), h - 2, color), VLine(Point(c, b + 1), h - 2, color)} ELSE {})
  BY <1>3, <1>4, <1>5 DEF Rectangle
<1>7. ASSUME NEW v \in {b, d}
      PROVE  Covers(HLine(Point(a, v), w, color), Point(x, y)) <=> x \in a .. c /\ y = v
  BY <1>1, <1>4, <1>7 DEF Covers, HLine, Point, Clamp
<1>8. ASSUME h > 2, NEW u \in {a, c}
      PROVE  Covers(VLine(Point(u, b + 1), h - 2, color), Point(x, y)) <=> x = u /\ y \in b + 1 .. d - 1
  BY <1>1, <1>4, <1>8 DEF Covers, VLine, Point, Clamp
<1>9. CASE h > 2
  <2>1. (\E line \in Rectangle(r, color) : Covers(line, Point(x, y))) <=>
          \/ x \in a .. c /\ y \in {b, d}
          \/ x \in {a, c} /\ y \in b + 1 .. d - 1
    BY <1>6, <1>7, <1>8, <1>9
  <2>2. QED
    BY <1>1, <1>2, <2>1
<1>10. CASE ~ (h > 2)
  <2>1. (\E line \in Rectangle(r, color) : Covers(line, Point(x, y))) <=> x \in a .. c /\ y \in {b, d}
    BY <1>6, <1>7, <1>10
  <2>2. b .. d = {b, d}
    BY <1>1, <1>4, <1>10
  <2>3. QED
    BY <1>1, <1>2, <2>1, <2>2
<1>11. QED
  BY <1>9, <1>10

=============================================================================
