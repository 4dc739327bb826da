-------------------------------- MODULE Demo --------------------------------
(***************************************************************************)
(* demos/ev3dev-lang-demo.cpp: menus on a terminal that read and write the *)
(* attributes of whatever is plugged in, nested in each other as function  *)
(* calls.  Nothing catches an exception but the "info" of a motor, and     *)
(* nothing looks at the state of cin: once it has failed every extraction  *)
(* leaves its variable as it was.  Devices are plugged in and out at any   *)
(* time.  An attribute is abstracted to whether its device is still there  *)
(* and takes the value; a device that is plugged in again is another one.  *)
(***************************************************************************)
EXTENDS SequencesExt, Naturals

CONSTANTS
  InPorts, OutPorts,   \* input ports, and output ports
  MaxFiles             \* files the program may have open besides those it uses

Ports == InPorts \cup OutPorts

\* A port is not called as another key is.
ASSUME DemoAssumption ==
  /\ InPorts \cap OutPorts = {} /\ MaxFiles \in Nat
  /\ Ports \cap {"b", "nothing", "another", "brick LED", "port LED"} = {}

\* What may be plugged into a port: drivers of different classes.
Fits(p) == {"none"} \cup (IF p \in InPorts THEN {"sensor"} ELSE {"motor", "dc", "servo"})
Devices == {"none", "sensor", "motor", "dc", "servo"}

VARIABLES
  frames,     \* the menus that are open: what they are, and the choice each has read last
  doing,         \* what the innermost menu does
  cin,        \* std::cin: good, or failed
  thread,     \* the thread of a sensor's (m)onitor: none, reads, or has read
  plugged,    \* what is plugged in
  found,      \* what the device objects of the open menu were connected to
  stale,      \* ports whose device was unplugged since
  trigger,    \* of the LED whose menu is open
  led_ports,  \* the LEDs of the output ports exist
  open_fb,    \* files of the frame buffer that are open
  screen,     \* what the frame buffer was filled with last
  ended,      \* no, returned, terminated
  careful,    \* ghost: what was chosen was listed, what was written accepted, nothing unplugged
  leaving     \* ghost: the user wants to leave

menusVars == <<frames, doing, cin, thread, plugged, found, stale, trigger, led_ports, open_fb, screen, ended,
          careful, leaving>>

outside == <<plugged, led_ports, leaving>>

-----------------------------------------------------------------------------
(***************************************************************************)
(* The menus: what a key does.  It opens a menu, or is one of              *)
(*   reads       prints attributes of the device                           *)
(*   info        prints attributes, each in a try block of its own         *)
(*   word, number  asks for a value and writes it to an attribute          *)
(*   asks        the same, after reading which words there are             *)
(*   sounds, tone  the same, but hands the value to a command of the shell *)
(*   writes      writes an attribute                                       *)
(***************************************************************************)
On(ks, what) == [k \in ks |-> what]

main_menu ==
  [k \in {"s", "m", "l", "b", "o", "a", "c"} |->
     CASE k = "s" -> "sensor_menu" [] k = "m" -> "motor_menu" [] k = "l" -> "led_menu"
       [] k = "b" -> "button_menu" [] k = "o" -> "sound_menu" [] k = "a" -> "battery_menu"
       [] k = "c" -> "lcd_menu"]

sensor_menu == On(InPorts, "sensor_action")
sensor_action ==
  [k \in {"s", "c", "v", "m"} |-> CASE k = "c" -> "word" [] k = "m" -> "monitor" [] OTHER -> "reads"]

(***************************************************************************)
(* A motor menu opens by what is connected: the test for a dc motor looks  *)
(* at the tacho motor a second time, so that it never holds.               *)
(***************************************************************************)
motor_menu ==
  [p \in {p \in OutPorts : found[p] \in {"motor", "servo"}} |->
     IF found[p] = "motor" THEN "motor_action" ELSE "motor_action_servo"]

motor_action ==
  [k \in {"i", "c", "o", "s", "p", "u", "d", "t", "0"} |->
     CASE k = "i" -> "info" [] k \in {"c", "o"} -> "asks" [] k = "0" -> "writes" [] OTHER -> "number"]
motor_action_dc ==
  [k \in {"c", "o", "d", "r", "u"} |-> CASE k = "c" -> "asks" [] k = "o" -> "word" [] OTHER -> "number"]
motor_action_servo ==
  [k \in {"c", "o", "p", "r", "n", "d", "x"} |-> IF k \in {"c", "o"} THEN "word" ELSE "number"]

led_menu == On({"brick LED", "port LED"}, "led_action")
led_action ==
  [k \in {"0", "1", "f", "i", "t"} |->
     CASE k = "0" -> "off" [] k = "1" -> "on" [] k = "f" -> "flash" [] k = "i" -> "interval"
       [] k = "t" -> "trigger"]

button_menu == On({"1", "2", "3", "4", "5", "6"}, "presses")
sound_menu ==
  [k \in {"e", "t", "d", "p", "s"} |->
     CASE k = "e" -> "beep" [] k \in {"t", "d"} -> "tone" [] OTHER -> "sounds"]
battery_menu == On({"v", "c"}, "battery")
lcd_menu == [k \in {"i", "f", "c"} |-> IF k = "c" THEN "black" ELSE "white"]

Commands(menu) ==
  CASE menu = "main_menu" -> main_menu
    [] menu = "sensor_menu" -> sensor_menu
    [] menu = "sensor_action" -> sensor_action
    [] menu = "motor_menu" -> motor_menu
    [] menu = "motor_action" -> motor_action
    [] menu = "motor_action_dc" -> motor_action_dc
    [] menu = "motor_action_servo" -> motor_action_servo
    [] menu = "led_menu" -> led_menu
    [] menu = "led_action" -> led_action
    [] menu = "button_menu" -> button_menu
    [] menu = "sound_menu" -> sound_menu
    [] menu = "battery_menu" -> battery_menu
    [] menu = "lcd_menu" -> lcd_menu

MenuNames ==
  {"main_menu", "sensor_menu", "sensor_action", "motor_menu", "motor_action", "motor_action_dc",
   "motor_action_servo", "led_menu", "led_action", "button_menu", "sound_menu", "battery_menu", "lcd_menu"}

\* The key that leaves a menu.
ExitKey(menu) == IF menu = "main_menu" THEN "q" ELSE "b"

\* The ports whose devices the objects of a menu stand for.
PortsOf(menu) ==
  CASE menu = "sensor_menu" -> InPorts [] menu = "motor_menu" -> OutPorts [] OTHER -> {}

Triggers == {"none", "timer", "other"}

Top == frames[Len(frames)]
Command == IF Top.c \in DOMAIN Commands(Top.menu) THEN Commands(Top.menu)[Top.c] ELSE "nothing"
Keys(menu) == DOMAIN Commands(menu) \cup {ExitKey(menu), "another"}

\* The port of the device whose menu is open.
Port == frames[Len(frames) - 1].c

MenusInit ==
  /\ frames = <<[menu |-> "main_menu", c |-> "nothing"]>>
  /\ doing = "shows"
  /\ cin = "good"
  /\ thread = "none"
  /\ plugged \in {f \in [Ports -> Devices] : \A p \in Ports : f[p] \in Fits(p)}
  /\ found = [p \in Ports |-> "none"]
  /\ stale = {}
  /\ trigger = "none"
  /\ led_ports \in BOOLEAN
  /\ open_fb = 0
  /\ screen = "other"
  /\ ended = "no"
  /\ careful = TRUE
  /\ leaving = FALSE

-----------------------------------------------------------------------------
\* An exception that nobody catches.
Terminate ==
  /\ ended' = "terminated"
  /\ UNCHANGED <<frames, doing, cin, thread, found, stale, trigger, open_fb, screen>>

(***************************************************************************)
(* Reading from the device at a port throws if none was connected, and     *)
(* throws or reads what a stream had buffered if it is gone, or if no file *)
(* can be opened; writing throws then.                                     *)
(***************************************************************************)
OutOfFiles == open_fb = MaxFiles
Gone(p) == found[p] = "none" \/ p \in stale
MayThrow(ports) == \E p \in ports : Gone(p) \/ OutOfFiles
MayReturn(ports) == \A p \in ports : found[p] # "none"

\* The ports whose devices a menu prints before it asks.
Shown ==
  CASE Top.menu \in {"sensor_menu", "motor_menu"} -> {p \in PortsOf(Top.menu) : found[p] # "none"}
    [] Top.menu \in {"sensor_action", "motor_action", "motor_action_dc", "motor_action_servo"} -> {Port}
    [] OTHER -> {}

Show ==
  /\ doing = "shows" /\ ended = "no"
  /\ \/ MayThrow(Shown) /\ Terminate
     \/ MayReturn(Shown) /\ doing' = "chooses"
        /\ UNCHANGED <<frames, cin, thread, found, stale, trigger, open_fb, screen, ended>>
  /\ UNCHANGED <<careful, outside>>

\* Is what a key stands for shown to be there?
Listed(k) ==
  /\ Top.menu \in {"sensor_menu", "motor_menu"} /\ k \in Ports => found[k] # "none"
  /\ k = "port LED" => led_ports

(***************************************************************************)
(* cin >> c.  Who wants to leave chooses that.                             *)
(***************************************************************************)
Choose(k) ==
  /\ doing = "chooses" /\ ended = "no"
  /\ cin = "good"
  /\ leaving => k = ExitKey(Top.menu)
  /\ frames' = [frames EXCEPT ![Len(frames)].c = k]
  /\ doing' = "acts"
  /\ careful' = (careful /\ Listed(k))
  /\ UNCHANGED <<cin, thread, found, stale, trigger, open_fb, screen, ended, outside>>

ChooseFails ==
  /\ doing = "chooses" /\ ended = "no"
  /\ cin = "failed"
  /\ doing' = "acts"
  /\ UNCHANGED <<frames, cin, thread, found, stale, trigger, open_fb, screen, ended, careful, outside>>

\* Mutant of Leave: the menu goes on.
LeaveNever ==
  /\ doing = "acts" /\ ended = "no"
  /\ Top.c = ExitKey(Top.menu)
  /\ doing' = "shows"
  /\ UNCHANGED <<frames, cin, thread, found, stale, trigger, open_fb, screen, ended, careful, outside>>

\* The end of the loop of a menu, and of the program.
Leave ==
  /\ doing = "acts" /\ ended = "no"
  /\ Top.c = ExitKey(Top.menu)
  /\ IF Len(frames) = 1 THEN ended' = "returned" /\ UNCHANGED frames
     ELSE frames' = Front(frames) /\ UNCHANGED ended
  /\ IF PortsOf(Top.menu) # {}
     THEN found' = [p \in Ports |-> "none"] /\ stale' = {} ELSE UNCHANGED <<found, stale>>
  /\ trigger' = IF Top.menu = "led_action" THEN "none" ELSE trigger
  /\ doing' = "shows"
  /\ UNCHANGED <<cin, thread, open_fb, screen, careful, outside>>

(***************************************************************************)
(* A menu is opened.  The sensors' and the motors' connect their objects   *)
(* to what is plugged in then (to nothing if the directory cannot be       *)
(* opened); the LCD's maps the frame buffer and keeps its file open, also  *)
(* after lcd::deinit, and returns at once if there are too many.  The      *)
(* trigger of an LED is what somebody has left it at.                      *)
(***************************************************************************)
Open ==
  /\ doing = "acts" /\ ended = "no"
  /\ Command \in MenuNames
  /\ IF Command = "lcd_menu" /\ OutOfFiles THEN UNCHANGED frames
     ELSE frames' = Append(frames, [menu |-> Command, c |-> "nothing"])
  /\ IF PortsOf(Command) = {} THEN UNCHANGED found
     ELSE \E seen \in {PortsOf(Command)} \cup (IF OutOfFiles THEN {{}} ELSE {}) :
            found' = [p \in Ports |-> IF p \in seen THEN plugged[p] ELSE "none"]
  /\ IF Command = "led_action" THEN trigger' \in Triggers ELSE UNCHANGED trigger
  /\ open_fb' = IF Command = "lcd_menu" /\ ~ OutOfFiles THEN open_fb + 1 ELSE open_fb
  /\ doing' = "shows"
  /\ UNCHANGED <<cin, thread, stale, screen, ended, careful, outside>>

(***************************************************************************)
(* Keys that need nothing but the device.  Some attribute that "info"      *)
(* reads no motor has: a rotating one has no count_per_m, a linear one no  *)
(* count_per_rot; each try block catches it.                               *)
(***************************************************************************)
\* Mutant of Info: the attributes are read as elsewhere.
InfoThrows == Terminate /\ UNCHANGED careful

Info ==
  /\ doing' = "shows"
  /\ UNCHANGED <<frames, cin, thread, found, stale, trigger, open_fb, screen, ended, careful>>

Nothing == doing' = "shows" /\ UNCHANGED <<frames, cin, thread, found, stale, ended, careful>>

Act ==
  /\ doing = "acts" /\ ended = "no"
  /\ Top.c # ExitKey(Top.menu)
  /\ \/ Command \in {"nothing", "presses", "beep"} /\ Nothing /\ UNCHANGED <<trigger, open_fb, screen>>
     \/ Command = "info" /\ Info
     \/ /\ Command = "reads"
        /\ \/ MayThrow({Port}) /\ Terminate /\ UNCHANGED careful
           \/ MayReturn({Port}) /\ Nothing /\ UNCHANGED <<trigger, open_fb, screen>>
     \/ /\ Command = "writes"
        /\ \/ MayThrow({Port}) /\ Terminate /\ UNCHANGED careful
           \/ ~ Gone(Port) /\ Nothing /\ UNCHANGED <<trigger, open_fb, screen>>
     \/ Command = "battery" /\ Terminate /\ UNCHANGED careful
     \/ Command \in {"white", "black"} /\ screen' = Command /\ Nothing /\ UNCHANGED <<trigger, open_fb>>
  /\ UNCHANGED outside

(***************************************************************************)
(* The LED's.  Linux takes the trigger away when the brightness becomes 0. *)
(* flash() makes the trigger "timer" and waits for the delays to appear;   *)
(* it throws after six attempts: the one LED that takes longer is not for  *)
(* the careful.                                                            *)
(***************************************************************************)
LedGone == Port = "port LED" /\ ~ led_ports

LedAct ==
  /\ doing = "acts" /\ ended = "no"
  /\ Command \in {"off", "on", "flash"}
  /\ \/ Port = "port LED" /\ ~ led_ports /\ Terminate /\ UNCHANGED careful
     \/ /\ Port = "brick LED" \/ led_ports
        /\ trigger' = CASE Command = "off" -> "none" [] Command = "flash" -> "timer" [] OTHER -> trigger
        /\ Nothing /\ UNCHANGED <<open_fb, screen>>
     \/ Command = "flash" /\ Terminate /\ careful' = FALSE
     \/ OutOfFiles /\ Terminate /\ UNCHANGED careful
  /\ UNCHANGED outside

\* A value is asked for, some after printing what there is to choose from.
Asked == {"word", "asks", "number", "interval", "trigger", "tone", "sounds"}

Ask ==
  /\ doing = "acts" /\ ended = "no"
  /\ Command \in Asked
  /\ \/ Command = "asks" /\ MayThrow({Port}) /\ Terminate
     \/ Command = "trigger" /\ (LedGone \/ OutOfFiles) /\ Terminate
     \/ /\ Command = "asks" => MayReturn({Port})
        /\ Command = "trigger" => ~ LedGone
        /\ doing' = "prompts"
        /\ UNCHANGED <<frames, cin, thread, found, stale, trigger, open_fb, screen, ended>>
  /\ UNCHANGED <<careful, outside>>

(***************************************************************************)
(* The answer: one that the device accepts, one it refuses, and for a      *)
(* number a text, which makes cin fail and the number 0.                   *)
(***************************************************************************)
Answers == {"accepted", "refused", "text"}

CanWrite ==
  CASE Command = "interval" -> ~ LedGone /\ trigger = "timer"
    [] Command \in {"tone", "sounds", "trigger"} -> TRUE
    [] OTHER -> ~ Gone(Port)

Prompt(answer) ==
  /\ doing = "prompts" /\ ended = "no"
  /\ answer = "text" => Command \in {"number", "interval", "tone"}
  /\ cin = "failed" => answer # "text"
  /\ leaving => answer = "accepted"
  /\ cin' = IF answer = "text" THEN "failed" ELSE cin
  /\ \/ /\ CanWrite /\ (answer # "refused" \/ Command \in {"tone", "sounds"})
        /\ doing' = "shows" /\ UNCHANGED ended
        /\ trigger' \in IF Command = "trigger" THEN Triggers ELSE {trigger}
     \/ /\ Command \notin {"tone", "sounds"} /\ (~ CanWrite \/ answer # "accepted" \/ OutOfFiles)
        /\ ended' = "terminated" /\ UNCHANGED <<doing, trigger>>
  /\ careful' = (careful /\ answer = "accepted" /\ (Command = "interval" => trigger = "timer"))
  /\ UNCHANGED <<frames, thread, found, stale, open_fb, screen, outside>>

-----------------------------------------------------------------------------
(***************************************************************************)
(* (m)onitor: a thread reads a character, which ends the loop that prints  *)
(* the sensor's value.  An exception meets a thread that can be joined:    *)
(* the program ends.                                                       *)
(***************************************************************************)
MonitorStarts ==
  /\ doing = "acts" /\ ended = "no"
  /\ Command = "monitor"
  /\ thread' = "reads"
  /\ doing' = "monitors"
  /\ UNCHANGED <<frames, cin, found, stale, trigger, open_fb, screen, ended, careful, outside>>

ThreadReads ==
  /\ thread = "reads" /\ ended = "no"
  /\ thread' = "has read"
  /\ UNCHANGED <<frames, doing, cin, found, stale, trigger, open_fb, screen, ended, careful, outside>>

\* Mutant of MonitorEnds: the thread is not joined.
MonitorEndsFirst ==
  /\ doing = "monitors" /\ ended = "no"
  /\ doing' = "shows"
  /\ UNCHANGED <<frames, cin, thread, found, stale, trigger, open_fb, screen, ended, careful, outside>>

MonitorReads ==
  /\ doing = "monitors" /\ ended = "no"
  /\ MayThrow({Port}) /\ Terminate
  /\ UNCHANGED <<careful, outside>>

MonitorEnds ==
  /\ doing = "monitors" /\ ended = "no"
  /\ thread = "has read"
  /\ thread' = "none"
  /\ doing' = "shows"
  /\ UNCHANGED <<frames, cin, found, stale, trigger, open_fb, screen, ended, careful, outside>>

-----------------------------------------------------------------------------
\* A device is plugged in, or out; somebody who does that is not careful.
Plug(p, what) ==
  /\ ended = "no" /\ ~ leaving
  /\ plugged[p] # what
  /\ what = "none" \/ plugged[p] = "none"
  /\ plugged' = [plugged EXCEPT ![p] = what]
  /\ stale' = IF found[p] # "none" THEN stale \cup {p} ELSE stale
  /\ careful' = FALSE
  /\ UNCHANGED <<frames, doing, cin, thread, found, trigger, led_ports, open_fb, screen, ended, leaving>>

\* The input of the program ends.
InputEnds ==
  /\ ended = "no" /\ ~ leaving
  /\ cin = "good"
  /\ cin' = "failed"
  /\ UNCHANGED <<frames, doing, thread, found, stale, trigger, open_fb, screen, ended, careful, outside>>

WantToLeave ==
  /\ ended = "no" /\ ~ leaving
  /\ leaving' = TRUE
  /\ UNCHANGED <<frames, doing, cin, thread, plugged, found, stale, trigger, led_ports, open_fb, screen, ended,
                 careful>>

Run ==
  \/ Show
  \/ \E k \in Keys(Top.menu) : Choose(k)
  \/ ChooseFails
  \/ Leave
  \/ Open
  \/ Act
  \/ LedAct
  \/ Ask
  \/ \E answer \in Answers : Prompt(answer)
  \/ MonitorStarts
  \/ MonitorReads
  \/ MonitorEnds

MenusNext ==
  \/ Run
  \/ ThreadReads
  \/ \E p \in Ports : \E what \in Fits(p) : Plug(p, what)
  \/ InputEnds
  \/ WantToLeave

MenusSpec == MenusInit /\ [][MenusNext]_menusVars

\* The program goes on, and a user who wants to leave goes on answering.
MenusFairSpec == MenusSpec /\ WF_menusVars(Run) /\ WF_menusVars(ThreadReads)

-----------------------------------------------------------------------------
Chosen ==
  Ports \cup {"a", "b", "c", "d", "e", "f", "i", "l", "m", "n", "o", "p", "q", "r", "s", "t", "u", "v", "x",
             "0", "1", "2", "3", "4", "5", "6", "brick LED", "port LED", "another", "nothing"}

MenusTypeOK ==
  /\ frames \in Seq([menu : MenuNames, c : Chosen])
  /\ doing \in {"shows", "chooses", "acts", "prompts", "monitors"}
  /\ cin \in {"good", "failed"}
  /\ thread \in {"none", "reads", "has read"}
  /\ plugged \in [Ports -> Devices]
  /\ found \in [Ports -> Devices]
  /\ stale \subseteq Ports
  /\ trigger \in Triggers
  /\ led_ports \in BOOLEAN
  /\ open_fb \in 0 .. MaxFiles
  /\ screen \in {"other", "white", "black"}
  /\ ended \in {"no", "returned", "terminated"}
  /\ careful \in BOOLEAN
  /\ leaving \in BOOLEAN

\* Every menu was called by what its caller has read, and the action of a motor by what is there:
\* the variables of the callers keep their values while the callee runs.
FramesNest ==
  /\ frames # <<>> /\ frames[1].menu = "main_menu"
  /\ \A i \in 2 .. Len(frames) :
       /\ frames[i - 1].c \in DOMAIN Commands(frames[i - 1].menu)
       /\ frames[i].menu = Commands(frames[i - 1].menu)[frames[i - 1].c]

\* The thread of (m)onitor captures variables of its block: it is there only while the block is, and
\* never reads cin at the same time as a menu.
OneReader == thread # "none" => doing = "monitors" /\ Command = "monitor"

\* While a menu asks for a value, or monitors, the key that says so is the one it has read.
KeyIsRead == (doing = "prompts" => Command \in Asked) /\ (doing = "monitors" => Command = "monitor")

\* demos/ev3dev-lang-demo.cpp: the calls of the menus nest, and one thread at a time reads cin.
MenusNest == MenusTypeOK /\ FramesNest /\ OneReader /\ KeyIsRead

(***************************************************************************)
(* demos/ev3dev-lang-demo.cpp catches nothing: the program is terminated   *)
(* only if something was chosen that is not there, or a device refuses a   *)
(* value or is unplugged; if the LCD's menu was opened too often, which    *)
(* uses up the files; or by the battery's menu, whose path does not exist  *)
(* (ev3dev.cpp:937 joins the directory and the name without a slash).      *)
(***************************************************************************)
CarefulUserSurvives ==
  careful /\ ended = "terminated" => OutOfFiles \/ Command = "battery"

\* Why: what careful users have chosen is there, for every menu that is open, and stays.
ThereAsListed ==
  careful =>
    /\ stale = {}
    /\ \A i \in DOMAIN frames :
         /\ frames[i].menu \in {"sensor_menu", "motor_menu"} /\ frames[i].c \in Ports =>
              found[frames[i].c] # "none"
         /\ frames[i].c = "port LED" => led_ports

\* demos/ev3dev-lang-demo.cpp: the calls nest, and lead to devices that are there.
MenusIInv == MenusNest /\ ThereAsListed /\ CarefulUserSurvives

\* Whoever goes (b)ack and (q)uits comes to the end of main, out of every menu, prompt and monitor:
\* unless cin has failed, after which no menu that was not just being left is ever left.
MenusClose == leaving ~> ended # "no" \/ cin = "failed"
=============================================================================
