-------------------------------- MODULE Panel --------------------------------
(***************************************************************************)
(* The panel of a board: the 3x4 keypad and its controller, the task that  *)
(* writes the pressed keys into a text, and the controller of the 2x16     *)
(* LCD, which takes the two lines of the text through a bounded fifo and   *)
(* prints them one character at a time.                                    *)
(* (src/driver/keypad/keypad_driver_3x4.c, src/modules/keypad,             *)
(* src/app_tasks/keypad_to_lcd_task.c, src/modules/lcd,                    *)
(* src/driver/lcd/lcd_driver_HD44780_16x2.c)                               *)
(*                                                                         *)
(* A key is held or not and may bounce until the next scan after a move (a *)
(* scan comes every 50 ms). A line is the set of keys it shows and the row *)
(* of the text it was cut from. Time is left out: a run of the LCD task    *)
(* whose timer is not up changes nothing, and the timer is up sooner or    *)
(* later, so the refresh pause only decides when WAIT is left.  As time is *)
(* left out, a send of a key's signal may be refused at any moment.        *)
(***************************************************************************)
EXTENDS Integers, Sequences, FiniteSets

CONSTANTS
  TopKey, BottomKey,   \* digits shown in the first and in the second line
  LcdFifoDepth,        \* LCD_FIFO_DEEP
  LcdChars,            \* LCD_NUM_CHARS
  MaxKeyMoves          \* bound: presses and releases in a behaviour

ASSUME PanelAssumption ==
  /\ TopKey \cap BottomKey = {}
  /\ LcdFifoDepth \in 1 .. 255 /\ LcdChars \in Nat \ {0} /\ MaxKeyMoves \in Nat

VARIABLES
  keys,     \* the fingers and the contacts
  keypad,   \* keypad_task_state, keypad_driver_key_list, keypad_controller_key_list
  text,     \* lcd_text and lcd2key_is_active; history: the keys whose last signal
            \* was refused
  lcd,      \* the fifo, the controller's state and flags, the driver's buffer, the display
  lines     \* history: the last two lines the fifo accepted

panelvars == <<keys, keypad, text, lcd, lines>>

Key == TopKey \cup BottomKey

BlankLine == [row |-> 0, keys |-> {}]
TextLines(shown) == << [row |-> 1, keys |-> shown \cap TopKey],
                       [row |-> 2, keys |-> shown \cap BottomKey] >>

PanelInit ==
  /\ keys = [held |-> {}, bouncing |-> {}, moves |-> 0]
  /\ keypad = [state |-> "IDLE", seen |-> {}, down |-> {}]
  /\ text = [shown |-> {}, active |-> FALSE, missed |-> {}]
  /\ \E smooth \in BOOLEAN :
       lcd = [ state |-> "INIT", queue |-> <<>>, second |-> FALSE, smooth |-> smooth,
               buffer |-> <<BlankLine, BlankLine>>,
               rows |-> <<BlankLine, BlankLine>>, chars |-> 0 ]
  /\ lines = <<BlankLine, BlankLine>>

-----------------------------------------------------------------------------
(* Keypad *)

PressKey(k) ==
  /\ k \notin keys.held /\ keys.moves < MaxKeyMoves
  /\ keys' = [held |-> keys.held \cup {k}, bouncing |-> keys.bouncing \cup {k},
              moves |-> keys.moves + 1]
  /\ UNCHANGED <<keypad, text, lcd, lines>>

ReleaseKey(k) ==
  /\ k \in keys.held /\ keys.moves < MaxKeyMoves
  /\ keys' = [held |-> keys.held \ {k}, bouncing |-> keys.bouncing \cup {k},
              moves |-> keys.moves + 1]
  /\ UNCHANGED <<keypad, text, lcd, lines>>

\* What a scan of the columns may find. keypad_driver_get_keys takes a key that
\* was high in all three of its scans.
Readings == { (keys.held \ keys.bouncing) \cup high : high \in SUBSET keys.bouncing }

WrongAnyKey(found) == found # {}

\* keypad_controller_is_key_pressed: also a key of the last scan counts, or its
\* release would never be seen.
AnyKey(found) == keypad.seen # {} \/ found # {}

KeypadIdle ==
  /\ keypad.state = "IDLE"
  /\ \E found \in Readings :
       keypad' = [keypad EXCEPT !.state = IF AnyKey(found) THEN "GET_KEYS" ELSE "IDLE"]
  /\ keys' = [keys EXCEPT !.bouncing = {}]
  /\ UNCHANGED <<text, lcd, lines>>

\* keypad_controller_send_signals: PRESSED of the keys that went down, RELEASED
\* of those that went up; the slots of the text task run within the send.
\* signal_slot_send refuses one whose signal was sent a turn of the 16-bit clock
\* ago, to 5 ms; the controller marks the key all the same.
KeypadGetKeys ==
  /\ keypad.state = "GET_KEYS"
  /\ \E seen \in Readings, refused \in SUBSET Key :
       LET pressed == seen \ keypad.down
           released == keypad.down \ seen
           sent == (pressed \cup released) \ refused
       IN /\ refused \subseteq pressed \cup released
          /\ keypad' = [state |-> "IDLE", seen |-> seen, down |-> seen]
          /\ text' = [shown |-> (text.shown \cup (pressed \cap sent)) \ (released \cap sent),
                      active |-> text.active \/ sent # {},
                      missed |-> (text.missed \ sent) \cup refused]
  /\ keys' = [keys EXCEPT !.bouncing = {}]
  /\ UNCHANGED <<lcd, lines>>

-----------------------------------------------------------------------------
(* Text task and the slot of the LCD controller *)

\* lcd_task_slot_new_line: a full fifo drops the line.
Offered(s, line) ==
  IF Len(s.queue) = LcdFifoDepth THEN s
  ELSE [queue |-> Append(s.queue, line), lines |-> <<s.lines[2], line>>]

\* One signal for each line, both while the flag is set.
SendLines ==
  /\ text.active
  /\ LET new == TextLines(text.shown)
         after == Offered(Offered([queue |-> lcd.queue, lines |-> lines], new[1]), new[2])
     IN lcd' = [lcd EXCEPT !.queue = after.queue] /\ lines' = after.lines
  /\ text' = [text EXCEPT !.active = FALSE]
  /\ UNCHANGED <<keys, keypad>>

-----------------------------------------------------------------------------
(* LCD controller and driver *)

\* lcd_driver_init clears the display and the buffer.
LcdSetUp ==
  /\ lcd.state = "INIT"
  /\ lcd' = [lcd EXCEPT !.state = "IDLE"]

WrongLineSet(buffer, line) == <<buffer[1], line>>

\* lcd_driver_set_line: the lines move up and the new one becomes the last.
LineSet(buffer, line) == <<buffer[2], line>>

LcdLoadsLine ==
  /\ lcd.state = "IDLE" /\ lcd.queue # <<>>
  /\ lcd' = [lcd EXCEPT !.state = "PRINT_NEW_LINE",
                        !.queue = Tail(@), !.buffer = LineSet(@, Head(lcd.queue))]

\* lcd_driver_update_screen: the first call of an update writes the first row
\* and, if smooth, the first character of the second; each further call writes
\* one more, and the call that finds the row complete reports the end.
UpdateEnds == ~lcd.smooth \/ lcd.chars = LcdChars

ScreenUpdated(l) ==
  [l EXCEPT !.rows = l.buffer,
            !.chars = IF UpdateEnds THEN 0 ELSE @ + 1]

LcdPrints ==
  /\ lcd.state = "PRINT_NEW_LINE"
  /\ lcd' = [ScreenUpdated(lcd) EXCEPT
               !.state = IF ~UpdateEnds THEN @ ELSE IF lcd.second THEN "WAIT" ELSE "IDLE",
               !.second = IF UpdateEnds THEN ~@ ELSE @]

\* After every second line the display rests, unless refresh pauses are off.
LcdWaits ==
  /\ lcd.state = "WAIT"
  /\ lcd' = [lcd EXCEPT !.state = "IDLE"]

LcdTask ==
  /\ LcdSetUp \/ LcdLoadsLine \/ LcdPrints \/ LcdWaits
  /\ UNCHANGED <<keys, keypad, text, lines>>

PanelNext ==
  \/ \E k \in Key : PressKey(k) \/ ReleaseKey(k)
  \/ KeypadIdle \/ KeypadGetKeys \/ SendLines \/ LcdTask

-----------------------------------------------------------------------------
(* Properties *)

\* The text ends up with the keys that are held, and without those that are not:
\* neither a press nor a release gets lost between the contacts, the scans and the
\* two key lists. On the way to the slots it is lost only if its own send was
\* refused; an earlier refusal does no harm once a later signal of the key got
\* through (keypad_controller_3x4.c:268-300, 310-345; signal_slot_interface.c:88-92).
TextFollowsKeys ==
  <>[](\A k \in Key : k \notin text.missed => (k \in text.shown <=> k \in keys.held))

\* The display ends up with the last two lines the fifo accepted, in their
\* order and completely printed, whatever came while it printed or rested
\* (lcd_controller_16x2.c:312-337, 384-460).
AcceptedLinesAppear ==
  <>[](lcd.queue = <<>> /\ lcd.chars = 0 /\ lcd.rows = lines)
=============================================================================
