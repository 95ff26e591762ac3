------------------------------ MODULE Keyboard ------------------------------
(***************************************************************************)
(* The keyboard: its interrupt handler in drivers/keyboard/keyboard.c, the *)
(* reads of ps2.c, and the scancodes, modifiers and characters of          *)
(* keyboard_handler.c, over the interrupts of module Interrupts.           *)
(*                                                                         *)
(* The user, the keyboard and its controller are external: each stroke is  *)
(* one or two bytes of scancode set 1, which reach the output buffer one   *)
(* at a time, with an edge on line 1 for each.  Nobody types before        *)
(* pic_init.                                                               *)
(*                                                                         *)
(* Of the tables there is an entry of each kind: a letter, a digit, keys   *)
(* on either side of an extended code, the backspace, an arrow, the        *)
(* modifiers.                                                              *)
(***************************************************************************)
EXTENDS Interrupts, Sequences, SequencesExt

CONSTANTS
  Keys,        \* the keys the user has
  MaxStrokes   \* bound: keys pressed or released

VARIABLES
  held,           \* user: the keys held down
  caps,           \* user: has Caps Lock on
  strokes,
  outgoing,       \* keyboard: the bytes not yet in the output buffer
  output_buffer,  \* controller: a byte, or 0 when it is empty
  mod,            \* the modifiers down, as update_input_state has noted them
  caps_lock,
  last_keycode,
  meant,          \* what the strokes should show on the terminal
  shown           \* what keyboard_irq has shown

userVars == <<held, caps, strokes, meant>>
inputVars == <<mod, caps_lock, last_keycode, shown>>
keyboardVars == <<userVars, outgoing, output_buffer, inputVars>>
vars == <<interruptVars, keyboardVars>>

----------------------------------------------------------------------------
(* keyboard_handler.c; Bad... as in Scheduler                              *)

Shifts == {"LSHIFT", "RSHIFT"}
Ctrls  == {"LCTRL", "RCTRL"}
Alts   == {"LALT", "RALT"}
Modifiers == Shifts \cup Ctrls \cup Alts
Letters == {"A"}

\* keycode_t
Keycodes == Modifiers \cup Letters \cup {"7", "SLASH", "CAPSLOCK", "BACKSPACE", "UP", "NONE"}

ASSUME KeyboardAssumption ==
  /\ Keys \subseteq Keycodes \ {"NONE", "RSHIFT", "LALT"}
  /\ MaxStrokes \in Nat

\* scancode_set1
Set1 == [c \in 0..127 |->
  CASE c = 30 -> "A" [] c = 8 -> "7" [] c = 53 -> "SLASH" [] c = 58 -> "CAPSLOCK"
    [] c = 14 -> "BACKSPACE"
    [] c = 42 -> "LSHIFT" [] c = 54 -> "RSHIFT" [] c = 29 -> "LCTRL" [] c = 56 -> "LALT"
    [] OTHER -> "NONE"]

\* scancode_set1_extended
Set1Extended == [c \in 0..127 |->
  CASE c = 72 -> "UP" [] c = 53 -> "SLASH" [] c = 29 -> "RCTRL" [] c = 56 -> "RALT"
    [] OTHER -> "NONE"]

\* keyboard_map_normal, keyboard_map_shift and keyboard_map_altgr; "" is no character.
Normal(k) ==
  CASE k = "A" -> "a" [] k = "7" -> "7" [] k = "SLASH" -> "-" [] k = "BACKSPACE" -> "back"
    [] OTHER -> ""
Shifted(k) ==
  CASE k = "A" -> "A" [] k = "7" -> "/" [] k = "SLASH" -> "_" [] k = "BACKSPACE" -> "back"
    [] OTHER -> ""
AltGr(k) == IF k = "7" THEN "{" ELSE ""

\* getch_ with the modifiers mods and Caps Lock on or off.
Getch(k, mods, lock) ==
  LET shift   == mods \cap Shifts # {}
      plain   == IF shift # (lock /\ k \in Letters) THEN Shifted(k) ELSE Normal(k)
      control == IF mods \cap Ctrls # {} /\ plain \in {"a", "A"} THEN "^A" ELSE plain
  IN  IF mods \cap Alts # {} /\ AltGr(k) # "" THEN AltGr(k) ELSE control

\* What keyboard_irq shows for a key pressed.
Shows(k, mods, lock) ==
  LET c == Getch(k, mods, lock)
  IN  CASE k = "UP" -> <<"cursor up">>
        [] k # "UP" /\ c = "back" -> <<"back", " ", "back">>
        [] k # "UP" /\ c \notin {"", "back"} -> <<c>>
        [] OTHER -> <<>>

BadModAfter(k, pressed) == IF pressed THEN mod \cup ({k} \cap Modifiers) ELSE mod

\* update_input_state's modifiers.
ModAfter(k, pressed) == IF pressed THEN mod \cup ({k} \cap Modifiers) ELSE mod \ {k}

\* update_input, and the rest of keyboard_irq.
UpdateInput(scancode, extended) ==
  LET pressed == scancode < 128
      k == IF extended THEN Set1Extended[scancode % 128] ELSE Set1[scancode % 128]
  IN  /\ mod' = ModAfter(k, pressed)
      /\ caps_lock' = (caps_lock # (pressed /\ k = "CAPSLOCK"))
      /\ last_keycode' = IF pressed THEN k ELSE last_keycode
      /\ shown' = IF pressed THEN shown \o Shows(k, mod', caps_lock') ELSE shown

----------------------------------------------------------------------------
(* keyboard_irq                                                            *)

Extended == 224

\* ps2_read, which waits for a byte.
Ps2Read ==
  /\ irq = KeyboardLine
  /\ output_buffer # 0
  /\ output_buffer' = 0
  /\ Drop(KeyboardLine)
  /\ UNCHANGED <<boot, irq_handlers, interrupts, irq, need_reschedule, imr, in_service,
                 userVars, outgoing>>

KeyboardIrq ==
  /\ step = "handler"
  /\ irq \in irq_handlers
  /\ Ps2Read
  /\ \/ /\ output_buffer = Extended
        /\ step' = "second"
        /\ UNCHANGED inputVars
     \/ /\ output_buffer # Extended
        /\ step' = "eoi"
        /\ UpdateInput(output_buffer, FALSE)

SecondByte ==
  /\ step = "second"
  /\ Ps2Read
  /\ step' = "eoi"
  /\ UpdateInput(output_buffer, TRUE)

----------------------------------------------------------------------------
(* The user, the keyboard and its controller                               *)

\* Scancode set 1.
Scancode(k) ==
  CASE k = "A" -> <<30>> [] k = "7" -> <<8>> [] k = "CAPSLOCK" -> <<58>>
    [] k = "BACKSPACE" -> <<14>>
    [] k = "LSHIFT" -> <<42>> [] k = "LCTRL" -> <<29>>
    [] k = "UP" -> <<Extended, 72>> [] k = "SLASH" -> <<Extended, 53>>
    [] k = "RCTRL" -> <<Extended, 29>> [] k = "RALT" -> <<Extended, 56>>

\* The last byte of a key released has bit 7 set.
Released(code) == [code EXCEPT ![Len(code)] = @ + 128]

Stroke ==
  /\ boot # "pic"
  /\ strokes < MaxStrokes
  /\ strokes' = strokes + 1
  /\ UNCHANGED <<interruptVars, output_buffer, inputVars>>

Press(k) ==
  /\ k \notin held
  /\ Stroke
  /\ held' = held \cup {k}
  /\ caps' = (caps # (k = "CAPSLOCK"))
  /\ meant' = meant \o Shows(k, held' \cap Modifiers, caps')
  /\ outgoing' = outgoing \o Scancode(k)

Release(k) ==
  /\ k \in held
  /\ Stroke
  /\ held' = held \ {k}
  /\ outgoing' = outgoing \o Released(Scancode(k))
  /\ UNCHANGED <<caps, meant>>

Send ==
  /\ outgoing # <<>>
  /\ output_buffer = 0
  /\ output_buffer' = Head(outgoing)
  /\ outgoing' = Tail(outgoing)
  /\ Raise(KeyboardLine)
  /\ UNCHANGED <<cpuVars, imr, in_service, userVars, inputVars>>

----------------------------------------------------------------------------
Init ==
  /\ InterruptsInit
  /\ held = {}
  /\ caps = FALSE
  /\ strokes = 0
  /\ outgoing = <<>>
  /\ output_buffer = 0
  /\ mod = {}
  /\ caps_lock = FALSE
  /\ last_keycode = "NONE"
  /\ meant = <<>>
  /\ shown = <<>>

Handle == KeyboardIrq \/ SecondByte

Next ==
  \/ InterruptsNext /\ UNCHANGED keyboardVars
  \/ Handle
  \/ \E k \in Keys : Press(k) \/ Release(k)
  \/ Send

Spec == Init /\ [][Next]_vars

(***************************************************************************)
(* Fairness: kmain gets to sti, handlers run to their end, tasks yield in  *)
(* the end, the CPU takes interrupts, and the keyboard sends its bytes.    *)
(***************************************************************************)
FairSpec ==
  /\ Spec
  /\ WF_vars((PicInit \/ PitInit \/ KeyboardInit \/ Sti) /\ UNCHANGED keyboardVars)
  /\ WF_vars(Dispatch /\ UNCHANGED keyboardVars)
  /\ SF_vars(step = "task" /\ Reschedule /\ step' = "none" /\ UNCHANGED keyboardVars)
  /\ WF_vars(Handle)
  /\ WF_vars(Send)
  /\ \A i \in {TimerLine, KeyboardLine} : SF_vars(Interrupt(i) /\ UNCHANGED keyboardVars)

----------------------------------------------------------------------------
(* Properties                                                              *)

TypeOK ==
  /\ InterruptsTypeOK
  /\ held \subseteq Keys
  /\ caps \in BOOLEAN
  /\ strokes \in 0..MaxStrokes
  /\ outgoing \in Seq(1..255)
  /\ output_buffer \in 0..255
  /\ mod \subseteq Modifiers
  /\ caps_lock \in BOOLEAN
  /\ last_keycode \in Keycodes

\* Every key is shown as the modifiers were when it was struck, whatever has been
\* struck since and however late its bytes are read (keyboard.c:16, :20), and the
\* state is well-formed.
ShownAsMeant == TypeOK /\ IsPrefix(shown, meant)

\* keyboard_irq has been entered for a byte already read, and waits, with interrupts
\* off, for one the user has not typed.
Spinning ==
  step = "handler" /\ irq = KeyboardLine /\ output_buffer = 0 /\ outgoing = <<>>

\* Every tick of the timer is served, unless in the end the keyboard's handler is
\* left spinning: it reads the second byte of an extended code in the interrupt of
\* the first (keyboard.c:16), and a controller that has kept the second's edge
\* interrupts again, for nothing.  No other interrupt, wait for a byte or line
\* without a handler keeps the timer from the CPU.
TimerServed ==
  \/ <>[]Spinning
  \/ [](TimerLine \in irr /\ boot = "up" => <>(step = "handler" /\ irq = TimerLine))

\* Every key is shown in the end, unless the tasks leave no time between two ticks:
\* the timer is more urgent, and its handler reschedules.
KeysAreShown ==
  []<>(step = "none" /\ TimerLine \notin irr) => [](shown # meant => <>(shown = meant))
=============================================================================
