------------------------------ MODULE Keyboard ------------------------------
(***************************************************************************)
(* The keyboard driver (arch/x86/keyboard.c): keys go down and up, the     *)
(* controller sends one or two bytes for each, the interrupt handler takes *)
(* one byte at a time and calls the terminal's callback for a press.       *)
(*                                                                         *)
(* A byte is [code, release]; the prefix of an extended key is a byte of   *)
(* its own, so a key is known only two interrupts later.  Characters are   *)
(* their ASCII numbers.                                                    *)
(***************************************************************************)
EXTENDS Integers, Sequences, FiniteSets

CONSTANTS
  Keys,         \* the keys of the keyboard, a subset of DOMAIN Key
  MaxHeld,      \* bound on the keys that are down together
  MaxPending    \* bound on the bytes that wait in the controller

(* The keys: their byte, whether it comes after the prefix, what they      *)
(* are.  Home stands for the extended keys the driver does not know, Pad8  *)
(* for the plain key with the byte of the arrow, F1 for the function keys. *)
Key ==
  [LShift |-> [code |-> 42, ext |-> FALSE, mod |-> "shift"],
   RShift |-> [code |-> 54, ext |-> FALSE, mod |-> "shift"],
   LCtrl  |-> [code |-> 29, ext |-> FALSE, mod |-> "ctrl"],
   RCtrl  |-> [code |-> 29, ext |-> TRUE,  mod |-> "ctrl"],
   LAlt   |-> [code |-> 56, ext |-> FALSE, mod |-> "alt"],
   RAlt   |-> [code |-> 56, ext |-> TRUE,  mod |-> "alt"],
   A      |-> [code |-> 30, ext |-> FALSE, mod |-> "no"],
   Two    |-> [code |-> 3,  ext |-> FALSE, mod |-> "no"],
   F1     |-> [code |-> 59, ext |-> FALSE, mod |-> "no"],
   Pad8   |-> [code |-> 72, ext |-> FALSE, mod |-> "no"],
   Up     |-> [code |-> 72, ext |-> TRUE,  mod |-> "no"],
   Home   |-> [code |-> 71, ext |-> TRUE,  mod |-> "no"]]

ASSUME KeyboardAssumption == Keys \subseteq DOMAIN Key /\ {MaxHeld, MaxPending} \subseteq Nat

VARIABLES
  held,         \* keys that are down
  port,         \* bytes the controller has yet to deliver
  shift_pressed, ctrl_pressed, alt_pressed, extended_code,
  event,        \* the last call of the terminal's callback
  expected,     \* the call the last press of a key ought to cause
  twice         \* two keys of one modifier have been down together

flags == <<shift_pressed, ctrl_pressed, alt_pressed>>
keyboardVars == <<held, port, flags, extended_code, event, expected, twice>>

Extended == [code |-> 224, release |-> FALSE]
Bytes(k, up) ==
  (IF Key[k].ext THEN <<Extended>> ELSE <<>>) \o <<[code |-> Key[k].code, release |-> up]>>

(* SCANCODE_LOWER and SCANCODE_UPPER where keys of the model are; 0 where  *)
(* the tables have no character or end (58 entries).                       *)
SCANCODE(shifted, code) ==
  CASE code = 30 -> IF shifted THEN 65 ELSE 97       \* 'A', 'a'
    [] code = 3  -> IF shifted THEN 64 ELSE 50       \* '@', '2'
    [] OTHER     -> 0

Control(c) ==
  IF c \in 97 .. 122 THEN c - 97 + 1
  ELSE IF c \in 65 .. 90 THEN c - 65 + 1 ELSE c

Call(value, code) ==
  [value |-> value, code |-> code,
   ctrl |-> ctrl_pressed', alt |-> alt_pressed', shift |-> shift_pressed']

(* emit_key for a press, nothing for a release.                            *)
EmitIf(b, value, code) ==
  IF b.release THEN UNCHANGED event ELSE event' = Call(value, code)
-----------------------------------------------------------------------------
KeyboardInit ==
  /\ held = {}
  /\ port = <<>>
  /\ shift_pressed = FALSE /\ ctrl_pressed = FALSE /\ alt_pressed = FALSE
  /\ extended_code = FALSE
  /\ event = [value |-> 0, code |-> "none", ctrl |-> FALSE, alt |-> FALSE, shift |-> FALSE]
  /\ expected = event
  /\ twice = FALSE

Down(mod, keys) == \E k \in keys : Key[k].mod = mod

(* What keyboard.h promises for a press: the character or the code of the  *)
(* key, with the modifiers that are down.  The keys Home and Pad8 have     *)
(* neither.                                                                *)
Promise(k) ==
  LET now == held \cup {k}
      s == Down("shift", now)
      c == Down("ctrl", now)
      code == CASE k = "Up" -> "KEY_UP"
                [] k = "F1" -> "KEY_F1"
                [] Key[k].mod = "shift" -> "KEY_SHIFT"
                [] Key[k].mod = "ctrl"  -> "KEY_CTRL"
                [] Key[k].mod = "alt"   -> "KEY_ALT"
                [] OTHER -> "none"
      plain == CASE k = "A" -> IF c THEN 1 ELSE IF s THEN 65 ELSE 97
                 [] k = "Two" -> IF s THEN 64 ELSE 50
                 [] OTHER -> 0
  IN  [value |-> plain, code |-> code, ctrl |-> c, alt |-> Down("alt", now), shift |-> s]

Press(k) ==
  /\ k \in Keys \ held
  /\ Cardinality(held) < MaxHeld
  /\ Len(port) + Len(Bytes(k, FALSE)) <= MaxPending
  /\ held' = held \cup {k}
  /\ port' = port \o Bytes(k, FALSE)
  /\ expected' = IF k \in {"Home", "Pad8"} THEN expected ELSE Promise(k)
  /\ twice' = (twice \/ (Key[k].mod # "no" /\ Down(Key[k].mod, held)))
  /\ UNCHANGED <<flags, extended_code, event>>

Release(k) ==
  /\ k \in held
  /\ Len(port) + Len(Bytes(k, TRUE)) <= MaxPending
  /\ held' = held \ {k}
  /\ port' = port \o Bytes(k, TRUE)
  /\ UNCHANGED <<flags, extended_code, event, expected, twice>>

(* keyboard_interrupt_handler on one byte.                                 *)
SetModifier(b, mod) ==
  /\ shift_pressed' = IF mod = "shift" THEN ~b.release ELSE shift_pressed
  /\ ctrl_pressed' = IF mod = "ctrl" THEN ~b.release ELSE ctrl_pressed
  /\ alt_pressed' = IF mod = "alt" THEN ~b.release ELSE alt_pressed

\* Faulty variant of ExtendedByte: the prefix stays in force.
ExtendedByte_sticky(b) ==
  /\ UNCHANGED extended_code
  /\ \/ b.code = 29 /\ SetModifier(b, "ctrl") /\ EmitIf(b, 0, "KEY_CTRL")
     \/ b.code = 56 /\ SetModifier(b, "alt") /\ EmitIf(b, 0, "KEY_ALT")
     \/ b.code = 72 /\ UNCHANGED flags /\ EmitIf(b, 0, "KEY_UP")
     \/ b.code \notin {29, 56, 72} /\ UNCHANGED <<flags, event>>

ExtendedByte(b) ==
  /\ extended_code' = FALSE
  /\ \/ b.code = 29 /\ SetModifier(b, "ctrl") /\ EmitIf(b, 0, "KEY_CTRL")
     \/ b.code = 56 /\ SetModifier(b, "alt") /\ EmitIf(b, 0, "KEY_ALT")
     \/ b.code = 72 /\ UNCHANGED flags /\ EmitIf(b, 0, "KEY_UP")
     \/ b.code \notin {29, 56, 72} /\ UNCHANGED <<flags, event>>

PlainByte(b) ==
  /\ UNCHANGED extended_code
  /\ \/ b.code \in {42, 54} /\ SetModifier(b, "shift") /\ EmitIf(b, 0, "KEY_SHIFT")
     \/ b.code = 29 /\ SetModifier(b, "ctrl") /\ EmitIf(b, 0, "KEY_CTRL")
     \/ b.code = 56 /\ SetModifier(b, "alt") /\ EmitIf(b, 0, "KEY_ALT")
     \/ b.code = 59 /\ UNCHANGED flags /\ EmitIf(b, 0, "KEY_F1")
     \/ /\ b.code \notin {42, 54, 29, 56, 59}
        /\ UNCHANGED flags
        /\ LET c == SCANCODE(shift_pressed, b.code)
           IN  IF b.release \/ c = 0
               THEN UNCHANGED event
               ELSE event' = Call(IF ctrl_pressed THEN Control(c) ELSE c, "none")

keyboard_interrupt_handler ==
  /\ port # <<>>
  /\ port' = Tail(port)
  /\ \/ Head(port) = Extended /\ extended_code' = TRUE /\ UNCHANGED <<flags, event>>
     \/ Head(port) # Extended /\ extended_code /\ ExtendedByte(Head(port))
     \/ Head(port) # Extended /\ ~extended_code /\ PlainByte(Head(port))
  /\ UNCHANGED <<held, expected, twice>>

KeyboardNext ==
  \/ \E k \in Keys : Press(k)
  \/ \E k \in Keys : Release(k)
  \/ keyboard_interrupt_handler

KeyboardSpec == KeyboardInit /\ [][KeyboardNext]_keyboardVars
-----------------------------------------------------------------------------
(* Types.                                                                  *)
KeyboardTypeOK ==
  /\ held \subseteq Keys
  /\ Len(port) <= MaxPending
  /\ flags \in BOOLEAN \X BOOLEAN \X BOOLEAN
  /\ extended_code \in BOOLEAN
  /\ \A e \in {event, expected} : e.value \in 0 .. 127

(* When the controller has nothing left, the last press was answered by    *)
(* the one call keyboard.h promises, with the modifiers that were down     *)
(* when the key was pressed, however many bytes were pending then; a       *)
(* release or an unknown key never takes its place.  This holds until two  *)
(* keys of one modifier have been down together.                           *)
LastPressHeard == port = <<>> /\ ~twice => event = expected

(* The prefix holds for one byte: with no byte left it is not in force     *)
(* (extended_code).                                                        *)
PrefixConsumed == port = <<>> => ~extended_code

(* keyboard.h, "true if Ctrl is currently pressed" and so on: with nothing *)
(* left to deliver, the driver's flags are the state of the keyboard.      *)
ModifiersAsHeld ==
  port = <<>> => flags = <<Down("shift", held), Down("ctrl", held), Down("alt", held)>>

(* The same for a keyboard of which no two keys of one modifier have been  *)
(* down together.                                                          *)
SingleModifiersAsHeld == twice \/ ModifiersAsHeld

(* A modifier never sticks: with every key up and nothing left to deliver  *)
(* the flags are off, also after two keys of one modifier were held.       *)
FlagsClear == port = <<>> /\ held = {} => flags = <<FALSE, FALSE, FALSE>>

(* The driver hears what was pressed: prefix bytes end, the last key comes *)
(* out as typed, and modifiers are as held for a keyboard on which no two  *)
(* keys of one modifier are down together.                                 *)
KeyboardCorrect ==
  /\ KeyboardTypeOK
  /\ LastPressHeard
  /\ PrefixConsumed
  /\ SingleModifiersAsHeld
  /\ FlagsClear
=============================================================================
