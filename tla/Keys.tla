------------------------------- MODULE Keys -------------------------------
(* What handle_keypress (drivers/keyboard.c) makes of the scan codes: the     *)
(* flags of the modifier keys and the choice of a character table or a        *)
(* command.  The user presses and releases keys in any order.  A key of the   *)
(* extended set sends 0xE0 and a second code that the handler fetches in the  *)
(* same interrupt; the interrupt the second code raised may be delivered all  *)
(* the same and finds that code in the controller once more (a latched edge). *)
(* Caps lock sets the light: kbd_ack reads the controller until it finds the  *)
(* acknowledgement, and a scan code that comes before it is thrown away.      *)
EXTENDS Naturals, FiniteSets

CONSTANTS
    Printable,          \* keys with a character, c and l among them
    Extended,           \* extended keys that are no modifiers: the arrows
    MAX_HELD,           \* bound: keys that are down together
    MAX_MISSED          \* bound: modifiers that may be stuck together

Modifiers == {"l_ctrl", "r_ctrl", "l_shift", "r_shift", "l_alt", "r_alt"}
Prefixed == {"r_ctrl", "r_alt"} \cup Extended
Commands == {"enter", "bksp", "tab", "f1", "f2", "f3"}
Keys == Printable \cup Modifiers \cup Extended \cup Commands \cup {"caps"}

ASSUME KeysAssumption ==
    /\ MAX_HELD \in Nat /\ MAX_MISSED \in Nat
    /\ {"c", "l"} \subseteq Printable
    /\ Printable \cap (Modifiers \cup Extended \cup Commands \cup {"caps"}) = {}
    /\ Extended \cap (Printable \cup Modifiers \cup Commands \cup {"caps"}) = {}

VARIABLES
    held,                   \* the keys that are down
    again,                  \* <<key, isMake>> of the code that may come again,
                            \* or NoCode
    on,                     \* the modifiers whose flag is set, cntrl_l_on ...
    caps_on,
    special_key_enabled,
    did,                    \* what the last interrupt did
    missed,                 \* history: modifiers whose last code was a release
                            \* that kbd_ack threw away
    lost                    \* history: make codes that were ignored since the
                            \* last 0xE0 code, of a press or a release, MAX_LOST
                            \* at most

vars == <<held, again, on, caps_on, special_key_enabled, did, missed, lost>>

MAX_LOST == 2               \* bound: enough to tell one from more than one

Nothing == <<"nothing">>
NoCode == <<"none", FALSE>>

(* The key of the plain set that shares the second code of an extended key:   *)
(* the arrows' are the digits of the keypad.                                  *)
PlainTwin(key) ==
    CASE key = "r_ctrl" -> "l_ctrl"
      [] key = "r_alt"  -> "l_alt"
      [] OTHER          -> key

Init ==
    /\ held = {} /\ again = NoCode
    /\ on = {} /\ caps_on = FALSE /\ special_key_enabled = FALSE
    /\ did = Nothing
    /\ missed = {} /\ lost = 0

CtrlOn == on \cap {"l_ctrl", "r_ctrl"} # {}
ShiftOn == on \cap {"l_shift", "r_shift"} # {}

Table ==
    IF caps_on /\ ~ ShiftOn THEN "caps"
    ELSE IF ~ caps_on /\ ShiftOn THEN "shift" ELSE "code_to"

(* A printable key: Ctrl+L, Ctrl+C, no other combination with Ctrl, or a      *)
(* character from one of the tables.                                          *)
Character(key) ==
    IF CtrlOn
    THEN CASE key = "l" -> <<"reset_term">>
           [] key = "c" -> <<"halt">>
           [] OTHER     -> Nothing
    ELSE <<Table, key>>

(* Mutation: every key that is no character has a flag.                       *)
Pressed_Any(key) == {key} \ (Printable \cup Extended)

(* The flags a make code sets.                                                *)
Pressed(key) == {key} \cap {"l_ctrl", "l_shift", "r_shift", "l_alt"}

(* Mutation: the mark of an extended key stays set.                           *)
AfterSwallowed_Set == special_key_enabled
AfterSwallowed == FALSE

(* A make code.                                                               *)
Make(key) ==
    \/ /\ special_key_enabled
       /\ special_key_enabled' = AfterSwallowed
       /\ did' = Nothing
       /\ lost' = IF lost < MAX_LOST THEN lost + 1 ELSE lost
       /\ UNCHANGED <<on, caps_on>>
    \/ /\ ~ special_key_enabled
       /\ did' = IF key \in Printable \cup Extended THEN Character(key)
                 ELSE IF key \in Commands THEN <<key>> ELSE Nothing
       /\ on' = on \cup Pressed(key)
       /\ caps_on' = IF key = "caps" THEN ~ caps_on ELSE caps_on
       /\ UNCHANGED <<special_key_enabled, lost>>

(* Mutation: the break code of the right shift key is not known.              *)
Released_LeftOnly(key) == {key} \cap {"l_ctrl", "l_shift", "l_alt"}

(* The flags a break code clears.                                             *)
Released(key) == {key} \cap {"l_ctrl", "l_shift", "r_shift", "l_alt"}

Break(key) ==
    /\ on' = on \ Released(key)
    /\ did' = Nothing
    /\ UNCHANGED <<caps_on, special_key_enabled, lost>>

(* 0xE0 and the code behind it.                                               *)
Special(key, isMake) ==
    /\ special_key_enabled' = TRUE
    /\ lost' = 0
    /\ on' = IF key \notin {"r_ctrl", "r_alt"} THEN on
             ELSE IF isMake THEN on \cup {key} ELSE on \ {key}
    /\ did' = Nothing
    /\ UNCHANGED caps_on

-----------------------------------------------------------------------------
(* The user presses or releases a key, or a key that is held down repeats its *)
(* make code; the interrupt is handled.                                       *)
Handled(key, isMake) ==
    IF key \in Prefixed
    THEN /\ Special(key, isMake)
         /\ again' = <<PlainTwin(key), isMake>>
    ELSE /\ IF isMake THEN Make(key) ELSE Break(key)
         /\ again' = NoCode

(* kbd_led_handling waits for its acknowledgement, the keys being down or     *)
(* not: at most one press or release (a bound) is thrown away.                *)
KbdLedHandling(down) ==
    \/ held' = down /\ UNCHANGED missed
    \/ \E key \in down :
          /\ held' = down \ {key}
          /\ missed' = missed \cup ({key} \cap Modifiers)
          /\ Cardinality(missed') <= MAX_MISSED
    \/ \E key \in Keys \ down :
          /\ held' = down \cup {key}
          /\ UNCHANGED missed

Press(key) ==
    /\ Handled(key, TRUE)
    /\ IF key = "caps" /\ ~ special_key_enabled
       THEN KbdLedHandling(held \cup {key})
       ELSE held' = held \cup {key} /\ missed' = missed \ {key}
    /\ Cardinality(held') <= MAX_HELD

Release(key) ==
    /\ key \in held
    /\ held' = held \ {key}
    /\ missed' = missed \ {key}
    /\ Handled(key, FALSE)

(* The second code of the extended key just handled comes again.              *)
ComesAgain ==
    /\ again # NoCode
    /\ IF again[2] THEN Make(again[1]) ELSE Break(again[1])
    /\ again' = NoCode
    /\ UNCHANGED <<held, missed>>

Next ==
    \/ \E key \in Keys : Press(key) \/ Release(key)
    \/ ComesAgain

Spec == Init /\ [][Next]_vars

-----------------------------------------------------------------------------
(* Properties.                                                                *)

TypeOK ==
    /\ held \subseteq Keys
    /\ on \subseteq Modifiers
    /\ caps_on \in BOOLEAN /\ special_key_enabled \in BOOLEAN
    /\ again \in (Keys \X BOOLEAN) \cup {NoCode}
    /\ missed \subseteq Modifiers
    /\ lost \in 0 .. MAX_LOST
    /\ did \in {Nothing, <<"reset_term">>, <<"halt">>}
               \cup {<<c>> : c \in Commands}
               \cup ({"caps", "shift", "code_to"} \X (Printable \cup Extended))

(* A modifier flag that is set without its key being down is one whose        *)
(* release kbd_ack has read: no other order in which keys are pressed,        *)
(* released, swallowed or seen twice makes one stick, and the next press and  *)
(* release of that key put it right.                                          *)
NoStuckModifier == on \subseteq held \cup missed

(* Each 0xE0 code costs the user one other key at most, and the codes do not  *)
(* add up: between one and the next no more than one make code is ignored,    *)
(* however many came before.  The press of an arrow, every repetition while   *)
(* it is held and its release are a code each, so one stroke of it may cost   *)
(* a key while it is down and another one afterwards.                         *)
OneLostPerCode == lost <= 1
=============================================================================
