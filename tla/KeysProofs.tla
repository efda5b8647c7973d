----------------------------- MODULE KeysProofs -----------------------------
(* Theorems about Keys, for any printable and extended keys and any bounds.   *)
EXTENDS Keys, TLAPS

(* What makes NoStuckModifier and OneLostPerCode inductive: a make code that may  *)
(* come again finds the mark of its own extended key, which swallows it, and  *)
(* with the mark no key has been lost since that 0xE0 code.                   *)
MarkInv ==
    /\ again # NoCode /\ again[2] => special_key_enabled
    /\ special_key_enabled => lost = 0

KeysInv == TypeOK /\ NoStuckModifier /\ OneLostPerCode /\ MarkInv

(* What the last interrupt can have done.                                     *)
Deeds == {Nothing, <<"reset_term">>, <<"halt">>}
         \cup {<<c>> : c \in Commands}
         \cup ({"caps", "shift", "code_to"} \X (Printable \cup Extended))

LEMMA InitKeys == Init => KeysInv
<1> SUFFICES ASSUME Init PROVE KeysInv
  OBVIOUS
<1>1. held \subseteq Keys /\ on \subseteq Modifiers /\ missed \subseteq Modifiers
  BY DEF Init
<1>2. again \in (Keys \X BOOLEAN) \cup {NoCode} /\ did \in Deeds
  BY DEF Init, Deeds
<1>3. lost \in 0 .. MAX_LOST /\ lost <= 1
  BY DEF Init, MAX_LOST
<1>4. caps_on \in BOOLEAN /\ special_key_enabled \in BOOLEAN
  BY Zenon DEF Init
<1>5. on \subseteq held \cup missed /\ MarkInv
  BY DEF Init, MarkInv
<1>6. QED
  BY <1>1, <1>2, <1>3, <1>4, <1>5 DEF KeysInv, TypeOK, NoStuckModifier, OneLostPerCode, Deeds

(* A character key does one of the things that are listed.                    *)
LEMMA CharacterType ==
    ASSUME NEW key \in Printable \cup Extended
    PROVE  Character(key) \in Deeds
<1>1. Table \in {"caps", "shift", "code_to"}
  BY DEF Table
<1>2. <<Table, key>> \in Deeds
  BY <1>1 DEF Deeds
<1>3. QED
  BY <1>2, Zenon DEF Character, Deeds

(* A plain key's make code sets the flag of that key at most, and none while  *)
(* the mark of an extended key is there, which it takes away.                 *)
LEMMA MakeKeeps ==
    ASSUME KeysInv, NEW key \in Keys, Make(key)
    PROVE  /\ on' \subseteq on \cup ({key} \cap Modifiers)
           /\ special_key_enabled => on' = on
           /\ lost' \in 0 .. 1
           /\ special_key_enabled' = FALSE
           /\ caps_on' \in BOOLEAN
           /\ did' \in Deeds
<1>1. CASE special_key_enabled
  <2>1. on' = on /\ caps_on' = caps_on /\ did' = Nothing /\ special_key_enabled' = FALSE
    BY <1>1, Zenon DEF Make, AfterSwallowed
  <2>2. lost = 0 /\ lost' = IF lost < MAX_LOST THEN lost + 1 ELSE lost
    BY <1>1, Zenon DEF Make, KeysInv, MarkInv
  <2>3. lost' \in 0 .. 1
    BY <2>2 DEF MAX_LOST
  <2>4. caps_on \in BOOLEAN
    BY Zenon DEF KeysInv, TypeOK
  <2>5. QED
    BY <2>1, <2>3, <2>4, Zenon DEF Deeds
<1>2. CASE ~ special_key_enabled
  <2>1. /\ on' = on \cup Pressed(key)
        /\ caps_on' = IF key = "caps" THEN ~ caps_on ELSE caps_on
        /\ did' = IF key \in Printable \cup Extended THEN Character(key)
                  ELSE IF key \in Commands THEN <<key>> ELSE Nothing
        /\ special_key_enabled' = special_key_enabled /\ lost' = lost
    BY <1>2, Zenon DEF Make
  <2>2. Pressed(key) \subseteq {key} \cap Modifiers
    BY DEF Pressed, Modifiers
  <2>3. caps_on' \in BOOLEAN /\ special_key_enabled' = FALSE
    BY <2>1, <1>2, Zenon DEF KeysInv, TypeOK
  <2>4. did' \in Deeds
    BY <2>1, CharacterType, Zenon DEF Deeds
  <2>5. lost \in 0 .. 1
    BY DEF KeysInv, TypeOK, OneLostPerCode, MAX_LOST
  <2>6. QED
    BY <1>2, <2>1, <2>2, <2>3, <2>4, <2>5, Zenon
<1>3. QED
  BY <1>1, <1>2

(* A plain key's break code clears its flag and nothing else.                 *)
LEMMA BreakKeeps ==
    ASSUME KeysInv, NEW key \in Keys, Break(key)
    PROVE  /\ on' \subseteq on
           /\ key \notin Prefixed => key \notin on'
           /\ caps_on' = caps_on
           /\ special_key_enabled' = special_key_enabled
           /\ lost' = lost
           /\ did' = Nothing
<1>1. on' = on \ Released(key) /\ on \subseteq Modifiers
  BY Zenon DEF Break, KeysInv, TypeOK
<1>2. key \in Modifiers /\ key \notin Prefixed => key \in Released(key)
  BY DEF Modifiers, Prefixed, Released
<1>3. QED
  BY <1>1, <1>2 DEF Break

(* 0xE0 and a second code set or clear the flag of that key at most.          *)
LEMMA SpecialKeeps ==
    ASSUME KeysInv, NEW key \in Keys, NEW isMake \in BOOLEAN, Special(key, isMake)
    PROVE  /\ on' \subseteq on \cup ({key} \cap Modifiers)
           /\ key \in {"r_ctrl", "r_alt"} /\ ~ isMake => key \notin on'
           /\ ~ isMake => on' \subseteq on
           /\ special_key_enabled' = TRUE /\ lost' = 0
           /\ caps_on' = caps_on /\ did' = Nothing
<1>1. /\ special_key_enabled' = TRUE /\ lost' = 0
      /\ caps_on' = caps_on /\ did' = Nothing
  BY Zenon DEF Special
<1>2. on' = IF key \notin {"r_ctrl", "r_alt"} THEN on
            ELSE IF isMake THEN on \cup {key} ELSE on \ {key}
  BY Zenon DEF Special
<1>3. key \in {"r_ctrl", "r_alt"} => key \in Modifiers
  BY DEF Modifiers
<1>4. CASE isMake
  <2>1. on' \subseteq on \cup ({key} \cap Modifiers)
    BY <1>2, <1>3, <1>4
  <2>2. QED
    BY <1>1, <1>4, <2>1, Zenon
<1>5. CASE ~ isMake
  <2>1. /\ on' \subseteq on
        /\ key \in {"r_ctrl", "r_alt"} => key \notin on'
    BY <1>2, <1>5
  <2>2. QED
    BY <1>1, <2>1, Zenon
<1>6. QED
  BY <1>4, <1>5, Zenon

LEMMA TwinIsKey ==
    ASSUME NEW key \in Keys
    PROVE  PlainTwin(key) \in Keys
BY DEF PlainTwin, Keys, Modifiers

(* An interrupt, for a press or a release of a key: the type of what it       *)
(* changes, the mark, and which flags may be set afterwards.                  *)
LEMMA HandledKeeps ==
    ASSUME KeysInv, NEW key \in Keys, NEW isMake \in BOOLEAN, Handled(key, isMake)
    PROVE  /\ on' \subseteq on \cup ({key} \cap Modifiers)
           /\ ~ isMake => on' \subseteq on \ {key}
           /\ caps_on' \in BOOLEAN /\ special_key_enabled' \in BOOLEAN
           /\ again' \in (Keys \X BOOLEAN) \cup {NoCode}
           /\ did' \in Deeds /\ lost' \in 0 .. 1
           /\ MarkInv'
<1>0. caps_on \in BOOLEAN /\ special_key_enabled \in BOOLEAN /\ on \subseteq Modifiers
  BY Zenon DEF KeysInv, TypeOK
<1>1. CASE key \in Prefixed
  <2>1. Special(key, isMake) /\ again' = <<PlainTwin(key), isMake>>
    BY <1>1, Zenon DEF Handled
  <2>2. again' \in Keys \X BOOLEAN
    BY <2>1, TwinIsKey
  <2>3. ~ isMake => on' \subseteq on \ {key}
    <3>1. key \in Modifiers => key \in {"r_ctrl", "r_alt"}
      BY <1>1, KeysAssumption DEF Prefixed, Modifiers
    <3>2. QED
      BY <2>1, <3>1, <1>0, SpecialKeeps
  <2>4. MarkInv' /\ lost' \in 0 .. 1
    <3>1. special_key_enabled' = TRUE /\ lost' = 0
      BY <2>1, SpecialKeeps, Zenon
    <3>2. MarkInv'
      BY <3>1, Zenon DEF MarkInv
    <3>3. QED
      BY <3>1, <3>2
  <2>5. Nothing \in Deeds
    BY Zenon DEF Deeds
  <2>6. QED
    BY <1>0, <2>1, <2>2, <2>3, <2>4, <2>5, SpecialKeeps
<1>2. CASE key \notin Prefixed /\ isMake
  <2>1. Make(key) /\ again' = NoCode
    BY <1>2, Zenon DEF Handled
  <2>2. MarkInv'
    BY <2>1, MakeKeeps, Zenon DEF MarkInv
  <2>3. QED
    BY <1>2, <2>1, <2>2, MakeKeeps, Zenon
<1>3. CASE key \notin Prefixed /\ ~ isMake
  <2>1. Break(key) /\ again' = NoCode
    BY <1>3, Zenon DEF Handled
  <2>2. MarkInv'
    BY <2>1, BreakKeeps, Zenon DEF MarkInv, KeysInv
  <2>3. lost \in 0 .. 1
    BY DEF KeysInv, TypeOK, OneLostPerCode, MAX_LOST
  <2>4. Nothing \in Deeds
    BY Zenon DEF Deeds
  <2>5. on' \subseteq on \ {key}
    BY <1>3, <2>1, BreakKeeps
  <2>6. QED
    BY <1>0, <2>1, <2>2, <2>3, <2>4, <2>5, BreakKeeps, Zenon
<1>4. QED
  BY <1>1, <1>2, <1>3, Zenon

(* The wait for the acknowledgement: a modifier is down or missed afterwards  *)
(* if it was down or missed before.                                           *)
LEMMA LedKeeps ==
    ASSUME TypeOK, NEW down \in SUBSET Keys, KbdLedHandling(down)
    PROVE  /\ held' \subseteq Keys /\ missed' \subseteq Modifiers
           /\ (down \cup missed) \cap Modifiers \subseteq held' \cup missed'
BY DEF TypeOK, KbdLedHandling

LEMMA NextKeeps == KeysInv /\ [Next]_vars => KeysInv'
<1> SUFFICES ASSUME KeysInv, [Next]_vars PROVE KeysInv'
  OBVIOUS
<1> DEFINE HandledTypes ==
        /\ caps_on' \in BOOLEAN /\ special_key_enabled' \in BOOLEAN
        /\ again' \in (Keys \X BOOLEAN) \cup {NoCode}
        /\ did' \in Deeds /\ lost' \in 0 .. 1
        /\ MarkInv'
<1>1. /\ TypeOK /\ on \subseteq Modifiers /\ on \subseteq held \cup missed
      /\ held \subseteq Keys /\ missed \subseteq Modifiers
  BY Zenon DEF KeysInv, TypeOK, NoStuckModifier
<1>2. ASSUME HandledTypes, on' \subseteq Modifiers, on' \subseteq held' \cup missed',
             held' \subseteq Keys, missed' \subseteq Modifiers
      PROVE  KeysInv'
  <2>1. lost' \in 0 .. MAX_LOST /\ lost' <= 1
    BY <1>2 DEF MAX_LOST
  <2>2. QED
    BY <1>2, <2>1, Zenon DEF KeysInv, TypeOK, NoStuckModifier, OneLostPerCode, Deeds
<1>3. ASSUME NEW key \in Keys, Press(key) PROVE KeysInv'
  <2>1. Handled(key, TRUE)
    BY <1>3 DEF Press
  <2>2. HandledTypes /\ on' \subseteq on \cup ({key} \cap Modifiers)
    BY <2>1, HandledKeeps, Zenon
  <2>3. CASE key = "caps" /\ ~ special_key_enabled
    <3>1. KbdLedHandling(held \cup {key})
      BY <1>3, <2>3, Zenon DEF Press
    <3>2. /\ held' \subseteq Keys /\ missed' \subseteq Modifiers
          /\ (held \cup {key} \cup missed) \cap Modifiers \subseteq held' \cup missed'
      BY <3>1, <1>1, LedKeeps
    <3>3. QED
      BY <1>1, <1>2, <2>2, <3>2
  <2>4. CASE ~ (key = "caps" /\ ~ special_key_enabled)
    <3>1. held' = held \cup {key} /\ missed' = missed \ {key}
      BY <1>3, <2>4, Zenon DEF Press
    <3>2. QED
      BY <1>1, <1>2, <2>2, <3>1
  <2>5. QED
    BY <2>3, <2>4, Zenon
<1>4. ASSUME NEW key \in Keys, Release(key) PROVE KeysInv'
  <2>1. Handled(key, FALSE) /\ held' = held \ {key} /\ missed' = missed \ {key}
    BY <1>4, Zenon DEF Release
  <2>2. HandledTypes /\ on' \subseteq on \ {key}
    BY <2>1, HandledKeeps, Zenon
  <2>3. QED
    BY <1>1, <1>2, <2>1, <2>2
<1>5. ASSUME ComesAgain PROVE KeysInv'
  <2>1. /\ again # NoCode /\ again' = NoCode /\ held' = held /\ missed' = missed
        /\ IF again[2] THEN Make(again[1]) ELSE Break(again[1])
    BY <1>5, Zenon DEF ComesAgain
  <2>2. again \in Keys \X BOOLEAN
    BY <1>1, <2>1, Zenon DEF TypeOK
  <2>3. again[1] \in Keys
    BY <2>2
  <2>4. CASE again[2]
    <3>1. Make(again[1]) /\ special_key_enabled
      BY <2>1, <2>4, Zenon DEF KeysInv, MarkInv
    <3>2. on' = on /\ lost' \in 0 .. 1 /\ special_key_enabled' = FALSE
          /\ caps_on' \in BOOLEAN /\ did' \in Deeds
      BY <2>3, <3>1, MakeKeeps, Zenon
    <3>3. HandledTypes
      BY <2>1, <3>2, Zenon DEF MarkInv
    <3>4. QED
      BY <1>1, <1>2, <2>1, <3>2, <3>3, Zenon
  <2>5. CASE ~ again[2]
    <3>1. Break(again[1])
      BY <2>1, <2>5, Zenon
    <3>2. on' \subseteq on /\ caps_on' = caps_on /\ lost' = lost
          /\ special_key_enabled' = special_key_enabled /\ did' = Nothing
      BY <2>3, <3>1, BreakKeeps, Zenon
    <3>3. lost \in 0 .. 1
      BY DEF KeysInv, TypeOK, OneLostPerCode, MAX_LOST
    <3>4. caps_on \in BOOLEAN /\ special_key_enabled \in BOOLEAN /\ Nothing \in Deeds
      BY Zenon DEF KeysInv, TypeOK, Deeds
    <3>5. HandledTypes
      BY <2>1, <3>2, <3>3, <3>4, Zenon DEF MarkInv, KeysInv
    <3>6. QED
      BY <1>1, <1>2, <2>1, <3>2, <3>5
  <2>6. QED
    BY <2>4, <2>5, Zenon
<1>6. ASSUME UNCHANGED vars PROVE KeysInv'
  BY <1>6, Zenon DEF vars, KeysInv, TypeOK, NoStuckModifier, OneLostPerCode, MarkInv
<1>7. QED
  BY <1>3, <1>4, <1>5, <1>6, Zenon DEF Next

LEMMA KeysInvariant == Spec => []KeysInv
<1>1. Init => KeysInv
  BY InitKeys
<1>2. KeysInv /\ [Next]_vars => KeysInv'
  BY NextKeeps
<1>3. QED
  BY <1>1, <1>2, PTL DEF Spec

(* The flags, the mark and what an interrupt does are of their types, for     *)
(* every keyboard and any number of keys held together (handle_keypress).     *)
THEOREM TypeCorrect == Spec => []TypeOK
<1>1. KeysInv => TypeOK
  BY DEF KeysInv
<1>2. QED
  BY <1>1, KeysInvariant, PTL

(* A modifier flag of handle_keypress is set only while its key is down or    *)
(* its release was thrown away by kbd_ack.                                    *)
THEOREM NoStuckModifierCorrect == Spec => []NoStuckModifier
<1>1. KeysInv => NoStuckModifier
  BY DEF KeysInv
<1>2. QED
  BY <1>1, KeysInvariant, PTL

(* special_key_enabled swallows one key at most for each 0xE0 code, that of a *)
(* press and that of a release alike: the codes of an arrow do not add up.    *)
THEOREM OneLostPerCodeCorrect == Spec => []OneLostPerCode
<1>1. KeysInv => OneLostPerCode
  BY DEF KeysInv
<1>2. QED
  BY <1>1, KeysInvariant, PTL
=============================================================================
