------------------------------ MODULE Keyboard ------------------------------
(***************************************************************************)
(* kernel/kbd.c in front of the console: the keyboard's scan codes, the    *)
(* modifier state kbdgetc keeps across interrupts, and the characters it   *)
(* hands to consoleintr; the serial line (uart.c) hands over its bytes as  *)
(* they are.                                                               *)
(*                                                                         *)
(* A key is numbered as in kbd.h: 128 + code for the keys whose codes      *)
(* follow a 0xE0 byte.  Any key may repeat while it is down.               *)
(***************************************************************************)
EXTENDS Console

CONSTANTS Keys,     \* the keys that are used
          Serial    \* the characters that come over the serial line

\* Key 96 does not exist: its release would send the byte 0xE0.
ASSUME KeyboardAssumption == \A k \in Keys : k \in 1..255 /\ k % 128 # 96

VARIABLES shift,    \* kbdgetc's static variable, a set of flags
          held      \* modifier keys that are down

kbdVars == <<shift, held>>

shiftcode(k) == CASE k \in {29, 157} -> {"CTL"}
                  [] k \in {42, 54} -> {"SHIFT"}
                  [] k \in {56, 184} -> {"ALT"}
                  [] OTHER -> {}
togglecode(k) == CASE k = 58 -> {"CAPSLOCK"} [] k = 69 -> {"NUMLOCK"}
                   [] k = 70 -> {"SCROLLLOCK"} [] OTHER -> {}

\* The maps, as far as the console tells characters apart: "x" stands for
\* the ordinary ones, "hi" for those above 127, such as KEY_UP.
NoKey == {0, 29, 42, 54, 56} \union 58..70 \union 84..127
CursorKeys == {151, 200, 201, 203, 205, 207, 208, 209, 210, 211}
Letter(k) == CASE k = 46 -> "c" [] k = 24 -> "o" [] k = 38 -> "l" [] k = 17 -> "w"
               [] k = 30 -> "a" [] k = 31 -> "s" [] k = 32 -> "d" [] k = 18 -> "e"
               [] k = 19 -> "r" [] OTHER -> "x"
normalmap(k) == CASE k \in {28, 156} -> "NL"
                  [] k = 14 -> "^H"
                  [] k \in CursorKeys -> "hi"
                  [] k \in NoKey \/ (k >= 128 /\ k # 181) -> "NUL"
                  [] OTHER -> Letter(k)
shiftmap(k) == IF normalmap(k) \in {"NUL", "NL", "^H", "hi"} THEN normalmap(k) ELSE "x"
ctlmap(k) == CASE k = 22 -> "^U" [] k = 32 -> "^D" [] k = 25 -> "^P" [] k = 35 -> "^H"
               [] k \in {28, 50, 156} -> "CR"
               [] k = 36 -> "NL"
               [] k \in CursorKeys \union {53, 181} -> "hi"
               [] k \in (16..25 \union 30..38 \union 43..49) -> "x"
               [] OTHER -> "NUL"

\* charcode[shift & (CTL | SHIFT)][data], with capitals and ALT applied.
Character(s, k) ==
  LET c == IF "CTL" \in s THEN ctlmap(k)
           ELSE IF "SHIFT" \in s THEN shiftmap(k) ELSE normalmap(k)
      capital == "SHIFT" \in s
      flipped == IF "CAPSLOCK" \notin s \/ "CTL" \in s \/ c \notin {Letter(k), "x"} THEN c
                 ELSE IF capital THEN Letter(k) ELSE "x"
  IN IF "ALT" \in s
     THEN CASE flipped = "c" -> "A-c" [] flipped = "o" -> "A-o"
            [] flipped = "l" -> "A-l" [] OTHER -> flipped
     ELSE flipped

\* Mutant: a key's release does not use up the 0xE0 before it.
kbdgetc_KeepsE0(sh, b) ==
  IF b = 224 THEN [shift |-> sh \union {"E0ESC"}, c |-> "NUL"]
  ELSE IF b >= 128
  THEN LET k == IF "E0ESC" \in sh THEN b ELSE b - 128
       IN [shift |-> sh \ shiftcode(k), c |-> "NUL"]
  ELSE LET k == IF "E0ESC" \in sh THEN b + 128 ELSE b
           s == (sh \ {"E0ESC"}) \union shiftcode(k)
           t == (s \ togglecode(k)) \union (togglecode(k) \ s)
       IN [shift |-> t, c |-> Character(t, k)]

\* kbdgetc on byte b: the new shift and the character.
kbdgetc(sh, b) ==
  IF b = 224 THEN [shift |-> sh \union {"E0ESC"}, c |-> "NUL"]
  ELSE IF b >= 128
  THEN LET k == IF "E0ESC" \in sh THEN b ELSE b - 128
       IN [shift |-> sh \ (shiftcode(k) \union {"E0ESC"}), c |-> "NUL"]
  ELSE LET k == IF "E0ESC" \in sh THEN b + 128 ELSE b
           s == (sh \ {"E0ESC"}) \union shiftcode(k)
           t == (s \ togglecode(k)) \union (togglecode(k) \ s)
       IN [shift |-> t, c |-> Character(t, k)]

\* Key k goes down or up, and kbdintr takes the bytes this sends.  The 0 that
\* kbdgetc returns for 0xE0 changes nothing in consoleintr but to redraw a
\* table that the next character redraws.
kbdintr(k, down) ==
  LET first == IF k >= 128 THEN kbdgetc(shift, 224).shift ELSE shift
      got == kbdgetc(first, (k % 128) + (IF down THEN 0 ELSE 128))
  IN /\ ~down => shiftcode(k) = {} \/ k \in held
     /\ shift' = got.shift
     /\ consoleintr(got.c)
     /\ held' = IF shiftcode(k) = {} THEN held
                ELSE IF down THEN held \union {k} ELSE held \ {k}

uartintr(c) == consoleintr(c) /\ UNCHANGED kbdVars

KInit == Init /\ shift = {} /\ held = {}

KNext ==
  \/ \E k \in Keys, down \in BOOLEAN : kbdintr(k, down)
  \/ \E c \in Serial : uartintr(c)
  \/ Programs /\ UNCHANGED kbdVars

KSpec == KInit /\ [][KNext]_<<vars, kbdVars>>
               /\ WF_<<vars, kbdVars>>((\E p \in Reader : ReaderStep(p)) /\ UNCHANGED kbdVars)

\* No modifier sticks: CTL, SHIFT or ALT is set only while a key for it is
\* down, whatever order left and right keys, plain and 0xE0 ones, go down
\* and up in.  (The converse fails: releasing one of two ends both.)
NoStuckModifier == shift \ {"CAPSLOCK", "NUMLOCK", "SCROLLLOCK"}
                     \subseteq UNION {shiftcode(k) : k \in held}
=============================================================================
