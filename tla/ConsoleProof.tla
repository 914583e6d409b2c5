---------------------------- MODULE ConsoleProof ----------------------------
(***************************************************************************)
(* For all keys, readers, sizes of the ring, of the screen and of the      *)
(* table: no modifier sticks, the indices of the ring keep their order     *)
(* through every wrap, no reader sleeps on committed input, the ring       *)
(* implements the line queue, the text and its colours outlive the menu,   *)
(* and the menu opens on its key sequence alone and swallows keys.         *)
(***************************************************************************)
EXTENDS Keyboard, NumberFacts, SequenceTheorems

-----------------------------------------------------------------------------
(* The keyboard *)

Locks == {"CAPSLOCK", "NUMLOCK", "SCROLLLOCK"}

\* kbdgetc sees through the 0xE0 prefix: the release of key k clears the
\* flags of k and no others, and leaves no prefix behind.
LEMMA ReleaseClears ==
  ASSUME NEW k \in Keys, NEW sh,
         "E0ESC" \notin sh
  PROVE  LET first == IF k >= 128 THEN kbdgetc(sh, 224).shift ELSE sh
         IN kbdgetc(first, (k % 128) + 128).shift = sh \ shiftcode(k)
<1>1. k \in 1..255 /\ k % 128 # 96 /\ k % 128 = IF k >= 128 THEN k - 128 ELSE k
  BY KeyboardAssumption
<1>2. CASE k >= 128
  <2>1. (k % 128) + 128 = k /\ k # 224
    BY <1>1, <1>2
  <2>2. kbdgetc(sh, 224).shift = sh \cup {"E0ESC"}
    BY Zenon DEF kbdgetc
  <2>3. kbdgetc(sh \cup {"E0ESC"}, k).shift = (sh \cup {"E0ESC"}) \ (shiftcode(k) \cup {"E0ESC"})
    BY <1>1, <1>2, <2>1, Zenon DEF kbdgetc
  <2> QED BY <1>2, <2>1, <2>2, <2>3, ZenonT(60)
<1>3. CASE ~(k >= 128)
  <2>1. (k % 128) + 128 = k + 128 /\ k + 128 # 224 /\ k + 128 >= 128 /\ k + 128 - 128 = k
    BY <1>1, <1>3
  <2>2. kbdgetc(sh, k + 128).shift = sh \ (shiftcode(k) \cup {"E0ESC"})
    <3> DEFINE b == k + 128
    <3>1. b # 224 /\ b >= 128 /\ b - 128 = k
      BY <1>1, <1>3
    <3> HIDE DEF b
    <3>2. kbdgetc(sh, b) = [shift |-> sh \ (shiftcode(b - 128) \cup {"E0ESC"}), c |-> "NUL"]
      <4> DEFINE kk == IF "E0ESC" \in sh THEN b ELSE b - 128
      <4>1. kk = b - 128
        BY Zenon
      <4>2. kbdgetc(sh, b) = [shift |-> sh \ (shiftcode(kk) \cup {"E0ESC"}), c |-> "NUL"]
        BY <3>1, Zenon DEF kbdgetc
      <4> QED BY <4>1, <4>2, Zenon
    <3> QED BY <3>1, <3>2 DEF b
  <2> QED BY <1>3, <2>1, <2>2
<1> QED BY <1>2, <1>3, Zenon

\* A press sets the flags of k, and otherwise touches the locks only.
LEMMA PressSets ==
  ASSUME NEW k \in Keys, NEW sh,
         "E0ESC" \notin sh
  PROVE  LET first == IF k >= 128 THEN kbdgetc(sh, 224).shift ELSE sh
             got == kbdgetc(first, k % 128).shift
         IN got \ Locks \subseteq sh \cup shiftcode(k) /\ "E0ESC" \notin got
<1>1. k \in 1..255 /\ k % 128 = IF k >= 128 THEN k - 128 ELSE k
  BY KeyboardAssumption
<1>2. togglecode(k) \subseteq Locks /\ "E0ESC" \notin Locks /\ "E0ESC" \notin shiftcode(k)
  BY Zenon DEF togglecode, shiftcode, Locks
<1> DEFINE Set(s) == ((s \ togglecode(k)) \cup (togglecode(k) \ s))
<1>3. CASE k >= 128
  <2>1. kbdgetc(sh, 224).shift = sh \cup {"E0ESC"}
    BY Zenon DEF kbdgetc
  <2>2. (k % 128) # 224 /\ ~((k % 128) >= 128) /\ (k % 128) + 128 = k
    BY <1>1, <1>3
  <2>3. kbdgetc(sh \cup {"E0ESC"}, k % 128).shift
          = Set(((sh \cup {"E0ESC"}) \ {"E0ESC"}) \cup shiftcode(k))
    BY <2>2, ZenonT(60) DEF kbdgetc
  <2> QED BY <1>2, <1>3, <2>1, <2>3, SMTT(60)
<1>4. CASE ~(k >= 128)
  <2>1. k % 128 = k /\ k # 224
    BY <1>1, <1>4
  <2>2. kbdgetc(sh, k).shift = Set((sh \ {"E0ESC"}) \cup shiftcode(k))
    BY <1>4, <2>1, Zenon DEF kbdgetc
  <2> QED BY <1>2, <1>4, <2>1, <2>2, Zenon
<1> QED BY <1>3, <1>4, Zenon

KbdInv == "E0ESC" \notin shift /\ NoStuckModifier

\* Every press and release keeps the flags behind the keys that are down.
LEMMA KbdStep ==
  ASSUME KbdInv, NEW k \in Keys, NEW down \in BOOLEAN, kbdintr(k, down)
  PROVE  KbdInv'
<1> DEFINE first == IF k >= 128 THEN kbdgetc(shift, 224).shift ELSE shift
<1>1. NoStuckModifier /\ "E0ESC" \notin shift
  BY Zenon DEF KbdInv
<1>2. Locks = {"CAPSLOCK", "NUMLOCK", "SCROLLLOCK"}
  BY Zenon DEF Locks
<1>3. CASE down
  <2>1. shift' = kbdgetc(first, k % 128).shift
    <3>1. (k % 128) + 0 = k % 128
      BY KeyboardAssumption
    <3> QED BY <1>3, <3>1, Zenon DEF kbdintr
  <2>2. shift' \ Locks \subseteq shift \cup shiftcode(k) /\ "E0ESC" \notin shift'
    BY <1>1, <2>1, PressSets, Zenon
  <2>3. held' = IF shiftcode(k) = {} THEN held ELSE held \cup {k}
    BY <1>3, Zenon DEF kbdintr
  <2>4. \A x \in shift' \ Locks : \E h \in held' : x \in shiftcode(h)
    BY <1>1, <1>2, <2>2, <2>3 DEF NoStuckModifier
  <2> QED BY <1>2, <2>2, <2>4, Zenon DEF KbdInv, NoStuckModifier
<1>4. CASE ~down
  <2>1. shift' = kbdgetc(first, (k % 128) + 128).shift
    BY <1>4, Zenon DEF kbdintr
  <2>2. shift' = shift \ shiftcode(k)
    BY <1>1, <2>1, ReleaseClears, Zenon
  <2>3. held' = IF shiftcode(k) = {} THEN held ELSE held \ {k}
    BY <1>4, Zenon DEF kbdintr
  <2>4. \A x \in shift' \ Locks : \E h \in held' : x \in shiftcode(h)
    BY <1>1, <1>2, <2>2, <2>3 DEF NoStuckModifier
  <2> QED BY <1>1, <1>2, <2>2, <2>4, Zenon DEF KbdInv, NoStuckModifier
<1> QED BY <1>3, <1>4, Zenon

\* kbd.c: CTL, SHIFT and ALT are on only while a key for them is down, for
\* every set of keys and every order of presses and releases.
THEOREM NoModifierSticks == KSpec => []NoStuckModifier
<1>1. KInit => KbdInv
  BY Zenon DEF KInit, KbdInv, NoStuckModifier
<1>2. KbdInv /\ [KNext]_<<vars, kbdVars>> => KbdInv'
  <2> SUFFICES ASSUME KbdInv, [KNext]_<<vars, kbdVars>> PROVE KbdInv'
    BY Zenon
  <2>1. CASE UNCHANGED kbdVars
    BY <2>1, Zenon DEF KbdInv, NoStuckModifier, kbdVars
  <2>2. ASSUME NEW k \in Keys, NEW down \in BOOLEAN, kbdintr(k, down) PROVE KbdInv'
    BY <2>2, KbdStep, Zenon
  <2> QED BY <2>1, <2>2, Zenon DEF KNext, uartintr
<1>3. KbdInv => NoStuckModifier
  BY Zenon DEF KbdInv
<1> QED BY <1>1, <1>2, <1>3, PTL DEF KSpec

-----------------------------------------------------------------------------
(* The ring buffer *)

Index == 0 .. UINT - 1
Statuses == {"idle", "run", "tosleep", "sleep", "woken"}
ReaderState == [st : Statuses, n : Nat, target : Nat, killed : BOOLEAN]

RingType == r \in Index /\ w \in Index /\ e \in Index

\* Kill-line stops at a newline or at the committed input, and at the latest
\* there.
LEMMA KillCountBound ==
  ASSUME RingType
  PROVE  /\ KillCount \in 0 .. UINT /\ KillCount <= Minus(e, w)
         /\ \/ Minus(e, KillCount) = w
            \/ buf[Slot(Minus(Minus(e, KillCount), 1))] = "NL"
<1> DEFINE S == {k \in 0 .. UINT : \/ Minus(e, k) = w
                                   \/ buf[Slot(Minus(Minus(e, k), 1))] = "NL"}
<1>1. Minus(e, w) \in 0 .. UINT /\ Minus(e, Minus(e, w)) = w
  BY ConsoleAssumption DEF RingType, Index, Minus
<1>2. Minus(e, w) \in S /\ S \in SUBSET (0 .. UINT) /\ UINT \in Nat
  BY <1>1, ConsoleAssumption, Zenon
<1>3. Min(S) \in S /\ \A y \in S : Min(S) <= y
  <2> HIDE DEF S
  <2> QED BY <1>2, MinIsLeast, Zenon
<1>4. KillCount = Min(S)
  BY Zenon DEF KillCount
<1> QED BY <1>2, <1>3, <1>4, Zenon

\* Readers hold cons.lock from the start of consoleread or their return from
\* sleep until the next sleep, and they sleep on an empty queue.
ReaderInv ==
  /\ rd \in [Reader -> ReaderState]
  /\ holder \in Reader \cup {None}
  /\ \A p \in Reader : rd[p].st \in {"run", "tosleep"} <=> holder = p
  /\ \A p \in Reader : rd[p].st \in {"sleep", "tosleep"} => r = w

RingInv == RingType /\ RingOrder /\ ReaderInv

\* The ring starts empty and nobody reads.
LEMMA RingInit == Init => RingInv
<1> SUFFICES ASSUME Init PROVE RingInv
  BY Zenon
<1>1. RingType /\ RingOrder
  BY ConsoleAssumption DEF Init, RingType, RingOrder, Index, Minus
<1>2. ReaderInv
  BY ConsoleAssumption, Zenon DEF Init, ReaderInv, ReaderState, Statuses
<1> QED BY <1>1, <1>2, Zenon DEF RingInv

\* Steps that touch neither the ring nor the readers.
LEMMA RingUnchanged ==
  ASSUME RingInv, UNCHANGED <<r, w, e, rd, holder>>
  PROVE  RingInv'
BY Zenon DEF RingInv, RingType, RingOrder, ReaderInv, Minus

\* Kill-line moves e back to w at most, so the order of the indices stays.
LEMMA StepKill ==
  ASSUME RingInv, NEW c, IntrKill(c)
  PROVE  RingInv'
<1>1. UNCHANGED <<r, w, rd, holder>> /\ e' = Minus(e, KillCount)
  BY Zenon DEF IntrKill
<1>2. KillCount \in 0 .. UINT /\ KillCount <= Minus(e, w)
  BY KillCountBound, Zenon DEF RingInv
<1>3. RingType' /\ RingOrder'
  BY <1>1, <1>2, ConsoleAssumption DEF RingInv, RingType, RingOrder, Index, Minus
<1>4. ReaderInv'
  BY <1>1, Zenon DEF RingInv, ReaderInv
<1> QED BY <1>3, <1>4, Zenon DEF RingInv

\* Backspace moves e back by one, and only when e is past w.
LEMMA StepErase ==
  ASSUME RingInv, NEW c, IntrErase(c)
  PROVE  RingInv'
<1>1. UNCHANGED <<r, w, rd, holder>> /\ (e' = e \/ (e # w /\ e' = Minus(e, 1)))
  BY Zenon DEF IntrErase
<1>2. RingType' /\ RingOrder'
  BY <1>1, ConsoleAssumption DEF RingInv, RingType, RingOrder, Index, Minus
<1>3. ReaderInv'
  BY <1>1, Zenon DEF RingInv, ReaderInv
<1> QED BY <1>2, <1>3, Zenon DEF RingInv

\* A typed character moves e forward into a free slot; filling the ring, or
\* ending the line, commits and wakes every sleeper.
LEMMA StepType ==
  ASSUME RingInv, NEW c, IntrType(c)
  PROVE  RingInv'
<1>1. UNCHANGED <<r, holder>> /\ holder = None
  BY Zenon DEF IntrType, Intr
<1>2. CASE c # "NUL" /\ ~Full
  <2>1. e' = Plus(e, 1)
    BY <1>2, Zenon DEF IntrType
  <2>2. \/ w' = e' /\ rd' = WakeReaders
        \/ w' = w /\ rd' = rd /\ e' # Plus(r, INPUT_BUF)
    BY <1>2, Zenon DEF IntrType
  <2>3. RingType' /\ RingOrder'
    BY <1>1, <1>2, <2>1, <2>2, ConsoleAssumption
       DEF RingInv, RingType, RingOrder, Index, Minus, Plus, Full
  <2>4. ReaderInv'
    BY <1>1, <2>2, ConsoleAssumption DEF RingInv, ReaderInv, ReaderState, WakeReaders, Statuses
  <2> QED BY <2>3, <2>4, Zenon DEF RingInv
<1>3. CASE ~(c # "NUL" /\ ~Full)
  <2>1. UNCHANGED <<r, w, e, rd, holder>>
    BY <1>1, <1>3, Zenon DEF IntrType
  <2> QED BY <2>1, RingUnchanged, Zenon
<1> QED BY <1>2, <1>3, Zenon

\* Every case of the switch in consoleintr keeps the invariant.
LEMMA StepIntr ==
  ASSUME RingInv, NEW c, consoleintr(c)
  PROVE  RingInv'
<1>1. CASE IntrDump(c) \/ IntrAltC(c) \/ IntrAltO(c) \/ IntrAltL(c) \/ IntrMenu(c)
  <2>1. UNCHANGED <<r, w, e, rd, holder>>
    BY <1>1, Zenon DEF IntrDump, IntrAltC, IntrAltO, IntrAltL, IntrMenu, inputVars
  <2> QED BY <2>1, RingUnchanged, Zenon
<1> QED BY <1>1, StepKill, StepErase, StepType, Zenon DEF consoleintr

\* A reader that takes a character moves r forward but not past w.
LEMMA StepRead ==
  ASSUME RingInv, NEW p \in Reader, ReadChar(p)
  PROVE  RingInv'
<1>1. UNCHANGED <<w, e>> /\ r # w /\ holder = p /\ (r' = r \/ r' = Plus(r, 1))
  BY Zenon DEF ReadChar
<1>2. RingType' /\ RingOrder'
  BY <1>1, ConsoleAssumption DEF RingInv, RingType, RingOrder, Index, Minus, Plus
<1>3. rd[p].st = "run" /\ \A q \in Reader : rd[q].st \notin {"sleep", "tosleep"}
  BY <1>1, Zenon DEF RingInv, ReaderInv
<1>4. \/ rd' = [rd EXCEPT ![p] = [rd[p] EXCEPT !.n = rd[p].n - 1]] /\ holder' = p /\ rd[p].n > 1
      \/ rd' = [rd EXCEPT ![p] = Idle(p)] /\ holder' = None
  BY Zenon DEF ReadChar
<1>5. rd \in [Reader -> ReaderState]
  BY Zenon DEF RingInv, ReaderInv
<1>6. rd[p].n > 1 => /\ [rd[p] EXCEPT !.n = rd[p].n - 1] \in ReaderState
                     /\ [rd[p] EXCEPT !.n = rd[p].n - 1].st = rd[p].st
  <2> SUFFICES ASSUME NEW x \in ReaderState, x.n > 1
               PROVE  [x EXCEPT !.n = x.n - 1] \in ReaderState /\ [x EXCEPT !.n = x.n - 1].st = x.st
    BY <1>5, Zenon
  <2> QED BY DEF ReaderState
<1>7. Idle(p) \in ReaderState /\ Idle(p).st = "idle"
  <2> SUFFICES ASSUME NEW x \in ReaderState
               PROVE  LET y == [x EXCEPT !.st = "idle", !.n = 0, !.target = 0]
                      IN y \in ReaderState /\ y.st = "idle"
    BY <1>5, Zenon DEF Idle
  <2> QED BY Zenon DEF ReaderState, Statuses
<1>8. rd' \in [Reader -> ReaderState]
  BY <1>4, <1>5, <1>6, <1>7, Zenon
<1>9. ReaderInv'
  <2>1. \A q \in Reader : q # p => rd'[q] = rd[q]
    BY <1>4, <1>5, Zenon
  <2>2. \/ rd'[p].st = "run" /\ holder' = p
        \/ rd'[p].st = "idle" /\ holder' = None
    BY <1>3, <1>4, <1>5, <1>6, <1>7, Zenon
  <2> QED BY <1>1, <1>3, <1>8, <2>1, <2>2, ConsoleAssumption, Zenon DEF RingInv, ReaderInv
<1> QED BY <1>2, <1>9, Zenon DEF RingInv

\* Entering consoleread, waiting, sleeping, resuming and kill() move no index
\* and keep the lock discipline.
LEMMA StepReader ==
  ASSUME RingInv, NEW p \in Reader,
         \/ ReadWait(p) \/ ReadSleep(p) \/ ReadResume(p) \/ kill(p)
         \/ \E n \in 1 .. MaxRead : consoleread(p, n)
  PROVE  RingInv'
<1>1. UNCHANGED <<r, w, e>>
  BY Zenon DEF ReadWait, ReadSleep, ReadResume, kill, consoleread, inputVars
<1>2. RingType' /\ RingOrder'
  BY <1>1, Zenon DEF RingInv, RingType, RingOrder, Minus
<1> USE DEF RingInv, ReaderInv, Statuses
<1>3. CASE ReadWait(p)
  BY <1>1, <1>2, <1>3, ConsoleAssumption, ZenonT(60) DEF ReadWait, Idle, ReaderState
<1>4. CASE ReadSleep(p)
  BY <1>1, <1>2, <1>4, ConsoleAssumption, Zenon DEF ReadSleep, ReaderState
<1>5. CASE ReadResume(p)
  BY <1>1, <1>2, <1>5, ConsoleAssumption, Zenon DEF ReadResume, ReaderState
<1>6. CASE kill(p)
  <2>1. /\ holder' = holder
        /\ rd' = [rd EXCEPT ![p].killed = TRUE,
                            ![p].st = IF rd[p].st = "sleep" THEN "woken" ELSE rd[p].st]
    BY <1>6, Zenon DEF kill
  <2>2. rd \in [Reader -> ReaderState]
    BY Zenon
  <2>3. rd'[p] = [st |-> IF rd[p].st = "sleep" THEN "woken" ELSE rd[p].st, n |-> rd[p].n,
                  target |-> rd[p].target, killed |-> TRUE]
    BY <2>1, <2>2, Zenon DEF ReaderState
  <2>4. rd'[p] \in ReaderState
    BY <2>2, <2>3 DEF ReaderState
  <2>5. \A q \in Reader : q # p => rd'[q] = rd[q]
    BY <2>1, Zenon
  <2>6. rd' \in [Reader -> ReaderState]
    BY <2>1, <2>2, <2>4, Zenon
  <2> QED BY <1>1, <1>2, <2>1, <2>2, <2>3, <2>5, <2>6
<1>7. CASE \E n \in 1 .. MaxRead : consoleread(p, n)
  BY <1>1, <1>2, <1>7, ConsoleAssumption DEF consoleread, ReaderState
<1> QED BY <1>3, <1>4, <1>5, <1>6, <1>7, Zenon

\* Every step of the console keeps the invariant.
LEMMA RingNext ==
  ASSUME RingInv, [Next]_vars
  PROVE  RingInv'
<1>1. CASE UNCHANGED vars
  BY <1>1, RingUnchanged, Zenon DEF vars, inputVars
<1>2. ASSUME NEW c \in Key, consoleintr(c) PROVE RingInv'
  BY <1>2, StepIntr, Zenon
<1>3. ASSUME NEW c \in Out, consolewrite(c) \/ procdump(c) PROVE RingInv'
  BY <1>3, RingUnchanged, Zenon DEF consolewrite, procdump, inputVars
<1>4. ASSUME NEW p \in Reader, ReaderStep(p) \/ kill(p) PROVE RingInv'
  BY <1>4, StepRead, StepReader, Zenon DEF ReaderStep
<1>5. ASSUME NEW p \in Reader, NEW n \in 1 .. MaxRead, consoleread(p, n) PROVE RingInv'
  BY <1>5, StepReader, Zenon
<1> QED BY <1>1, <1>2, <1>3, <1>4, <1>5, Zenon DEF Next, Programs

\* kbd.c and uart.c only hand characters to consoleintr: what holds of the
\* console whatever is typed holds when a keyboard and a serial line type.
THEOREM KeyboardIsTypist == KSpec => Spec
<1>1. KInit => Init
  BY Zenon DEF KInit
<1>2. [KNext]_<<vars, kbdVars>> => [Next]_vars
  <2> SUFFICES ASSUME [KNext]_<<vars, kbdVars>> PROVE Next \/ UNCHANGED vars
    BY Zenon
  <2>1. ASSUME NEW c, consoleintr(c) PROVE Next
    <3>1. c \in Key
      BY <2>1, Zenon DEF consoleintr, IntrDump, IntrKill, IntrErase, IntrAltC, IntrAltO,
                         IntrAltL, IntrType, IntrMenu, Intr
    <3> QED BY <2>1, <3>1, Zenon DEF Next
  <2>2. ASSUME NEW k \in Keys, NEW down \in BOOLEAN, kbdintr(k, down) PROVE Next
    BY <2>1, <2>2, Zenon DEF kbdintr
  <2>3. ASSUME NEW c \in Serial, uartintr(c) PROVE Next
    BY <2>1, <2>3, Zenon DEF uartintr
  <2> QED BY <2>2, <2>3, Zenon DEF KNext, Next
<1> QED BY <1>1, <1>2, PTL DEF KSpec, Spec

\* The inductive invariant of the ring and its readers.
THEOREM RingInvariant == KSpec => []RingInv
<1>1. Spec => []RingInv
  BY RingInit, RingNext, PTL DEF Spec
<1> QED BY <1>1, KeyboardIsTypist, PTL

\* console.c: r, w and e keep their order in unsigned arithmetic through any
\* typing, erasing, killing and reading, and a full ring is all committed,
\* for every size of the ring.
THEOREM RingKeepsOrder == KSpec => []RingOrder
<1>1. RingInv => RingOrder
  BY Zenon DEF RingInv
<1> QED BY <1>1, RingInvariant, PTL

\* console.c: no reader is asleep when there is committed input, for any
\* number of readers that come, are killed or sleep at any moment.
THEOREM NoReaderMissesInput == KSpec => []SleeperHasNoInput
<1>1. RingInv => SleeperHasNoInput
  BY Zenon DEF RingInv, ReaderInv, SleeperHasNoInput
<1> QED BY <1>1, RingInvariant, PTL

-----------------------------------------------------------------------------
(* The ring implements the line queue *)

Chars == Key \cup {"NL", "NUL"}
Places == 0 .. INPUT_BUF - 1

\* n characters of a ring b, from index a on.
Text(b, a, n) == [i \in 1 .. n |-> b[Slot(Plus(a, i - 1))]]

-----------------------------------------------------------------------------
(* Arithmetic of the indices *)

\* An index modulo INPUT_BUF is a place of the ring.
LEMMA SlotInRing ==
  ASSUME NEW a \in Nat
  PROVE  Slot(a) \in Places
BY ConsoleAssumption DEF Slot, Places

\* Two indices less than INPUT_BUF apart use different slots, also when one
\* of them has wrapped: UINT is a multiple of INPUT_BUF.
LEMMA SlotsDiffer ==
  ASSUME NEW a \in Index, NEW i \in Places, NEW j \in Places, i < j
  PROVE  Slot(Plus(a, i)) # Slot(Plus(a, j))
<1> DEFINE x == Plus(a, i)
           y == Plus(a, j)
<1>1. /\ x \in Int /\ y \in Int /\ j - i \in Int /\ 0 < j - i /\ j - i < INPUT_BUF
      /\ INPUT_BUF \in Int /\ INPUT_BUF > 0 /\ UINT \in Int /\ UINT % INPUT_BUF = 0
  BY ConsoleAssumption DEF Index, Places, Plus
<1>2. y - x = j - i \/ y - x = j - i - UINT
  BY ConsoleAssumption DEF Index, Places, Plus
<1> HIDE DEF x, y
<1>3. x % INPUT_BUF # y % INPUT_BUF
  BY <1>1, <1>2, PlacesDiffer, Zenon
<1> QED BY <1>3, Zenon DEF Slot, x, y

-----------------------------------------------------------------------------
(* Stretches of the ring as sequences *)

\* A stretch of the ring is a sequence of its characters.
LEMMA TextSeq ==
  ASSUME NEW b \in [Places -> Chars], NEW a \in Index, NEW n \in Nat
  PROVE  /\ Text(b, a, n) \in Seq(Chars) /\ Len(Text(b, a, n)) = n
         /\ \A i \in 1 .. n : Text(b, a, n)[i] = b[Slot(Plus(a, i - 1))]
<1>1. \A i \in 1 .. n : b[Slot(Plus(a, i - 1))] \in Chars
  <2> SUFFICES ASSUME NEW i \in 1 .. n PROVE b[Slot(Plus(a, i - 1))] \in Chars
    BY Zenon
  <2>1. Plus(a, i - 1) \in Nat
    BY ConsoleAssumption DEF Plus, Index
  <2> QED BY <2>1, SlotInRing, Zenon
<1>2. Text(b, a, n) \in [1 .. n -> Chars]
  BY <1>1, Zenon DEF Text
<1>3. Text(b, a, n) \in Seq(Chars)
  BY <1>2, SeqDef
<1>4. Len(Text(b, a, n)) = n
  BY <1>2, <1>3, LenProperties
<1> QED BY <1>3, <1>4, Zenon DEF Text

\* Writing past a stretch does not change it, and writing right behind it
\* appends to it.
LEMMA TextAppend ==
  ASSUME NEW b \in [Places -> Chars], NEW a \in Index, NEW m \in Places,
         NEW v \in Chars, NEW c \in [Places -> Chars], c[Slot(Plus(a, m))] = v,
         \A x \in Places : x # Slot(Plus(a, m)) => c[x] = b[x]
  PROVE  /\ \A n \in 0 .. m : Text(c, a, n) = Text(b, a, n)
         /\ Text(c, a, m + 1) = Append(Text(b, a, m), v)
<1>1. \A i \in 1 .. m : c[Slot(Plus(a, i - 1))] = b[Slot(Plus(a, i - 1))]
  <2> SUFFICES ASSUME NEW i \in 1 .. m
               PROVE  c[Slot(Plus(a, i - 1))] = b[Slot(Plus(a, i - 1))]
    BY Zenon
  <2>1. i - 1 \in Places /\ i - 1 < m
    BY ConsoleAssumption DEF Places
  <2>2. Slot(Plus(a, i - 1)) # Slot(Plus(a, m))
    BY <2>1, SlotsDiffer, Zenon
  <2>3. Slot(Plus(a, i - 1)) \in Places
    BY <2>1, SlotInRing, ConsoleAssumption, SMTT(60) DEF Plus, Index, Places
  <2> QED BY <2>2, <2>3, Zenon
<1>2. m \in Nat /\ m + 1 \in Nat
  BY ConsoleAssumption DEF Places
<1>3. \A n \in 0 .. m : Text(c, a, n) = Text(b, a, n)
  BY <1>1, <1>2 DEF Text
<1>4. Text(c, a, m + 1) = Append(Text(b, a, m), v)
  <2> DEFINE s == Text(c, a, m + 1)
             q == Text(b, a, m)
             t == Append(q, v)
  <2>1. /\ s \in Seq(Chars) /\ Len(s) = m + 1
        /\ \A i \in 1 .. m + 1 : s[i] = c[Slot(Plus(a, i - 1))]
    BY <1>2, TextSeq, Zenon
  <2>2. /\ t \in Seq(Chars) /\ Len(t) = m + 1 /\ t[m + 1] = v
        /\ \A i \in 1 .. m : t[i] = b[Slot(Plus(a, i - 1))]
    <3>1. /\ q \in Seq(Chars) /\ Len(q) = m
          /\ \A i \in 1 .. m : q[i] = b[Slot(Plus(a, i - 1))]
      BY <1>2, TextSeq, Zenon
    <3> HIDE DEF q
    <3>2. /\ t \in Seq(Chars) /\ Len(t) = m + 1 /\ t[m + 1] = v
          /\ \A i \in 1 .. m : t[i] = q[i]
      BY <3>1, AppendProperties
    <3> QED BY <3>1, <3>2, Zenon
  <2> HIDE DEF s, t
  <2>3. \A i \in 1 .. m + 1 : s[i] = t[i]
    <3>1. \A i \in 1 .. m : s[i] = t[i]
      BY <1>1, <1>2, <2>1, <2>2
    <3>2. s[m + 1] = t[m + 1]
      <4>1. m + 1 \in 1 .. m + 1 /\ (m + 1) - 1 = m
        BY <1>2
      <4> QED BY <2>1, <2>2, <4>1, Zenon
    <3> QED BY <1>2, <3>1, <3>2
  <2>4. s = t
    BY <2>1, <2>2, <2>3, SeqEqual, Zenon
  <2> QED BY <2>4, Zenon DEF s, t
<1> QED BY <1>3, <1>4, Zenon

\* A stretch is the concatenation of its two halves.
LEMMA TextSplit ==
  ASSUME NEW b \in [Places -> Chars], NEW a \in Index, NEW m \in Nat, NEW n \in Nat,
         m + n <= INPUT_BUF
  PROVE  Text(b, a, m + n) = Text(b, a, m) \o Text(b, Plus(a, m), n)
<1> DEFINE s == Text(b, a, m + n)
           t == Text(b, a, m)
           u == Text(b, Plus(a, m), n)
<1>1. Plus(a, m) \in Index /\ m + n \in Nat
  BY ConsoleAssumption DEF Plus, Index
<1>2. /\ s \in Seq(Chars) /\ Len(s) = m + n
      /\ \A i \in 1 .. m + n : s[i] = b[Slot(Plus(a, i - 1))]
  BY <1>1, TextSeq, Zenon
<1>3. /\ t \in Seq(Chars) /\ Len(t) = m
      /\ \A i \in 1 .. m : t[i] = b[Slot(Plus(a, i - 1))]
  BY TextSeq, Zenon
<1>4. /\ u \in Seq(Chars) /\ Len(u) = n
      /\ \A i \in 1 .. n : u[i] = b[Slot(Plus(Plus(a, m), i - 1))]
  BY <1>1, TextSeq, Zenon
<1>5. \A i \in 1 .. n : Plus(Plus(a, m), i - 1) = Plus(a, m + i - 1)
  BY ConsoleAssumption DEF Plus, Index
<1> HIDE DEF s, t, u
<1> DEFINE v == t \o u
<1>6. /\ v \in Seq(Chars) /\ Len(v) = m + n
      /\ \A i \in 1 .. m + n : v[i] = IF i <= m THEN t[i] ELSE u[i - m]
  BY <1>3, <1>4, ConcatProperties, ZenonT(60)
<1> HIDE DEF v
<1>7. ASSUME NEW i \in 1 .. m + n PROVE s[i] = v[i]
  <2>1. CASE i <= m
    BY <2>1, <1>2, <1>3, <1>6, SMTT(60)
  <2>2. CASE ~(i <= m)
    <3>1. PICK j \in 1 .. n : j = i - m /\ m + j - 1 = i - 1
      BY <2>2
    <3>2. u[j] = b[Slot(Plus(a, m + j - 1))]
      BY <1>4, <1>5, Zenon
    <3>3. v[i] = u[j]
      BY <2>2, <3>1, <1>6, Zenon
    <3> QED BY <3>1, <3>2, <3>3, <1>2, Zenon
  <2> QED BY <2>1, <2>2, Zenon
<1>8. s = v
  BY <1>2, <1>6, <1>7, SeqEqual, Zenon
<1> QED BY <1>8, Zenon DEF s, t, u, v

\* Dropping the first or the last character of a stretch.
LEMMA TextEnds ==
  ASSUME NEW b \in [Places -> Chars], NEW a \in Index, NEW n \in Nat, n > 0, n <= INPUT_BUF
  PROVE  /\ Text(b, a, n) # << >>
         /\ Tail(Text(b, a, n)) = Text(b, Plus(a, 1), n - 1)
         /\ SubSeq(Text(b, a, n), 1, Len(Text(b, a, n)) - 1) = Text(b, a, n - 1)
<1> DEFINE s == Text(b, a, n)
           t == Text(b, Plus(a, 1), n - 1)
           u == Text(b, a, n - 1)
<1>1. Plus(a, 1) \in Index /\ n - 1 \in Nat
  BY ConsoleAssumption DEF Plus, Index
<1>2. /\ s \in Seq(Chars) /\ Len(s) = n
      /\ \A i \in 1 .. n : s[i] = b[Slot(Plus(a, i - 1))]
  BY TextSeq, Zenon
<1>3. /\ t \in Seq(Chars) /\ Len(t) = n - 1
      /\ \A i \in 1 .. n - 1 : t[i] = b[Slot(Plus(Plus(a, 1), i - 1))]
  BY <1>1, TextSeq, Zenon
<1>4. /\ u \in Seq(Chars) /\ Len(u) = n - 1
      /\ \A i \in 1 .. n - 1 : u[i] = b[Slot(Plus(a, i - 1))]
  BY <1>1, TextSeq, Zenon
<1>5. \A i \in 1 .. n - 1 : Plus(Plus(a, 1), i - 1) = Plus(a, (i + 1) - 1)
  BY ConsoleAssumption DEF Plus, Index
<1> HIDE DEF s, t, u
<1>6. s # << >>
  BY <1>2, EmptySeq
<1>7. Tail(s) = t
  <2>1. /\ Tail(s) \in Seq(Chars) /\ Len(Tail(s)) = n - 1
        /\ \A i \in 1 .. n - 1 : Tail(s)[i] = s[i + 1]
    BY <1>2, <1>6, HeadTailProperties, Zenon
  <2>2. \A i \in 1 .. n - 1 : Tail(s)[i] = t[i]
    BY <1>2, <1>3, <1>5, <2>1
  <2> QED BY <1>3, <2>1, <2>2, SeqEqual, Zenon
<1>8. SubSeq(s, 1, n - 1) = u
  <2>1. \A i \in 1 .. n - 1 : s[i] \in Chars
    BY <1>2, ElementOfSeq
  <2>2. /\ SubSeq(s, 1, n - 1) \in Seq(Chars) /\ Len(SubSeq(s, 1, n - 1)) = n - 1
        /\ \A i \in 1 .. n - 1 : SubSeq(s, 1, n - 1)[i] = s[i]
    BY <2>1, SubSeqProperties
  <2>3. \A i \in 1 .. n - 1 : s[i] = u[i]
    <3>1. \A i \in 1 .. n - 1 : i \in 1 .. n
      OBVIOUS
    <3> QED BY <1>2, <1>4, <3>1, Zenon
  <2> QED BY <1>4, <2>2, <2>3, SeqEqual, Zenon
<1> QED BY <1>2, <1>6, <1>7, <1>8, Zenon DEF s, t, u

-----------------------------------------------------------------------------
(* The refinement *)

\* The line under edition holds no newline, so kill-line erases all of it.
LineInv ==
  /\ buf \in [Places -> Chars]
  /\ \A k \in 0 .. Minus(e, w) - 1 : buf[Slot(Plus(w, k))] # "NL"

\* What RingOrder says of the two stretches: m committed characters and n
\* behind them.
LEMMA Stretches ==
  ASSUME RingType, RingOrder
  PROVE  /\ Minus(w, r) \in Nat /\ Minus(e, w) \in Nat
         /\ Minus(e, r) = Minus(w, r) + Minus(e, w) /\ Minus(e, r) <= INPUT_BUF
         /\ Plus(r, Minus(w, r)) = w /\ Plus(w, Minus(e, w)) = e
         /\ Plus(r, Minus(e, r)) = e
BY ConsoleAssumption DEF RingType, RingOrder, Index, Minus, Plus

\* The refinement mapping in terms of Text, before and after a step.
LEMMA BetweenIsText ==
  /\ Between(r, w) = Text(buf, r, Minus(w, r)) /\ Between(w, e) = Text(buf, w, Minus(e, w))
  /\ Between(r, w)' = Text(buf', r', Minus(w', r'))
  /\ Between(w, e)' = Text(buf', w', Minus(e', w'))
BY Zenon DEF Between, Text, Minus, Plus, Slot

\* An empty stretch.
LEMMA TextEmpty ==
  ASSUME NEW b, NEW a
  PROVE  Text(b, a, 0) = << >>
BY DEF Text

\* So kill-line goes back exactly to w.
LEMMA KillsWholeLine ==
  ASSUME RingInv, LineInv
  PROVE  KillCount = Minus(e, w)
<1> DEFINE k == KillCount
<1>1. /\ k \in 0 .. UINT /\ k <= Minus(e, w)
      /\ Minus(e, k) = w \/ buf[Slot(Minus(Minus(e, k), 1))] = "NL"
  BY KillCountBound, Zenon DEF RingInv
<1> HIDE DEF k
<1>2. SUFFICES ASSUME k < Minus(e, w) PROVE FALSE
  BY <1>1, ConsoleAssumption DEF k, RingInv, RingType, Index, Minus
<1>3. Minus(e, k) # w
  BY <1>1, <1>2, ConsoleAssumption DEF RingInv, RingType, Index, Minus
<1>4. PICK j \in 0 .. Minus(e, w) - 1 : j = Minus(e, w) - k - 1
  BY <1>1, <1>2, ConsoleAssumption DEF RingInv, RingType, Index, Minus
<1>5. Minus(Minus(e, k), 1) = Plus(w, j)
  BY <1>1, <1>2, <1>4, ConsoleAssumption DEF RingInv, RingType, Index, Minus, Plus
<1> QED BY <1>1, <1>3, <1>5, Zenon DEF LineInv

\* A typed character is appended to the line, which is committed with it when
\* it ends the line or fills the ring.
LEMMA TypeRefines ==
  ASSUME RingInv, LineInv, NEW c, IntrType(c)
  PROVE  LineInv' /\ (LQ!LQNext \/ UNCHANGED LQ!lqVars)
<1> DEFINE ch == IF c = "CR" THEN "NL" ELSE c
           m == Minus(w, r)
           n == Minus(e, w)
<1>1. c \in Key /\ r' = r
  BY Zenon DEF IntrType, Intr
<1>2. CASE ~(c # "NUL" /\ ~Full)
  <2>1. UNCHANGED <<buf, r, w, e>>
    BY <1>1, <1>2, Zenon DEF IntrType
  <2> QED BY <2>1, Zenon DEF LineInv, Minus, Plus, Slot, Between, LQ!lqVars
<1>3. CASE c # "NUL" /\ ~Full
  <2>1. /\ buf' = [buf EXCEPT ![Slot(e)] = ch] /\ e' = Plus(e, 1)
        /\ IF ch \in {"NL", "^D"} \/ e' = Plus(r, INPUT_BUF) THEN w' = e' ELSE w' = w
    BY <1>3, Zenon DEF IntrType
  <2>2. ch \in Chars /\ ch \in Key \cup {"NL"}
    BY <1>1, Zenon DEF Chars
  <2> HIDE DEF ch
  <2>3. /\ m \in Nat /\ n \in Nat /\ Minus(e, r) = m + n /\ m + n < INPUT_BUF
        /\ Plus(r, m) = w /\ Plus(w, n) = e /\ Plus(r, m + n) = e
        /\ r \in Index /\ w \in Index /\ e \in Index
    BY <1>3, Stretches, ConsoleAssumption DEF RingInv, RingType, Full
  <2>4. buf \in [Places -> Chars] /\ buf' \in [Places -> Chars]
    <3>1. buf \in [Places -> Chars]
      BY Zenon DEF LineInv
    <3> QED BY <2>1, <2>2, <3>1, Zenon
  <2>5. /\ Minus(e', r) = m + n + 1 /\ Minus(e', w) = n + 1 /\ Minus(e', e') = 0
        /\ (e' = Plus(r, INPUT_BUF)) = (m + n + 1 = INPUT_BUF)
    BY <2>1, <2>3, ConsoleAssumption DEF Index, Minus, Plus
  <2> HIDE DEF m, n
  <2>6. m + n \in Places /\ n \in Places
    BY <2>3, ConsoleAssumption DEF Places
  <2>7. buf'[Slot(e)] = ch /\ \A x \in Places : x # Slot(e) => buf'[x] = buf[x]
    BY <2>1, <2>3, <2>4, SlotInRing DEF Index
  <2>8. Text(buf', w, n + 1) = Append(Text(buf, w, n), ch)
    BY <2>2, <2>3, <2>4, <2>6, <2>7, TextAppend
  <2>9. Text(buf', r, m) = Text(buf, r, m)
    <3>1. m \in 0 .. m + n
      BY <2>3
    <3> QED BY <2>2, <2>3, <2>4, <2>6, <2>7, <3>1, TextAppend
  <2>10. Text(buf', r, m + (n + 1)) = Text(buf, r, m) \o Append(Text(buf, w, n), ch)
    <3>1. n + 1 \in Nat /\ m + (n + 1) <= INPUT_BUF
      BY <2>3, ConsoleAssumption
    <3>2. Text(buf', r, m + (n + 1)) = Text(buf', r, m) \o Text(buf', Plus(r, m), n + 1)
      BY <2>3, <2>4, <3>1, TextSplit, Zenon
    <3> QED BY <2>3, <2>8, <2>9, <3>2, Zenon
  <2>11. Len(Text(buf, r, m)) = m /\ Len(Text(buf, w, n)) = n
    BY <2>3, <2>4, TextSeq, Zenon
  <2>12. Between(r, w) = Text(buf, r, m) /\ Between(w, e) = Text(buf, w, n)
    BY BetweenIsText, Zenon DEF m, n
  <2>13. CASE ch \in {"NL", "^D"} \/ m + n + 1 = INPUT_BUF
    <3>1. w' = e'
      BY <2>1, <2>5, <2>13, Zenon
    <3>2. Minus(w', r') = m + (n + 1) /\ Minus(e', w') = 0
      BY <1>1, <2>3, <2>5, <3>1
    <3>3. Between(w, e)' = << >> /\ Between(r, w)' = Between(r, w) \o Append(Between(w, e), ch)
      BY <1>1, <2>10, <2>12, <3>2, BetweenIsText, TextEmpty, Zenon
    <3>4. LQ!Type(ch)
      BY <2>3, <2>11, <2>12, <2>13, <3>3, Zenon DEF LQ!Type
    <3>5. LineInv'
      BY <2>4, <3>2 DEF LineInv
    <3> QED BY <2>2, <3>4, <3>5, Zenon DEF LQ!LQNext
  <2>14. CASE ~(ch \in {"NL", "^D"} \/ m + n + 1 = INPUT_BUF)
    <3>1. w' = w
      BY <2>1, <2>5, <2>14, Zenon
    <3>2. Minus(w', r') = m /\ Minus(e', w') = n + 1
      BY <1>1, <2>5, <3>1, Zenon DEF m
    <3>3. Between(w, e)' = Append(Between(w, e), ch) /\ Between(r, w)' = Between(r, w)
      BY <1>1, <2>8, <2>9, <2>12, <3>1, <3>2, BetweenIsText, Zenon
    <3>4. LQ!Type(ch)
      BY <2>3, <2>11, <2>12, <2>14, <3>3, Zenon DEF LQ!Type
    <3>5. \A k \in 0 .. n : buf'[Slot(Plus(w, k))] # "NL"
      <4> SUFFICES ASSUME NEW k \in 0 .. n PROVE buf'[Slot(Plus(w, k))] # "NL"
        BY Zenon
      <4>1. Slot(e) \in Places
        BY <2>3, SlotInRing DEF Index
      <4>2. CASE k = n
        BY <2>1, <2>3, <2>4, <2>14, <4>1, <4>2, Zenon
      <4>3. CASE k < n
        <5>1. k \in Places
          BY <2>3, <4>3, ConsoleAssumption DEF Places
        <5>2. Slot(Plus(w, k)) # Slot(e)
          BY <2>3, <2>6, <4>3, <5>1, SlotsDiffer, Zenon
        <5>3. k \in 0 .. Minus(e, w) - 1
          BY <2>3, <4>3 DEF n
        <5> QED BY <2>1, <2>4, <5>2, <5>3 DEF LineInv
      <4> QED BY <2>3, <4>2, <4>3
    <3>6. LineInv'
      <4>1. \A k \in 0 .. Minus(e', w') - 1 : k \in 0 .. n
        BY <2>3, <3>2
      <4> QED BY <2>4, <3>1, <3>5, <4>1, Zenon DEF LineInv, Plus, Slot
    <3> QED BY <2>2, <3>4, <3>6, Zenon DEF LQ!LQNext
  <2> QED BY <2>13, <2>14, Zenon
<1> QED BY <1>2, <1>3, Zenon

\* Backspace and kill-line take away the end of the line, or all of it.
LEMMA EditRefines ==
  ASSUME RingInv, LineInv, NEW c, IntrErase(c) \/ IntrKill(c)
  PROVE  LineInv' /\ (LQ!LQNext \/ UNCHANGED LQ!lqVars)
<1>1. UNCHANGED <<buf, r, w>>
  BY Zenon DEF IntrErase, IntrKill
<1>2. r \in Index /\ w \in Index /\ e \in Index /\ buf \in [Places -> Chars]
  BY Zenon DEF RingInv, RingType, LineInv
<1>3. Between(r, w)' = Between(r, w)
  BY <1>1, BetweenIsText, Zenon
<1>4. ASSUME e' \in Index, Minus(e', w) <= Minus(e, w) PROVE LineInv'
  <2>1. Minus(e', w') = Minus(e', w) /\ Minus(e', w) \in Int /\ Minus(e, w) \in Int
    BY <1>1, <1>2, <1>4, ConsoleAssumption DEF Minus, Index
  <2>2. \A k \in 0 .. Minus(e', w') - 1 : k \in 0 .. Minus(e, w) - 1
    BY <1>4, <2>1
  <2> QED BY <1>1, <2>2, Zenon DEF LineInv, Plus, Slot
<1>5. CASE IntrErase(c)
  <2>1. CASE e' = e
    BY <1>1, <2>1, Zenon DEF LineInv, Between, Minus, Plus, Slot, LQ!lqVars
  <2>2. CASE e' # e
    <3>1. e # w /\ e' = Minus(e, 1)
      BY <1>5, <2>2, Zenon DEF IntrErase
    <3>2. /\ e' \in Index /\ Minus(e', w) = Minus(e, w) - 1
          /\ Minus(e, w) > 0 /\ Minus(e, w) \in Nat /\ Minus(e, w) <= INPUT_BUF
      BY <1>2, <3>1, ConsoleAssumption DEF Index, Minus, RingInv, RingOrder
    <3>3. LQ!Erase
      BY <1>1, <1>2, <1>3, <3>2, TextEnds, BetweenIsText DEF LQ!Erase
    <3>4. Minus(e', w) <= Minus(e, w)
      BY <3>2
    <3> QED BY <1>4, <3>2, <3>3, <3>4, Zenon DEF LQ!LQNext
  <2> QED BY <2>1, <2>2, Zenon
<1>6. CASE IntrKill(c)
  <2>1. e' = Minus(e, Minus(e, w))
    BY <1>6, KillsWholeLine, Zenon DEF IntrKill
  <2>2. e' = w
    BY <1>2, <2>1, ConsoleAssumption DEF Index, Minus
  <2>3. Minus(e', w) = 0 /\ Minus(e', w) <= Minus(e, w)
    BY <1>2, <2>2, ConsoleAssumption DEF Index, Minus
  <2>4. LQ!KillLine
    BY <1>1, <1>3, <2>3, BetweenIsText, TextEmpty, Zenon DEF LQ!KillLine
  <2> QED BY <1>2, <1>4, <2>2, <2>3, <2>4, Zenon DEF LQ!LQNext
<1> QED BY <1>5, <1>6, Zenon

\* A reader takes the first committed character, or leaves it (a ^D).
LEMMA ReadRefines ==
  ASSUME RingInv, LineInv, NEW p \in Reader, ReadChar(p)
  PROVE  LineInv' /\ (LQ!LQNext \/ UNCHANGED LQ!lqVars)
<1>1. UNCHANGED <<buf, w, e>> /\ r # w /\ (r' = r \/ r' = Plus(r, 1))
  BY Zenon DEF ReadChar
<1>2. r \in Index /\ w \in Index /\ e \in Index /\ buf \in [Places -> Chars]
  BY Zenon DEF RingInv, RingType, LineInv
<1>3. LineInv'
  BY <1>1, Zenon DEF LineInv, Minus, Plus, Slot
<1>4. Between(w, e)' = Between(w, e)
  BY <1>1, BetweenIsText, Zenon
<1>5. CASE r' = r
  BY <1>1, <1>3, <1>5, Zenon DEF Between, Minus, Plus, Slot, LQ!lqVars
<1>6. CASE r' = Plus(r, 1)
  <2>1. /\ Minus(w, r') = Minus(w, r) - 1
        /\ Minus(w, r) > 0 /\ Minus(w, r) \in Nat /\ Minus(w, r) <= INPUT_BUF
    BY <1>1, <1>2, <1>6, ConsoleAssumption DEF Index, Minus, Plus, RingInv, RingOrder
  <2>2. LQ!Read
    BY <1>1, <1>2, <1>4, <1>6, <2>1, TextEnds, BetweenIsText DEF LQ!Read
  <2> QED BY <1>3, <2>2, Zenon DEF LQ!LQNext
<1> QED BY <1>1, <1>5, <1>6, Zenon

\* Every step of the keyboard, the serial line, the handler and the programs is
\* a step of the line queue or leaves it alone.
LEMMA StepRefines ==
  ASSUME RingInv, LineInv, [KNext]_<<vars, kbdVars>>
  PROVE  LineInv' /\ [LQ!LQNext]_(LQ!lqVars)
<1>1. CASE UNCHANGED inputVars
  BY <1>1, Zenon DEF inputVars, LineInv, Between, Minus, Plus, Slot, LQ!lqVars
<1>2. ASSUME NEW c, consoleintr(c) PROVE LineInv' /\ [LQ!LQNext]_(LQ!lqVars)
  <2>1. CASE IntrDump(c) \/ IntrAltC(c) \/ IntrAltO(c) \/ IntrAltL(c) \/ IntrMenu(c)
    <3>1. UNCHANGED inputVars
      BY <2>1, Zenon DEF IntrDump, IntrAltC, IntrAltO, IntrAltL, IntrMenu
    <3> QED BY <1>1, <3>1, Zenon
  <2> QED BY <1>2, <2>1, EditRefines, TypeRefines, Zenon DEF consoleintr
<1>3. ASSUME NEW k \in Keys, NEW down \in BOOLEAN, kbdintr(k, down)
      PROVE  LineInv' /\ [LQ!LQNext]_(LQ!lqVars)
  BY <1>2, <1>3, ZenonT(60) DEF kbdintr
<1>4. ASSUME NEW c \in Serial, uartintr(c) PROVE LineInv' /\ [LQ!LQNext]_(LQ!lqVars)
  BY <1>2, <1>4, Zenon DEF uartintr
<1>5. CASE Programs
  <2>1. ASSUME NEW p \in Reader, ReadChar(p) PROVE LineInv' /\ [LQ!LQNext]_(LQ!lqVars)
    BY <2>1, ReadRefines, Zenon
  <2>2. CASE \A p \in Reader : ~ReadChar(p)
    <3>1. UNCHANGED inputVars
      BY <1>5, <2>2, Zenon DEF Programs, consolewrite, procdump, consoleread, ReaderStep,
                        ReadWait, ReadSleep, ReadResume, kill
    <3> QED BY <1>1, <3>1, Zenon
  <2> QED BY <2>1, <2>2, Zenon
<1>6. CASE UNCHANGED <<vars, kbdVars>>
  BY <1>1, <1>6, Zenon DEF vars
<1> QED BY <1>3, <1>4, <1>5, <1>6, Zenon DEF KNext

\* console.c: the ring buffer with its wrapping indices implements the line
\* queue, for every size of the ring, any number of readers and any keys:
\* what is typed is read once and in order, backspace and kill-line stop at
\* committed input, and a full ring is committed.
THEOREM RingImplementsQueue == KSpec => InputIsLineQueue
<1>1. KInit => LineInv /\ LQ!LQInit
  <2> SUFFICES ASSUME Init PROVE LineInv /\ LQ!LQInit
    BY Zenon DEF KInit
  <2>1. Minus(e, w) = 0 /\ Minus(w, r) = 0
    BY ConsoleAssumption DEF Init, Minus
  <2>2. LineInv
    BY <2>1 DEF Init, LineInv, Places, Chars
  <2>3. LQ!LQInit
    BY <2>1, BetweenIsText, TextEmpty, Zenon DEF LQ!LQInit
  <2> QED BY <2>2, <2>3, Zenon
<1>2. RingInv /\ LineInv /\ [KNext]_<<vars, kbdVars>> => LineInv' /\ [LQ!LQNext]_(LQ!lqVars)
  BY StepRefines, Zenon
<1> QED BY <1>1, <1>2, RingInvariant, PTL DEF KSpec, InputIsLineQueue, LQ!LQSpec

-----------------------------------------------------------------------------
(* The screen *)

Area == 0 .. ROWS * COLS - 1
Color == [fg : Nat, bg : Nat]
Tile == [ch : Glyph, attr : Color]
Screen == [Cells -> Tile]

\* The geometry of the screen: rows of COLS cells, a spare one at the end.
LEMMA Grid ==
  /\ COLS \in Nat /\ COLS > 0 /\ ROWS * COLS \in Nat /\ ROWS \in Nat
  /\ (ROWS - 1) * COLS = ROWS * COLS - COLS /\ ROWS * COLS - COLS \in Nat
  /\ ROWS * COLS - COLS > 0
  /\ Cells = 0 .. ROWS * COLS + COLS - 1
<1>1. COLS \in Nat /\ COLS > 0 /\ ROWS \in Nat /\ ROWS > 1
  BY GeometryAssumption
<1>2. ROWS * COLS \in Nat /\ (ROWS - 1) * COLS = ROWS * COLS - COLS
      /\ (ROWS + 1) * COLS = ROWS * COLS + COLS
  BY <1>1
<1>3. (ROWS - 1) * COLS > 0
  <2>1. ROWS - 1 \in Nat /\ ROWS - 1 > 0
    BY <1>1
  <2> QED BY <1>1, <2>1
<1> QED BY <1>1, <1>2, <1>3 DEF Cells

\* The table is on the screen.
LEMMA TableOnScreen == MenuCells \subseteq Area
<1> SUFFICES ASSUME NEW row \in 0 .. MenuRows - 1, NEW col \in MenuCol .. MenuCol + MenuWidth - 1
             PROVE  COLS * row + col \in Area
  BY DEF MenuCells
<1>1. /\ COLS \in Nat /\ row \in Nat /\ ROWS \in Nat /\ ROWS - 1 - row \in Nat
      /\ col \in Nat /\ col <= COLS - 1
  BY GeometryAssumption
<1>2. (ROWS - 1 - row) * COLS >= 0
  BY <1>1
<1>3. (ROWS - 1 - row) * COLS = ROWS * COLS - COLS - COLS * row
  BY <1>1
<1>4. COLS * row \in Nat /\ ROWS * COLS \in Nat
  BY <1>1
<1> QED BY <1>1, <1>2, <1>3, <1>4 DEF Area

\* What scrolling moves into a cell outside the table was outside it.
LEMMA TableColumns ==
  ASSUME NEW i \in Nat, i + COLS \in MenuCells
  PROVE  i \in MenuCells
<1>1. PICK row \in 0 .. MenuRows - 1, col \in MenuCol .. MenuCol + MenuWidth - 1 :
        i + COLS = COLS * row + col
  BY DEF MenuCells
<1>2. /\ COLS \in Nat /\ row \in Nat /\ col \in Nat /\ col <= COLS - 1 /\ MenuRows \in Nat
  BY GeometryAssumption
<1>3. row # 0
  <2> SUFFICES ASSUME row = 0 PROVE FALSE
    BY Zenon
  <2>1. COLS * row = 0
    BY <1>2
  <2> QED BY <1>1, <1>2, <2>1
<1>4. row - 1 \in 0 .. MenuRows - 1
  BY <1>2, <1>3
<1>5. i = COLS * (row - 1) + col
  <2>1. COLS * (row - 1) = COLS * row - COLS /\ COLS * row \in Nat
    BY <1>2
  <2> QED BY <1>1, <1>2, <2>1
<1> QED BY <1>4, <1>5 DEF MenuCells

\* The cursor's row.
LEMMA CursorRow ==
  ASSUME NEW p \in Nat
  PROVE  /\ p \div COLS >= ROWS <=> p >= ROWS * COLS
         /\ p < ROWS * COLS => p + COLS - (p % COLS) \in 0 .. ROWS * COLS
<1> DEFINE q == p \div COLS
           m == p % COLS
<1>1. COLS \in Int /\ COLS > 0 /\ ROWS \in Int /\ ROWS * COLS \in Int /\ p \in Int
  BY Grid
<1>2. p = COLS * q + m /\ q \in Int
  BY <1>1, DivMod, Zenon
<1>3. m \in 0 .. COLS - 1
  BY <1>1, ModRange, Zenon
<1> HIDE DEF q, m
<1>4. COLS * q \in Int /\ m \in Int
  BY <1>1, <1>2, <1>3
<1>5. CASE q >= ROWS
  <2>1. (q - ROWS) * COLS >= 0
    <3>1. q - ROWS \in Nat /\ COLS \in Nat
      BY <1>1, <1>2, <1>5
    <3> QED BY <3>1
  <2>2. (q - ROWS) * COLS = COLS * q - ROWS * COLS
    BY <1>1, <1>2
  <2>3. p >= ROWS * COLS
    BY <1>1, <1>2, <1>3, <1>4, <2>1, <2>2
  <2> QED BY <1>1, <1>5, <2>3 DEF q
<1>6. CASE ~(q >= ROWS)
  <2>1. (ROWS - q - 1) * COLS >= 0
    <3>1. ROWS - q - 1 \in Nat /\ COLS \in Nat
      BY <1>1, <1>2, <1>6
    <3> QED BY <3>1
  <2>2. (ROWS - q - 1) * COLS = ROWS * COLS - COLS * q - COLS
    BY <1>1, <1>2
  <2>3. COLS * q + COLS <= ROWS * COLS
    BY <1>1, <1>4, <2>1, <2>2
  <2>4. p < ROWS * COLS /\ p + COLS - m \in 0 .. ROWS * COLS
    BY <1>1, <1>2, <1>3, <1>4, <2>3
  <2> QED BY <1>1, <1>6, <2>4 DEF q, m
<1> QED BY <1>5, <1>6, Zenon

\* A cell fits colour k: the background of k, and a 7-bit character all of k.
Fits(t, k) == (t.ch # "hi" => t.attr.bg = k.bg) /\ (t.ch = "lo" => t.attr = k)

\* Outside S, screen a has the glyphs of screen b in colour k.
Agree(a, b, k, S) == \A i \in Cells \ S : a[i].ch = b[i].ch /\ Fits(a[i], k)

\* Scrolling keeps what is outside S outside S.
Columns(S) == \A i \in Cells : i + COLS \in S => i \in S

\* A tile, and a screen with one tile replaced.
LEMMA Tiles ==
  ASSUME NEW c \in Glyph, NEW k \in Color
  PROVE  /\ [ch |-> c, attr |-> k] \in Tile /\ [ch |-> c, attr |-> k].ch = c
         /\ [ch |-> c, attr |-> k].attr = k /\ Fits([ch |-> c, attr |-> k], k)
BY Zenon DEF Tile, Fits

\* The same cell of both screens is replaced by the same glyph.
LEMMA ReplaceTile ==
  ASSUME NEW a \in Screen, NEW b \in Screen, NEW k \in Color, NEW k2 \in Color, NEW S,
         Agree(a, b, k, S), NEW p \in Cells, NEW c \in Glyph
  PROVE  /\ [a EXCEPT ![p] = [ch |-> c, attr |-> k]] \in Screen
         /\ [b EXCEPT ![p] = [ch |-> c, attr |-> k2]] \in Screen
         /\ Agree([a EXCEPT ![p] = [ch |-> c, attr |-> k]],
                  [b EXCEPT ![p] = [ch |-> c, attr |-> k2]], k, S)
<1> DEFINE x == [ch |-> c, attr |-> k]
           y == [ch |-> c, attr |-> k2]
<1>1. x \in Tile /\ y \in Tile /\ x.ch = y.ch /\ Fits(x, k)
  BY Tiles, Zenon
<1> HIDE DEF x, y
<1>2. [a EXCEPT ![p] = x] \in Screen /\ [b EXCEPT ![p] = y] \in Screen
  BY <1>1, Zenon DEF Screen
<1>3. Agree([a EXCEPT ![p] = x], [b EXCEPT ![p] = y], k, S)
  BY <1>1, Zenon DEF Agree, Screen
<1> QED BY <1>2, <1>3, Zenon DEF x, y

\* Two screens with one cursor that agree.
Pair(u, v, k, S, P) ==
  \E a \in Screen, b \in Screen, p \in P :
    u = [crt |-> a, pos |-> p] /\ v = [crt |-> b, pos |-> p] /\ Agree(a, b, k, S)

Printed == {"NL", BACKSPACE, "hi", "lo"}

\* cgaputc writes the character.
LEMMA PlaceAgrees ==
  ASSUME NEW u, NEW v, NEW k \in Color, NEW k2 \in Color, NEW S, Pair(u, v, k, S, Area),
         NEW c \in Printed
  PROVE  Pair(Place(u, c, k), Place(v, c, k2), k, S, 0 .. ROWS * COLS)
<1>1. PICK a \in Screen, b \in Screen, p \in Area :
        u = [crt |-> a, pos |-> p] /\ v = [crt |-> b, pos |-> p] /\ Agree(a, b, k, S)
  BY Zenon DEF Pair
<1>2. /\ p \in Nat /\ p < ROWS * COLS /\ ROWS * COLS \in Nat /\ p \in Cells
      /\ p + COLS - (p % COLS) \in 0 .. ROWS * COLS
  BY Grid, CursorRow DEF Area
<1>3. CASE c = "NL"
  <2> DEFINE q == p + COLS - (p % COLS)
  <2>1. Place(u, c, k) = [crt |-> a, pos |-> q] /\ Place(v, c, k2) = [crt |-> b, pos |-> q]
    BY <1>1, <1>3, Zenon DEF Place, BACKSPACE
  <2> HIDE DEF q
  <2>2. q \in 0 .. ROWS * COLS
    BY <1>2, Zenon DEF q
  <2> QED BY <1>1, <2>1, <2>2, Zenon DEF Pair
<1>4. CASE c = BACKSPACE
  <2> DEFINE q == IF p > 0 THEN p - 1 ELSE p
  <2>1. Place(u, c, k) = [crt |-> a, pos |-> q] /\ Place(v, c, k2) = [crt |-> b, pos |-> q]
    BY <1>1, <1>4, Zenon DEF Place, BACKSPACE
  <2>2. q \in 0 .. ROWS * COLS
    BY <1>2
  <2> HIDE DEF q
  <2> QED BY <1>1, <2>1, <2>2, Zenon DEF Pair
<1>5. CASE c \in {"hi", "lo"}
  <2> DEFINE x == [a EXCEPT ![p] = [ch |-> c, attr |-> k]]
             y == [b EXCEPT ![p] = [ch |-> c, attr |-> k2]]
  <2>1. Place(u, c, k) = [crt |-> x, pos |-> p + 1] /\ Place(v, c, k2) = [crt |-> y, pos |-> p + 1]
    BY <1>1, <1>5, Zenon DEF Place, BACKSPACE
  <2>2. c \in Glyph
    BY <1>5, Zenon DEF Glyph
  <2>3. x \in Screen /\ y \in Screen /\ Agree(x, y, k, S)
    BY <1>1, <1>2, <2>2, ReplaceTile, Zenon
  <2>4. p + 1 \in 0 .. ROWS * COLS
    BY <1>2
  <2> HIDE DEF x, y
  <2> QED BY <2>1, <2>3, <2>4, Zenon DEF Pair
<1> QED BY <1>3, <1>4, <1>5, Zenon DEF Printed

\* The cell under the cursor becomes a blank.
LEMMA CursorAgrees ==
  ASSUME NEW u, NEW v, NEW k \in Color, NEW k2 \in Color, NEW S, Pair(u, v, k, S, Area)
  PROVE  Pair(Cursor(u, k), Cursor(v, k2), k, S, Area)
<1>1. PICK a \in Screen, b \in Screen, p \in Area :
        u = [crt |-> a, pos |-> p] /\ v = [crt |-> b, pos |-> p] /\ Agree(a, b, k, S)
  BY Zenon DEF Pair
<1> DEFINE x == [a EXCEPT ![p] = [ch |-> "sp", attr |-> k]]
           y == [b EXCEPT ![p] = [ch |-> "sp", attr |-> k2]]
<1>2. Cursor(u, k) = [crt |-> x, pos |-> p] /\ Cursor(v, k2) = [crt |-> y, pos |-> p]
  BY <1>1 DEF Cursor
<1>3. p \in Cells /\ "sp" \in Glyph
  BY Grid DEF Area, Glyph
<1>4. x \in Screen /\ y \in Screen /\ Agree(x, y, k, S)
  BY <1>1, <1>3, ReplaceTile, Zenon
<1> HIDE DEF x, y
<1> QED BY <1>2, <1>4, Zenon DEF Pair

\* One screen, scrolled: what its cells are.
LEMMA ScrollCells ==
  ASSUME NEW a \in Screen, NEW k \in Color
  PROVE  \E x \in Screen :
           /\ Scroll([crt |-> a, pos |-> ROWS * COLS], k) = [crt |-> x, pos |-> ROWS * COLS - COLS]
           /\ \A i \in Cells :
                /\ i < ROWS * COLS - COLS => i + COLS \in Cells /\ x[i] = a[i + COLS]
                /\ ROWS * COLS - COLS <= i /\ i < ROWS * COLS =>
                     x[i].ch = "nul" /\ Fits(x[i], k)
                /\ ROWS * COLS <= i => x[i] = a[i]
<1> DEFINE A == ROWS * COLS
           L == A - COLS
           nul == [ch |-> "nul", attr |-> [fg |-> 0, bg |-> 0]]
           up == [i \in Cells |-> IF L <= i /\ i < A THEN nul
                                  ELSE IF i < L THEN a[i + COLS] ELSE a[i]]
           x == IF k # DefaultColor THEN repaintLastRow(up, k) ELSE up
<1>1. /\ A \in Nat /\ L \in Nat /\ COLS \in Nat /\ COLS > 0 /\ L = A - COLS
      /\ Cells = 0 .. A + COLS - 1 /\ (ROWS - 1) * COLS = L
  BY Grid, Zenon
<1>2. Scroll([crt |-> a, pos |-> A], k) = [crt |-> x, pos |-> L]
  BY <1>1, Zenon DEF Scroll
<1>3. nul \in Tile /\ nul.ch = "nul" /\ (k = DefaultColor => Fits(nul, k))
  BY DEF Tile, Color, Glyph, Fits, DefaultColor
<1> HIDE DEF nul
<1>4. /\ up \in Screen
      /\ \A i \in Cells : /\ L <= i /\ i < A => up[i] = nul
                          /\ i < L => i + COLS \in Cells /\ up[i] = a[i + COLS]
                          /\ A <= i => up[i] = a[i]
  <2> HIDE DEF A, L
  <2>1. \A i \in Cells : i \in Nat /\ (i < L => i + COLS \in Cells) /\ (A <= i => ~(i < A) /\ ~(i < L))
                         /\ (L <= i => ~(i < L))
    BY <1>1
  <2>2. \A i \in Cells : up[i] \in Tile
    BY <1>3, <2>1, Zenon DEF Screen
  <2>3. up \in Screen
    BY <2>2, Zenon DEF Screen
  <2> QED BY <2>1, <2>3, Zenon
<1> HIDE DEF up
<1>5. CASE k = DefaultColor
  <2>1. x = up
    BY <1>5, Zenon
  <2> QED BY <1>2, <1>3, <1>4, <1>5, <2>1, Zenon
<1>6. CASE k # DefaultColor
  <2>1. x = [i \in Cells |-> IF i \in L .. A - 1 THEN [up[i] EXCEPT !.attr = k] ELSE up[i]]
    BY <1>1, <1>6, Zenon DEF repaintLastRow, Recolor
  <2>2. [nul EXCEPT !.attr = k] \in Tile /\ [nul EXCEPT !.attr = k].ch = "nul"
        /\ Fits([nul EXCEPT !.attr = k], k)
    BY <1>3, Zenon DEF Tile, Fits
  <2> DEFINE z == [nul EXCEPT !.attr = k]
  <2> HIDE DEF z, A, L
  <2>3. \A i \in Cells : (i \in L .. A - 1 <=> L <= i /\ i < A)
    BY <1>1
  <2>4. \A i \in Cells : /\ L <= i /\ i < A => x[i] = z
                         /\ ~(L <= i /\ i < A) => x[i] = up[i]
    BY <1>4, <2>1, <2>3, Zenon DEF z
  <2>5. x \in Screen
    <3>1. \A i \in Cells : x[i] \in Tile
      BY <1>4, <2>2, <2>4, Zenon DEF Screen, z
    <3> QED BY <2>1, <3>1, Zenon DEF Screen
  <2>6. \A i \in Cells : /\ (i < L => ~(L <= i /\ i < A)) /\ (A <= i => ~(L <= i /\ i < A))
    BY <1>1
  <2> HIDE DEF x
  <2> QED BY <1>2, <1>4, <2>2, <2>4, <2>5, <2>6, ZenonT(60) DEF z, A, L
<1> QED BY <1>5, <1>6, Zenon

\* Both screens are scrolled.
LEMMA ScrollAgrees ==
  ASSUME NEW a \in Screen, NEW b \in Screen, NEW k \in Color, NEW k2 \in Color, NEW S,
         Columns(S), Agree(a, b, k, S)
  PROVE  Pair(Scroll([crt |-> a, pos |-> ROWS * COLS], k),
              Scroll([crt |-> b, pos |-> ROWS * COLS], k2), k, S, Area)
<1> DEFINE L == ROWS * COLS - COLS
           A == ROWS * COLS
<1>1. PICK x \in Screen :
        /\ Scroll([crt |-> a, pos |-> A], k) = [crt |-> x, pos |-> L]
        /\ \A i \in Cells :
             /\ i < L => i + COLS \in Cells /\ x[i] = a[i + COLS]
             /\ L <= i /\ i < A => x[i].ch = "nul" /\ Fits(x[i], k)
             /\ A <= i => x[i] = a[i]
  BY ScrollCells, Zenon
<1>2. PICK y \in Screen :
        /\ Scroll([crt |-> b, pos |-> A], k2) = [crt |-> y, pos |-> L]
        /\ \A i \in Cells :
             /\ i < L => i + COLS \in Cells /\ y[i] = b[i + COLS]
             /\ L <= i /\ i < A => y[i].ch = "nul" /\ Fits(y[i], k2)
             /\ A <= i => y[i] = b[i]
  BY ScrollCells, Zenon
<1>3. A \in Nat /\ L \in Nat /\ L \in Area /\ \A i \in Cells : i \in Nat
  BY Grid DEF Area
<1> HIDE DEF A, L
<1>4. \A i \in Cells : i < L \/ (L <= i /\ i < A) \/ A <= i
  BY <1>3
<1>5. Agree(x, y, k, S)
  <2> SUFFICES ASSUME NEW i \in Cells \ S
               PROVE  x[i].ch = y[i].ch /\ Fits(x[i], k)
    BY Zenon DEF Agree
  <2>1. CASE i < L
    <3>1. i + COLS \in Cells \ S /\ x[i] = a[i + COLS] /\ y[i] = b[i + COLS]
      BY <1>1, <1>2, <2>1, Zenon DEF Columns
    <3> QED BY <3>1, Zenon DEF Agree
  <2>2. CASE L <= i /\ i < A
    BY <1>1, <1>2, <2>2, Zenon
  <2>3. CASE A <= i
    BY <1>1, <1>2, <2>3, Zenon DEF Agree
  <2> QED BY <1>4, <2>1, <2>2, <2>3, Zenon
<1>6. Pair([crt |-> x, pos |-> L], [crt |-> y, pos |-> L], k, S, Area)
  BY <1>3, <1>5, Zenon DEF Pair
<1> QED BY <1>1, <1>2, <1>6, Zenon DEF A

\* cgaputc, on two screens with the same cursor that agree outside S.
LEMMA CgaputcAgrees ==
  ASSUME NEW u, NEW v, NEW k \in Color, NEW k2 \in Color, NEW S, Columns(S),
         Pair(u, v, k, S, Area), NEW c \in Printed
  PROVE  Pair(cgaputc(u, c, k), cgaputc(v, c, k2), k, S, Area)
<1> DEFINE t == Place(u, c, k)
           t2 == Place(v, c, k2)
           m == IF t.pos \div COLS >= ROWS THEN Scroll(t, k) ELSE t
           m2 == IF t2.pos \div COLS >= ROWS THEN Scroll(t2, k2) ELSE t2
<1>1. PICK a \in Screen, b \in Screen, p \in 0 .. ROWS * COLS :
        t = [crt |-> a, pos |-> p] /\ t2 = [crt |-> b, pos |-> p] /\ Agree(a, b, k, S)
  <2>1. Pair(t, t2, k, S, 0 .. ROWS * COLS)
    BY PlaceAgrees, Zenon
  <2> QED BY <2>1, Zenon DEF Pair
<1>2. cgaputc(u, c, k) = Cursor(m, k) /\ cgaputc(v, c, k2) = Cursor(m2, k2)
  BY Zenon DEF cgaputc
<1> HIDE DEF t, t2
<1>3. p \in Nat /\ ROWS * COLS \in Nat
  BY Grid
<1>4. p \div COLS >= ROWS <=> p >= ROWS * COLS
  BY <1>3, CursorRow, Zenon
<1>5. t.pos = p /\ t2.pos = p
  BY <1>1, Zenon
<1>6. Pair(m, m2, k, S, Area)
  <2>1. CASE p \div COLS >= ROWS
    <3>1. p = ROWS * COLS
      BY <1>3, <1>4, <2>1
    <3>2. m = Scroll(t, k) /\ m2 = Scroll(t2, k2)
      BY <1>5, <2>1, Zenon
    <3> HIDE DEF m, m2
    <3> QED BY <1>1, <3>1, <3>2, ScrollAgrees, Zenon
  <2>2. CASE ~(p \div COLS >= ROWS)
    <3>1. p \in Area
      BY <1>3, <1>4, <2>2 DEF Area
    <3>2. m = t /\ m2 = t2
      BY <1>5, <2>2, Zenon
    <3> HIDE DEF m, m2
    <3> QED BY <1>1, <3>1, <3>2, Zenon DEF Pair
  <2> QED BY <2>1, <2>2, Zenon
<1> HIDE DEF m, m2
<1>7. Pair(Cursor(m, k), Cursor(m2, k2), k, S, Area)
  BY <1>6, CursorAgrees, Zenon
<1> QED BY <1>2, <1>7, Zenon

\* A loop that prints has a value after each turn.
LEMMA PutsLoop ==
  ASSUME NEW s, NEW c, NEW k, NEW n \in Nat
  PROVE  \E f : /\ Puts(s, c, k, n) = f[n] /\ f[0] = s
                /\ \A i \in 1 .. n : f[i] = cgaputc(f[i - 1], GlyphOf(c), k)
<1> DEFINE G(h, i) == IF i = 0 THEN s ELSE cgaputc(h[i - 1], GlyphOf(c), k)
           Good(m, h) == h = [i \in 0 .. m |-> G(h, i)]
           T == {m \in 0 .. n : \E h : Good(m, h)}
<1>1. 0 \in T
  <2> DEFINE h == [i \in 0 .. 0 |-> s]
  <2>1. Good(0, h)
    <3>1. \A i \in 0 .. 0 : G(h, i) = s
      OBVIOUS
    <3> HIDE DEF G
    <3> QED BY <3>1, Zenon
  <2>2. 0 \in 0 .. n
    OBVIOUS
  <2> HIDE DEF Good, h
  <2> QED BY <2>1, <2>2, Zenon
<1>2. \A i \in T : i < n => i + 1 \in T
  <2> SUFFICES ASSUME NEW m \in T, m < n PROVE m + 1 \in T
    BY Zenon
  <2>1. m \in 0 .. n /\ m + 1 \in 0 .. n
    OBVIOUS
  <2>2. PICK h : Good(m, h)
    BY Zenon
  <2> DEFINE g == [i \in 0 .. m + 1 |-> IF i <= m THEN h[i] ELSE G(h, i)]
  <2>3. \A i \in 0 .. m + 1 : g[i] = G(h, i)
    <3>1. \A i \in 0 .. m : h[i] = G(h, i)
      <4> HIDE DEF G
      <4> QED BY <2>2, Zenon
    <3> HIDE DEF G
    <3> QED BY <2>1, <3>1
  <2>4. \A i \in 0 .. m : g[i] = h[i]
    <3> HIDE DEF G
    <3> QED BY <2>1
  <2>5. \A i \in 0 .. m + 1 : G(g, i) = G(h, i)
    <3> HIDE DEF g
    <3>1. \A i \in 0 .. m + 1 : i = 0 \/ i - 1 \in 0 .. m
      BY <2>1
    <3> QED BY <2>4, <3>1, Zenon
  <2>6. g = [i \in 0 .. m + 1 |-> g[i]]
    BY Zenon
  <2>7. Good(m + 1, g)
    <3> HIDE DEF G, g
    <3>1. \A i \in 0 .. m + 1 : g[i] = G(g, i)
      BY <2>3, <2>5, Zenon
    <3> QED BY <2>6, <3>1, Zenon
  <2> HIDE DEF Good, g
  <2> QED BY <2>1, <2>7, Zenon
<1>3. n \in T
  <2> HIDE DEF T
  <2>1. T \in SUBSET (0 .. n)
    BY Zenon DEF T
  <2>2. T = 0 .. n
    BY <1>1, <1>2, <2>1, CountUp, Zenon
  <2> QED BY <2>2
<1> DEFINE f == CHOOSE h : Good(n, h)
<1>4. Good(n, f)
  <2> HIDE DEF Good
  <2> QED BY <1>3, Zenon
<1>5. Puts(s, c, k, n) = f[n]
  BY Zenon DEF Puts
<1> HIDE DEF f
<1>6. \A i \in 0 .. n : f[i] = G(f, i)
  <2> HIDE DEF G
  <2> QED BY <1>4, Zenon
<1>7. f[0] = s /\ \A i \in 1 .. n : f[i] = cgaputc(f[i - 1], GlyphOf(c), k)
  BY <1>6
<1> QED BY <1>5, <1>7, Zenon

\* Any number of characters, on two screens that agree.
LEMMA PutsAgrees ==
  ASSUME NEW u, NEW v, NEW k \in Color, NEW k2 \in Color, NEW S, Columns(S),
         Pair(u, v, k, S, Area), NEW c, NEW n \in Nat
  PROVE  Pair(Puts(u, c, k, n), Puts(v, c, k2, n), k, S, Area)
<1>1. PICK f : /\ Puts(u, c, k, n) = f[n] /\ f[0] = u
               /\ \A i \in 1 .. n : f[i] = cgaputc(f[i - 1], GlyphOf(c), k)
  BY PutsLoop
<1>2. PICK g : /\ Puts(v, c, k2, n) = g[n] /\ g[0] = v
               /\ \A i \in 1 .. n : g[i] = cgaputc(g[i - 1], GlyphOf(c), k2)
  BY PutsLoop
<1> DEFINE T == {i \in 0 .. n : Pair(f[i], g[i], k, S, Area)}
<1>3. GlyphOf(c) \in Printed
  BY Zenon DEF GlyphOf, Printed
<1>4. 0 \in T
  BY <1>1, <1>2
<1>5. \A i \in T : i < n => i + 1 \in T
  <2> SUFFICES ASSUME NEW i \in T, i < n PROVE i + 1 \in T
    BY Zenon
  <2>1. i + 1 \in 1 .. n /\ (i + 1) - 1 = i /\ i + 1 \in 0 .. n
    OBVIOUS
  <2>2. f[i + 1] = cgaputc(f[i], GlyphOf(c), k) /\ g[i + 1] = cgaputc(g[i], GlyphOf(c), k2)
    BY <1>1, <1>2, <2>1, Zenon
  <2>3. Pair(f[i], g[i], k, S, Area)
    BY Zenon
  <2>4. Pair(f[i + 1], g[i + 1], k, S, Area)
    BY <1>3, <2>2, <2>3, CgaputcAgrees, Zenon
  <2> QED BY <2>1, <2>4, Zenon
<1>6. T = 0 .. n
  <2>1. T \in SUBSET (0 .. n)
    BY Zenon
  <2> HIDE DEF T
  <2> QED BY <1>4, <1>5, <2>1, CountUp, Zenon
<1>7. n \in T
  BY <1>6
<1> QED BY <1>1, <1>2, <1>7, Zenon

-----------------------------------------------------------------------------
(* The text and its colours *)

Hidden == IF menuStatus THEN MenuCells ELSE {}

ScreenType ==
  /\ crt \in Screen /\ plain \in [Cells -> Glyph] /\ pos \in Area
  /\ menuStatus \in BOOLEAN /\ lost \in BOOLEAN
  /\ currentSelection \in 0 .. NItems - 1 /\ currentColor \in Color
  /\ backgroundBackup \in [MenuCells -> Glyph]

\* Outside the table the text is shown, in the current colour.
TextShown == \A i \in Cells \ Hidden : crt[i].ch = plain[i] /\ Fits(crt[i], currentColor)

\* What the table covers is saved, until something is printed.
TextSaved == menuStatus /\ ~lost => \A i \in MenuCells : backgroundBackup[i] = plain[i]

ScreenInv == ScreenType /\ TextShown /\ TextSaved

\* The colours of the code are colours.
LEMMA Colors == DefaultColor \in Color /\ MenuAttr \in Color /\ SelectAttr \in Color
BY Zenon DEF DefaultColor, MenuAttr, SelectAttr, Color

\* The table's cells are cells, and scrolling respects its columns.
LEMMA TableCells == MenuCells \subseteq Cells /\ Columns(Hidden)
<1>1. Area \subseteq Cells /\ \A i \in Cells : i \in Nat
  BY Grid DEF Area
<1>2. Columns(MenuCells) /\ Columns({})
  BY <1>1, TableColumns, Zenon DEF Columns
<1> QED BY <1>1, <1>2, TableOnScreen, Zenon DEF Hidden

\* The screen starts blank, in the default colour.
LEMMA ScreenInit == Init => ScreenInv
<1> SUFFICES ASSUME Init PROVE ScreenInv
  OBVIOUS
<1>1. Blank \in Tile /\ Blank.ch = "sp" /\ Fits(Blank, DefaultColor)
  BY Colors, Zenon DEF Blank, Tile, Glyph, Fits
<1>2. crt \in Screen /\ \A i \in Cells : crt[i] = Blank
  BY <1>1, Zenon DEF Init, Screen
<1>3. plain = [i \in Cells |-> crt[i].ch]
  BY Zenon DEF Init, Glyphs
<1>4. plain \in [Cells -> Glyph] /\ \A i \in Cells : plain[i] = crt[i].ch
  BY <1>1, <1>2, <1>3, Zenon DEF Glyph
<1>5. pos \in Area /\ currentSelection \in 0 .. NItems - 1
  <2>1. pos = 0 /\ currentSelection = 0
    BY Zenon DEF Init
  <2>2. 0 \in Area
    BY Grid DEF Area
  <2>3. 0 \in 0 .. NItems - 1
    BY GeometryAssumption
  <2> QED BY <2>1, <2>2, <2>3, Zenon
<1>6. menuStatus = FALSE /\ lost = FALSE /\ currentColor = DefaultColor
  BY Zenon DEF Init
<1>7. backgroundBackup \in [MenuCells -> Glyph]
  BY Zenon DEF Init, Glyph
<1>8. ScreenType
  BY <1>2, <1>4, <1>5, <1>6, <1>7, Colors, Zenon DEF ScreenType
<1> QED BY <1>1, <1>2, <1>4, <1>6, <1>8, Zenon DEF ScreenInv, TextShown, TextSaved

\* Printing any number of characters: the screen outside the table goes on
\* showing what a console without menu shows.
LEMMA PrintKeeps ==
  ASSUME ScreenInv, NEW c, NEW n \in Nat, consputc(c, n), UNCHANGED menuVars
  PROVE  ScreenInv'
<1> DEFINE s == [crt |-> crt, pos |-> pos]
           bare == [i \in Cells |-> [ch |-> plain[i], attr |-> DefaultColor]]
           ghost == [crt |-> bare, pos |-> pos]
<1>1. /\ crt' = Puts(s, c, currentColor, n).crt /\ pos' = Puts(s, c, currentColor, n).pos
      /\ plain' = Glyphs(Puts(ghost, c, DefaultColor, n).crt)
      /\ lost' = (lost \/ (menuStatus /\ n > 0))
  BY Zenon DEF consputc
<1>2. /\ menuStatus' = menuStatus /\ currentSelection' = currentSelection
      /\ currentColor' = currentColor /\ backgroundBackup' = backgroundBackup
  BY Zenon DEF menuVars
<1>3. /\ crt \in Screen /\ plain \in [Cells -> Glyph] /\ pos \in Area /\ currentColor \in Color
      /\ DefaultColor \in Color
  BY Colors, Zenon DEF ScreenInv, ScreenType
<1>4. bare \in Screen /\ \A i \in Cells : bare[i].ch = plain[i]
  <2>1. \A i \in Cells : /\ [ch |-> plain[i], attr |-> DefaultColor] \in Tile
                         /\ [ch |-> plain[i], attr |-> DefaultColor].ch = plain[i]
    BY <1>3, Tiles, Zenon
  <2> QED BY <2>1, Zenon DEF Screen
<1> HIDE DEF bare
<1>5. Agree(crt, bare, currentColor, Hidden)
  BY <1>4, Zenon DEF Agree, ScreenInv, TextShown
<1>6. Pair(s, ghost, currentColor, Hidden, Area)
  BY <1>3, <1>4, <1>5, Zenon DEF Pair
<1> HIDE DEF s, ghost
<1>7. PICK a \in Screen, b \in Screen, p \in Area :
        /\ Puts(s, c, currentColor, n) = [crt |-> a, pos |-> p]
        /\ Puts(ghost, c, DefaultColor, n) = [crt |-> b, pos |-> p]
        /\ Agree(a, b, currentColor, Hidden)
  <2>1. Pair(Puts(s, c, currentColor, n), Puts(ghost, c, DefaultColor, n), currentColor,
             Hidden, Area)
    BY <1>3, <1>6, TableCells, PutsAgrees, Zenon
  <2> QED BY <2>1, Zenon DEF Pair
<1>8. crt' = a /\ pos' = p /\ plain' = [i \in Cells |-> b[i].ch]
  BY <1>1, <1>7 DEF Glyphs
<1>9. plain' \in [Cells -> Glyph] /\ \A i \in Cells : plain'[i] = b[i].ch
  <2>1. \A i \in Cells : b[i].ch \in Glyph
    BY Zenon DEF Screen, Tile
  <2> QED BY <1>8, <2>1, Zenon
<1>10. ScreenType'
  <2>1. /\ menuStatus \in BOOLEAN /\ lost \in BOOLEAN /\ currentSelection \in 0 .. NItems - 1
        /\ backgroundBackup \in [MenuCells -> Glyph]
    BY Zenon DEF ScreenInv, ScreenType
  <2>2. lost' \in BOOLEAN
    BY <1>1, Zenon
  <2> QED BY <1>2, <1>3, <1>8, <1>9, <2>1, <2>2, Zenon DEF ScreenType
<1>11. TextShown'
  <2>1. Hidden' = Hidden
    BY <1>2, Zenon DEF Hidden
  <2> QED BY <1>2, <1>7, <1>8, <1>9, <2>1, Zenon DEF TextShown, Agree
<1>12. TextSaved'
  <2>1. CASE n = 0
    <3>1. Puts(ghost, c, DefaultColor, n) = ghost
      BY <2>1, PutsLoop
    <3>2. b = bare
      BY <1>7, <3>1, SMTT(60) DEF ghost
    <3>3. \A i \in Cells : plain'[i] = plain[i]
      BY <1>4, <1>9, <3>2, Zenon
    <3>4. lost' = lost
      <4>1. lost \in BOOLEAN /\ ~(n > 0)
        BY <2>1 DEF ScreenInv, ScreenType
      <4> QED BY <1>1, <4>1, Zenon
    <3> QED BY <1>2, <3>3, <3>4, TableCells, Zenon DEF ScreenInv, TextSaved
  <2>2. CASE n # 0
    <3>1. n > 0
      BY <2>2
    <3>2. menuStatus' => lost'
      BY <1>1, <1>2, <3>1, Zenon
    <3> QED BY <3>2, Zenon DEF TextSaved
  <2> QED BY <2>1, <2>2, Zenon
<1> QED BY <1>10, <1>11, <1>12, Zenon DEF ScreenInv

\* Recolouring keeps every glyph.
LEMMA RecolorCells ==
  ASSUME NEW a \in Screen, NEW S, NEW k \in Color
  PROVE  /\ Recolor(a, S, k) \in Screen
         /\ \A i \in Cells : /\ Recolor(a, S, k)[i].ch = a[i].ch
                             /\ i \in S => Fits(Recolor(a, S, k)[i], k)
                             /\ i \notin S => Recolor(a, S, k)[i] = a[i]
<1> DEFINE x == Recolor(a, S, k)
<1>1. x = [i \in Cells |-> IF i \in S THEN [a[i] EXCEPT !.attr = k] ELSE a[i]]
  BY Zenon DEF Recolor
<1>2. \A t \in Tile : /\ [t EXCEPT !.attr = k] \in Tile /\ [t EXCEPT !.attr = k].ch = t.ch
                      /\ Fits([t EXCEPT !.attr = k], k)
  BY Zenon DEF Tile, Fits
<1>3. \A i \in Cells : a[i] \in Tile
  BY Zenon DEF Screen
<1> HIDE DEF x
<1>4. \A i \in Cells : /\ x[i] = IF i \in S THEN [a[i] EXCEPT !.attr = k] ELSE a[i]
                       /\ x[i] \in Tile
  BY <1>1, <1>2, <1>3, Zenon
<1>5. x \in Screen
  BY <1>1, <1>4, Zenon DEF Screen
<1> QED BY <1>2, <1>3, <1>4, <1>5, Zenon DEF x

\* The table, drawn.
LEMMA ShowCells ==
  ASSUME NEW a \in Screen
  PROVE  showMenu(a) \in Screen /\ \A i \in Cells \ MenuCells : showMenu(a)[i] = a[i]
<1> DEFINE t == [ch |-> "menu", attr |-> MenuAttr]
<1>1. t \in Tile
  BY Colors, Zenon DEF Tile, Glyph
<1> HIDE DEF t
<1>2. showMenu(a) = [i \in Cells |-> IF i \in MenuCells THEN t ELSE a[i]]
  BY Zenon DEF showMenu, t
<1> QED BY <1>1, <1>2, Zenon DEF Screen

\* The table, taken away.
LEMMA LoadCells ==
  ASSUME NEW a \in Screen, NEW b \in [MenuCells -> Glyph], NEW k \in Color
  PROVE  /\ loadBackground(a, b, k) \in Screen
         /\ \A i \in Cells \ MenuCells : loadBackground(a, b, k)[i] = a[i]
         /\ \A i \in MenuCells : /\ loadBackground(a, b, k)[i].ch = b[i]
                                 /\ Fits(loadBackground(a, b, k)[i], k)
<1>1. \A c \in Glyph : Restored(c, k) \in Tile /\ Restored(c, k).ch = c /\ Fits(Restored(c, k), k)
  BY Zenon DEF Restored, Tile, Fits, Color
<1>2. loadBackground(a, b, k) = [i \in Cells |-> IF i \in MenuCells THEN Restored(b[i], k) ELSE a[i]]
  BY Zenon DEF loadBackground
<1> QED BY <1>1, <1>2, TableCells DEF Screen

\* The selection stays on the table.
LEMMA MovedRange ==
  ASSUME NEW s \in 0 .. NItems - 1, NEW c
  PROVE  Moved(s, c) \in 0 .. NItems - 1
<1>1. NItems \in Int /\ NItems > 0 /\ NItems % 2 = 0 /\ s \in Int
  BY GeometryAssumption
<1>2. ((s + 2) % NItems) \in 0 .. NItems - 1 /\ ((s - 2 + NItems) % NItems) \in 0 .. NItems - 1
  <2>1. s + 2 \in Int /\ s - 2 + NItems \in Int
    BY <1>1
  <2> QED BY <1>1, <2>1, ModRange, Zenon
<1>3. (IF s % 2 = 1 THEN s - 1 ELSE s + 1) \in 0 .. NItems - 1
  BY <1>1
<1> DEFINE x == (s + 2) % NItems
           y == (s - 2 + NItems) % NItems
           z == IF s % 2 = 1 THEN s - 1 ELSE s + 1
<1>4. Moved(s, c) \in {x, y, z, s}
  <2>1. Moved(s, c) = CASE c = "s" -> x [] c = "w" -> y [] c \in {"a", "d"} -> z [] OTHER -> s
    BY Zenon DEF Moved
  <2> HIDE DEF x, y, z
  <2> QED BY <2>1, Zenon
<1> HIDE DEF x, y, z
<1> QED BY <1>2, <1>3, <1>4, Zenon DEF x, y, z

\* A colour of the table is a colour.
LEMMA PickIsColor ==
  ASSUME NEW k \in Color, NEW s \in 0 .. NItems - 1, NEW b \in {0, 8}
  PROVE  PickColor(k, s, b) \in Color
<1>1. s \div 2 + b \in Nat
  BY GeometryAssumption
<1> QED BY <1>1, Zenon DEF PickColor, Color

\* A key in the menu.
LEMMA MenuKeeps ==
  ASSUME ScreenInv, NEW c, IntrMenu(c)
  PROVE  ScreenInv' /\ \A i \in Cells \ MenuCells : crt'[i].ch = crt[i].ch
<1> DEFINE painted == IF c \in {"e", "r"} THEN repaint(crt, currentColor') ELSE crt
<1>1. /\ menuStatus = TRUE /\ menuStatus' = TRUE /\ pos' = pos /\ plain' = plain /\ lost' = lost
      /\ backgroundBackup' = backgroundBackup
      /\ currentSelection' = Moved(currentSelection, c)
      /\ crt' = displaySelection(showMenu(painted), currentSelection')
  BY Zenon DEF IntrMenu, ScreenInv, ScreenType
<1>2. /\ crt \in Screen /\ plain \in [Cells -> Glyph] /\ pos \in Area /\ lost \in BOOLEAN
      /\ currentColor \in Color /\ currentSelection \in 0 .. NItems - 1
      /\ backgroundBackup \in [MenuCells -> Glyph]
  BY Zenon DEF ScreenInv, ScreenType
<1>3. currentSelection' \in 0 .. NItems - 1
  BY <1>1, <1>2, MovedRange, Zenon
<1>4. currentColor' \in Color /\ (c \notin {"e", "r"} => currentColor' = currentColor)
  <2> DEFINE x == PickColor(currentColor, currentSelection, 0)
             y == PickColor(currentColor, currentSelection, 8)
  <2>1. currentColor' = CASE c = "e" -> x [] c = "r" -> y [] OTHER -> currentColor
    BY Zenon DEF IntrMenu
  <2>2. x \in Color /\ y \in Color
    BY <1>2, PickIsColor, Zenon
  <2> HIDE DEF x, y
  <2> QED BY <1>2, <2>1, <2>2, Zenon
<1>5. /\ painted \in Screen
      /\ \A i \in Cells \ MenuCells : painted[i].ch = crt[i].ch /\ Fits(painted[i], currentColor')
  <2>1. CASE c \in {"e", "r"}
    <3>1. painted = Recolor(crt, Cells, currentColor')
      BY <2>1, Zenon DEF repaint
    <3> HIDE DEF painted
    <3> QED BY <1>2, <1>4, <3>1, RecolorCells
  <2>2. CASE c \notin {"e", "r"}
    <3>1. painted = crt /\ currentColor' = currentColor
      BY <1>4, <2>2, Zenon
    <3>2. Hidden = MenuCells
      BY <1>1, Zenon DEF Hidden
    <3> HIDE DEF painted
    <3> QED BY <1>2, <3>1, <3>2, Zenon DEF ScreenInv, TextShown
  <2> QED BY <2>1, <2>2, Zenon
<1> HIDE DEF painted
<1>6. showMenu(painted) \in Screen /\ \A i \in Cells \ MenuCells : showMenu(painted)[i] = painted[i]
  BY <1>5, ShowCells, Zenon
<1> DEFINE lb == computeLowerBound(currentSelection')
           M == showMenu(painted)
           E == lb .. lb + ItemWidth - 1
<1>7. E \subseteq MenuCells
  BY <1>3, TableAssumption, Zenon
<1>8. crt' = Recolor(M, E, SelectAttr)
  BY <1>1, Zenon DEF displaySelection
<1> HIDE DEF E, M
<1>9. /\ crt' \in Screen
      /\ \A i \in Cells \ MenuCells : crt'[i] = painted[i]
  <2>1. M \in Screen /\ \A i \in Cells \ MenuCells : M[i] = painted[i]
    BY <1>6, Zenon DEF M
  <2> QED BY <1>7, <1>8, <2>1, Colors, RecolorCells, SMTT(60)
<1>10. ScreenType'
  BY <1>1, <1>2, <1>3, <1>4, <1>9, Zenon DEF ScreenType
<1>11. \A i \in Cells \ MenuCells : crt'[i].ch = crt[i].ch /\ Fits(crt'[i], currentColor')
  BY <1>5, <1>9, Zenon
<1>12. TextShown'
  <2>1. Hidden = MenuCells /\ Hidden' = MenuCells
    BY <1>1, Zenon DEF Hidden
  <2>2. \A i \in Cells \ MenuCells : crt[i].ch = plain[i]
    BY <2>1, Zenon DEF ScreenInv, TextShown
  <2> QED BY <1>1, <1>11, <2>1, <2>2, Zenon DEF TextShown
<1>13. TextSaved'
  BY <1>1, Zenon DEF ScreenInv, TextSaved
<1> QED BY <1>10, <1>11, <1>12, <1>13, Zenon DEF ScreenInv

\* The menu opens or closes.
LEMMA ToggleKeeps ==
  ASSUME ScreenInv, Toggle
  PROVE  ScreenInv' /\ \A i \in Cells \ MenuCells : crt'[i].ch = crt[i].ch
<1>1. /\ crt \in Screen /\ plain \in [Cells -> Glyph] /\ pos \in Area /\ lost \in BOOLEAN
      /\ menuStatus \in BOOLEAN
      /\ currentColor \in Color /\ currentSelection \in 0 .. NItems - 1
      /\ backgroundBackup \in [MenuCells -> Glyph]
  BY Zenon DEF ScreenInv, ScreenType
<1>2. /\ menuStatus' = ~menuStatus /\ lost' = FALSE /\ pos' = pos
      /\ currentSelection' = currentSelection /\ currentColor' = currentColor
  BY Zenon DEF Toggle
<1>3. CASE menuStatus
  <2>1. /\ crt' = loadBackground(crt, backgroundBackup, currentColor)
        /\ plain' = IF lost THEN [i \in Cells |-> crt'[i].ch] ELSE plain
        /\ backgroundBackup' = backgroundBackup
    BY <1>3, Zenon DEF Toggle, Glyphs
  <2>2. /\ crt' \in Screen
        /\ \A i \in Cells \ MenuCells : crt'[i] = crt[i]
        /\ \A i \in MenuCells : crt'[i].ch = backgroundBackup[i] /\ Fits(crt'[i], currentColor)
    BY <1>1, <2>1, LoadCells, SMTT(60)
  <2>3. Hidden = MenuCells /\ Hidden' = {} /\ ~menuStatus'
    BY <1>2, <1>3, Zenon DEF Hidden
  <2>4. \A i \in Cells : Fits(crt'[i], currentColor)
    BY <2>2, <2>3, Zenon DEF ScreenInv, TextShown
  <2>5. plain' \in [Cells -> Glyph] /\ \A i \in Cells : crt'[i].ch = plain'[i]
    <3>1. CASE lost
      <4>1. \A i \in Cells : crt'[i].ch \in Glyph
        BY <2>2, Zenon DEF Screen, Tile
      <4> QED BY <2>1, <3>1, <4>1, Zenon
    <3>2. CASE ~lost
      <4>1. plain' = plain
        BY <2>1, <3>2, Zenon
      <4>2. \A i \in MenuCells : backgroundBackup[i] = plain[i]
        BY <1>3, <3>2, Zenon DEF ScreenInv, TextSaved
      <4>3. \A i \in Cells \ MenuCells : crt[i].ch = plain[i]
        BY <2>3, Zenon DEF ScreenInv, TextShown
      <4> QED BY <1>1, <2>2, <4>1, <4>2, <4>3, Zenon
    <3> QED BY <3>1, <3>2, Zenon
  <2>6. ScreenType'
    BY <1>1, <1>2, <2>1, <2>2, <2>5, Zenon DEF ScreenType
  <2>7. TextShown' /\ TextSaved'
    BY <1>2, <2>3, <2>4, <2>5, Zenon DEF TextShown, TextSaved
  <2> QED BY <2>2, <2>6, <2>7, Zenon DEF ScreenInv
<1>4. CASE ~menuStatus
  <2>1. crt' = crt /\ plain' = plain /\ backgroundBackup' = [i \in MenuCells |-> crt[i].ch]
    BY <1>4, Zenon DEF Toggle, saveBackground
  <2>2. Hidden = {} /\ Hidden' = MenuCells
    BY <1>2, <1>4, Zenon DEF Hidden
  <2>3. \A i \in Cells : crt[i].ch = plain[i] /\ Fits(crt[i], currentColor)
    BY <2>2, Zenon DEF ScreenInv, TextShown
  <2>4. /\ backgroundBackup' \in [MenuCells -> Glyph]
        /\ \A i \in MenuCells : backgroundBackup'[i] = plain[i]
    <3>1. \A i \in MenuCells : crt[i].ch = plain[i] /\ plain[i] \in Glyph
      BY <1>1, <2>3, TableCells, Zenon
    <3> QED BY <2>1, <3>1, Zenon
  <2>5. ScreenType'
    BY <1>1, <1>2, <2>1, <2>4, Zenon DEF ScreenType
  <2>6. TextShown' /\ TextSaved'
    BY <1>2, <2>1, <2>3, <2>4, Zenon DEF TextShown, TextSaved
  <2> QED BY <2>1, <2>5, <2>6, Zenon DEF ScreenInv
<1> QED BY <1>3, <1>4, Zenon

\* Steps that leave the screen and the menu alone.
LEMMA ScreenUnchanged ==
  ASSUME ScreenInv, UNCHANGED <<menuVars, screenVars>>
  PROVE  ScreenInv' /\ crt' = crt /\ menuStatus' = menuStatus
BY Zenon DEF ScreenInv, ScreenType, TextShown, TextSaved, Hidden, menuVars, screenVars

\* Every case of the switch in consoleintr.
LEMMA IntrKeepsScreen ==
  ASSUME RingInv, ScreenInv, NEW c, consoleintr(c)
  PROVE  ScreenInv'
<1>1. CASE IntrDump(c) \/ IntrAltC(c) \/ IntrAltO(c)
  <2>1. UNCHANGED <<menuVars, screenVars>>
    BY <1>1, Zenon DEF IntrDump, IntrAltC, IntrAltO
  <2> QED BY <2>1, ScreenUnchanged, Zenon
<1>2. CASE IntrKill(c)
  <2>1. KillCount \in Nat
    <3>1. KillCount \in 0 .. UINT
      BY KillCountBound, Zenon DEF RingInv
    <3> QED BY <3>1, ConsoleAssumption
  <2>2. consputc(BACKSPACE, KillCount) /\ UNCHANGED menuVars
    BY <1>2, Zenon DEF IntrKill, menuVars
  <2> QED BY <2>1, <2>2, PrintKeeps, Zenon
<1>3. CASE IntrErase(c)
  <2>1. UNCHANGED menuVars /\ (consputc(BACKSPACE, 1) \/ UNCHANGED screenVars)
    BY <1>3, Zenon DEF IntrErase, menuVars
  <2>2. 1 \in Nat
    BY Zenon
  <2> QED BY <2>1, <2>2, PrintKeeps, ScreenUnchanged, Zenon DEF menuVars, screenVars
<1>4. CASE IntrAltL(c)
  <2>1. Toggle \/ UNCHANGED <<menuVars, screenVars>>
    BY <1>4, Zenon DEF IntrAltL
  <2> QED BY <2>1, ToggleKeeps, ScreenUnchanged, Zenon
<1>5. CASE IntrType(c)
  <2>1. UNCHANGED menuVars /\ ((\E ch : consputc(ch, 1)) \/ UNCHANGED screenVars)
    BY <1>5, Zenon DEF IntrType, menuVars
  <2>2. 1 \in Nat
    BY Zenon
  <2> QED BY <2>1, <2>2, PrintKeeps, ScreenUnchanged, Zenon DEF menuVars, screenVars
<1>6. CASE IntrMenu(c)
  BY <1>6, MenuKeeps, Zenon
<1> QED BY <1>1, <1>2, <1>3, <1>4, <1>5, <1>6, Zenon DEF consoleintr

\* Every step of the console.
LEMMA ScreenStep ==
  ASSUME RingInv, ScreenInv, [Next]_vars
  PROVE  ScreenInv'
<1>1. CASE UNCHANGED vars
  BY <1>1, ScreenUnchanged, Zenon DEF vars
<1>2. ASSUME NEW c \in Key, consoleintr(c) PROVE ScreenInv'
  BY <1>2, IntrKeepsScreen, Zenon
<1>3. ASSUME NEW c \in Out, consolewrite(c) \/ procdump(c) PROVE ScreenInv'
  <2>1. UNCHANGED menuVars /\ (consputc(c, 1) \/ UNCHANGED screenVars)
    BY <1>3, Zenon DEF consolewrite, procdump, menuVars
  <2>2. 1 \in Nat
    BY Zenon
  <2> QED BY <2>1, <2>2, PrintKeeps, ScreenUnchanged, Zenon DEF menuVars, screenVars
<1>4. ASSUME NEW p \in Reader,
             ReaderStep(p) \/ kill(p) \/ (\E n \in 1 .. MaxRead : consoleread(p, n))
      PROVE  ScreenInv'
  <2>1. UNCHANGED readUnch
    BY <1>4, Zenon DEF ReaderStep, ReadChar, ReadWait, ReadSleep, ReadResume, kill, consoleread
  <2>2. UNCHANGED <<menuVars, screenVars>>
    BY <2>1, Zenon DEF readUnch
  <2> QED BY <2>2, ScreenUnchanged, Zenon
<1> QED BY <1>1, <1>2, <1>3, <1>4, Zenon DEF Next, Programs

\* The inductive invariant of the screen.
LEMMA ScreenInvariant == Spec => [](RingInv /\ ScreenInv)
<1>1. Init => RingInv /\ ScreenInv
  BY RingInit, ScreenInit, Zenon
<1>2. (RingInv /\ ScreenInv) /\ [Next]_vars => (RingInv /\ ScreenInv)'
  BY RingNext, ScreenStep, Zenon
<1> QED BY <1>1, <1>2, PTL DEF Spec

\* console.c: the text of the screen outlives the menu, for every size of the
\* screen and of the table on it and any order of keys and output.
THEOREM TextOutlivesMenu == Spec => []TextSurvives
<1>1. ScreenInv => TextSurvives
  BY Zenon DEF ScreenInv, ScreenType, TextShown, TextSurvives, Hidden, Area
<1> QED BY <1>1, ScreenInvariant, PTL

\* console.c: repainting, scrolling and restoring leave every 7-bit character
\* in the current colour and every blank on its background.
THEOREM ColorsAgree == Spec => []ColorUniform
<1>1. ScreenInv => ColorUniform
  BY Zenon DEF ScreenInv, TextShown, ColorUniform, Hidden, Fits
<1> QED BY <1>1, ScreenInvariant, PTL

-----------------------------------------------------------------------------
(* The key sequence *)

\* console.c: with the table shown, no key but kill-line changes the input
\* line, the cursor or the text outside the table.
THEOREM MenuTakesKeys == Spec => MenuSwallowsKeys
<1> DEFINE A == \A c \in Key \ {"^U"} :
                  menuStatus /\ consoleintr(c) =>
                    /\ UNCHANGED <<inputVars, pos>>
                    /\ \A i \in Cells \ MenuCells : crt'[i].ch = crt[i].ch
<1>1. ScreenInv => A
  <2> SUFFICES ASSUME ScreenInv, NEW c \in Key \ {"^U"}, menuStatus, consoleintr(c)
               PROVE  /\ UNCHANGED <<inputVars, pos>>
                      /\ \A i \in Cells \ MenuCells : crt'[i].ch = crt[i].ch
    BY Zenon
  <2>1. CASE IntrMenu(c)
    <3>1. UNCHANGED <<inputVars, pos>>
      BY <2>1, Zenon DEF IntrMenu
    <3> QED BY <2>1, <3>1, MenuKeeps, Zenon
  <2>2. CASE IntrAltL(c)
    <3>1. UNCHANGED <<inputVars, pos>> /\ (Toggle \/ crt' = crt)
      BY <2>2, Zenon DEF IntrAltL, Toggle, screenVars
    <3> QED BY <3>1, ToggleKeeps, Zenon
  <2>3. CASE IntrDump(c) \/ IntrErase(c) \/ IntrAltC(c) \/ IntrAltO(c)
    BY <2>3, Zenon DEF IntrDump, IntrErase, IntrAltC, IntrAltO, inputVars, screenVars
  <2>4. ~IntrKill(c) /\ ~IntrType(c)
    BY Zenon DEF IntrKill, IntrType
  <2> QED BY <2>1, <2>2, <2>3, <2>4, Zenon DEF consoleintr
<1> QED BY <1>1, ScreenInvariant, PTL DEF MenuSwallowsKeys

\* The flags remember the last two keys that were heeded.
Heeded == {"A-c", "A-o", "A-l", "other"}
FlagInv ==
  /\ hist \in BOOLEAN \X Heeded
  /\ flagC \in BOOLEAN /\ flagO \in BOOLEAN
  /\ flagC <=> hist[2] = "A-c" \/ (hist[1] /\ hist[2] = "A-o")
  /\ flagO <=> hist[1] /\ hist[2] = "A-o"

\* A heeded key other than the three ends the sequence.
LEMMA OtherEnds ==
  ASSUME NEW c, clearFlags, Heed(c), c # "A-c", c = "A-o" => hist[2] # "A-c"
  PROVE  FlagInv'
BY Zenon DEF FlagInv, clearFlags, Heed, Heeded

\* The step of the sequence that a key is, and whether the menu changes.
Sequence == (menuStatus' # menuStatus) = (hist = <<TRUE, "A-o">> /\ hist' = <<FALSE, "A-l">>)

\* Steps that are not a heeded key.
LEMMA SequenceUnchanged ==
  ASSUME FlagInv, UNCHANGED <<flagVars, hist, menuStatus>>
  PROVE  FlagInv' /\ Sequence
<1>1. FlagInv'
  BY Zenon DEF FlagInv, flagVars
<1>2. ~(hist = <<TRUE, "A-o">> /\ hist = <<FALSE, "A-l">>)
  <2> SUFFICES ASSUME hist = <<TRUE, "A-o">>, hist = <<FALSE, "A-l">> PROVE FALSE
    BY Zenon
  <2>1. <<TRUE, "A-o">>[2] = "A-o" /\ <<FALSE, "A-l">>[2] = "A-l"
    BY Zenon
  <2>2. hist[2] = "A-o" /\ hist[2] = "A-l"
    BY <2>1, Zenon
  <2> QED BY <2>2, Zenon
<1> QED BY <1>1, <1>2, Zenon DEF Sequence

\* A key.
LEMMA SequenceIntr ==
  ASSUME FlagInv, menuStatus \in BOOLEAN, NEW c, consoleintr(c)
  PROVE  FlagInv' /\ Sequence
<1>1. ASSUME c # "A-l", Heed(c), menuStatus' = menuStatus PROVE Sequence
  BY <1>1, Zenon DEF Sequence, Heed
<1>2. CASE IntrDump(c) \/ IntrKill(c) \/ IntrErase(c)
  <2>1. clearFlags /\ Heed(c) /\ menuStatus' = menuStatus /\ c \in {"^P", "^U", "^H"}
    BY <1>2, Zenon DEF IntrDump, IntrKill, IntrErase, menuVars
  <2>2. c # "A-c" /\ c # "A-o" /\ c # "A-l"
    BY <2>1, Zenon
  <2> QED BY <1>1, <2>1, <2>2, OtherEnds, Zenon
<1>3. CASE IntrAltC(c)
  <2>1. c = "A-c" /\ flagC' = TRUE /\ flagO' = FALSE /\ Heed(c) /\ menuStatus' = menuStatus
    BY <1>3, Zenon DEF IntrAltC, menuVars
  <2>2. FlagInv'
    BY <2>1, Zenon DEF FlagInv, Heed, Heeded
  <2> QED BY <1>1, <2>1, <2>2, Zenon
<1>4. CASE IntrAltO(c)
  <2>1. c = "A-o" /\ Heed(c) /\ menuStatus' = menuStatus
    BY <1>4, Zenon DEF IntrAltO, menuVars
  <2>2. CASE flagC /\ ~flagO
    <3>1. flagO' = TRUE /\ flagC' = flagC
      BY <1>4, <2>2, Zenon DEF IntrAltO
    <3>2. FlagInv'
      BY <2>1, <2>2, <3>1, Zenon DEF FlagInv, Heed, Heeded
    <3> QED BY <1>1, <2>1, <3>2, Zenon
  <2>3. CASE ~(flagC /\ ~flagO)
    <3>1. clearFlags
      BY <1>4, <2>3, Zenon DEF IntrAltO
    <3>2. hist[2] # "A-c"
      BY <2>3, Zenon DEF FlagInv
    <3> QED BY <1>1, <2>1, <3>1, <3>2, OtherEnds, Zenon
  <2> QED BY <2>2, <2>3, Zenon
<1>5. CASE IntrAltL(c)
  <2>1. c = "A-l" /\ clearFlags /\ Heed(c)
    BY <1>5, Zenon DEF IntrAltL
  <2>2. FlagInv'
    BY <2>1, OtherEnds, Zenon
  <2>3. hist = <<hist[1], hist[2]>> /\ hist[1] \in BOOLEAN
    BY DEF FlagInv
  <2>4. CASE flagC /\ flagO
    <3>1. menuStatus' # menuStatus
      <4>1. menuStatus' = ~menuStatus
        BY <1>5, <2>4, Zenon DEF IntrAltL, Toggle
      <4> QED BY <4>1, Zenon
    <3>2. hist[1] = TRUE /\ hist[2] = "A-o"
      BY <2>3, <2>4, Zenon DEF FlagInv
    <3>3. hist = <<TRUE, "A-o">>
      BY <2>3, <3>2, Zenon
    <3>4. hist' = <<FALSE, "A-l">>
      BY <2>1, <3>2, Zenon DEF Heed
    <3> QED BY <2>2, <3>1, <3>3, <3>4, Zenon DEF Sequence
  <2>5. CASE ~(flagC /\ flagO)
    <3>1. menuStatus' = menuStatus
      BY <1>5, <2>5, Zenon DEF IntrAltL, menuVars
    <3>2. hist # <<TRUE, "A-o">>
      <4> SUFFICES ASSUME hist = <<TRUE, "A-o">> PROVE FALSE
        BY Zenon
      <4>1. <<TRUE, "A-o">>[1] = TRUE /\ <<TRUE, "A-o">>[2] = "A-o"
        BY Zenon
      <4>2. hist[1] = TRUE /\ hist[2] = "A-o"
        BY <4>1, Zenon
      <4> QED BY <2>5, <4>2, Zenon DEF FlagInv
    <3> QED BY <2>2, <3>1, <3>2, Zenon DEF Sequence
  <2> QED BY <2>4, <2>5, Zenon
<1>6. CASE IntrType(c) \/ IntrMenu(c)
  <2>1. /\ menuStatus' = menuStatus /\ c \notin Special
        /\ (clearFlags /\ Heed(c)) \/ UNCHANGED <<flagVars, hist>>
    BY <1>6, Zenon DEF IntrType, IntrMenu, menuVars
  <2>2. c # "A-c" /\ c # "A-o" /\ c # "A-l"
    BY <2>1, Zenon DEF Special
  <2> QED BY <1>1, <2>1, <2>2, OtherEnds, SequenceUnchanged, Zenon
<1> QED BY <1>2, <1>3, <1>4, <1>5, <1>6, Zenon DEF consoleintr

\* Any step.
LEMMA SequenceStep ==
  ASSUME FlagInv, menuStatus \in BOOLEAN, [Next]_vars
  PROVE  FlagInv' /\ Sequence
<1>1. CASE UNCHANGED vars
  BY <1>1, SequenceUnchanged, Zenon DEF vars, menuVars
<1>2. ASSUME NEW c \in Key, consoleintr(c) PROVE FlagInv' /\ Sequence
  BY <1>2, SequenceIntr, Zenon
<1>3. CASE Programs
  <2>1. UNCHANGED <<flagVars, hist, menuStatus>>
    BY <1>3, Zenon DEF Programs, consolewrite, procdump, consoleread, ReaderStep, ReadChar,
                       ReadWait, ReadSleep, ReadResume, kill, readUnch, menuVars
  <2> QED BY <2>1, SequenceUnchanged, Zenon
<1> QED BY <1>1, <1>2, <1>3, Zenon DEF Next

\* console.c: the menu opens and closes on ALT+c ALT+o ALT+l and on nothing
\* else, whatever is typed, printed or read in between.
THEOREM SequenceTogglesMenu == Spec => MenuSequence
<1>1. Init => FlagInv
  <2> SUFFICES ASSUME Init PROVE FlagInv
    OBVIOUS
  <2>1. hist = <<FALSE, "other">> /\ flagC = FALSE /\ flagO = FALSE
    BY Zenon DEF Init
  <2>2. <<FALSE, "other">>[1] = FALSE /\ <<FALSE, "other">>[2] = "other"
        /\ <<FALSE, "other">> \in BOOLEAN \X Heeded
    BY Zenon DEF Heeded
  <2>3. hist[1] = FALSE /\ hist[2] = "other" /\ hist \in BOOLEAN \X Heeded
    BY <2>1, <2>2, Zenon
  <2>4. hist[2] # "A-c" /\ hist[2] # "A-o"
    BY <2>3, Zenon
  <2> QED BY <2>1, <2>3, <2>4, Zenon DEF FlagInv
<1>2. RingInv /\ ScreenInv => menuStatus \in BOOLEAN
  BY Zenon DEF ScreenInv, ScreenType
<1>3. FlagInv /\ (RingInv /\ ScreenInv) /\ [Next]_vars => FlagInv' /\ [Sequence]_vars
  BY <1>2, SequenceStep, Zenon
<1> QED BY <1>1, <1>3, ScreenInvariant, PTL DEF Spec, MenuSequence, Sequence
=============================================================================
