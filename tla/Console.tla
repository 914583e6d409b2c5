------------------------------ MODULE Console -------------------------------
(***************************************************************************)
(* kernel/console.c: the interrupt handler that edits the input line and   *)
(* recognises ALT+c ALT+o ALT+l, the colour menu, console output, and the  *)
(* processes that read lines.                                              *)
(*                                                                         *)
(* consoleintr, consolewrite and cprintf run under cons.lock from          *)
(* beginning to end, one character here per step (a handler call for       *)
(* several characters is several consecutive steps).  consoleread gives    *)
(* the lock up only to sleep; holder records which reader has it.          *)
(* Characters stand for byte values: "A-c" is A('c') = 199, "NUL" is the 0 *)
(* that kbdgetc returns for key releases and keys without a character.     *)
(***************************************************************************)
EXTENDS Cga, FiniteSetsExt

CONSTANTS Reader,     \* processes that read the console
          Key,        \* characters that getc can return
          Out,        \* characters that programs write: "NL", "lo", "hi"
          INPUT_BUF,  \* 128
          UINT,       \* 2^32, the range of input.r, input.w, input.e
          MaxRead,    \* longest read() considered
          None

ASSUME ConsoleAssumption ==
  /\ INPUT_BUF \in Nat \ {0} /\ UINT \in Nat
  /\ UINT % INPUT_BUF = 0 /\ INPUT_BUF < UINT
  /\ MaxRead \in Nat \ {0}
  /\ None \notin Reader

VARIABLES
  buf, r, w, e,       \* input.buf, input.r, input.w, input.e
  flagC, flagO,       \* progress of the c-o-l sequence
  menuStatus,         \* the menu is active
  currentSelection, currentColor,
  crt, pos,           \* screen memory and hardware cursor
  backgroundBackup,
  dump,               \* doprocdump: a process listing is to be printed
  holder,             \* the reader inside its critical section, or None
  rd,                 \* the readers: [st, n, target, killed]
  plain,              \* history: the glyphs a console without menu would show
  lost,               \* history: output since the menu was opened
  hist                \* history: the last key that was heeded, and whether
                      \* the one before it was ALT+c

inputVars == <<buf, r, w, e>>
flagVars == <<flagC, flagO>>
menuVars == <<menuStatus, currentSelection, currentColor, backgroundBackup>>
screenVars == <<crt, pos, plain, lost>>
vars == <<inputVars, flagVars, menuVars, screenVars, dump, holder, rd, hist>>

\* Unsigned subtraction, and the slot of the ring that an index names.
Minus(a, b) == IF a >= b THEN a - b ELSE a - b + UINT
Plus(a, b) == IF a + b < UINT THEN a + b ELSE a + b - UINT
Slot(i) == i % INPUT_BUF

Blank == [ch |-> "sp", attr |-> DefaultColor]
Glyphs(c) == [i \in Cells |-> c[i].ch]

Init ==
  /\ buf = [i \in 0 .. INPUT_BUF - 1 |-> "NUL"] /\ r = 0 /\ w = 0 /\ e = 0
  /\ flagC = FALSE /\ flagO = FALSE
  /\ menuStatus = FALSE /\ currentSelection = 0 /\ currentColor = DefaultColor
  /\ crt = [i \in Cells |-> Blank] /\ pos = 0
  /\ backgroundBackup = [i \in MenuCells |-> "nul"]
  /\ dump = FALSE /\ holder = None
  /\ rd = [p \in Reader |-> [st |-> "idle", n |-> 0, target |-> 0, killed |-> FALSE]]
  /\ plain = Glyphs(crt) /\ lost = FALSE /\ hist = <<FALSE, "other">>

-----------------------------------------------------------------------------
(* Output.                                                                 *)

GlyphOf(c) == IF c \in {"NL", BACKSPACE, "hi"} THEN c ELSE "lo"

\* The screen after n times consputc(c).
Puts(s, c, color, n) ==
  LET f[i \in 0 .. n] == IF i = 0 THEN s ELSE cgaputc(f[i - 1], GlyphOf(c), color)
  IN  f[n]

consputc(c, n) ==
  LET s == Puts([crt |-> crt, pos |-> pos], c, currentColor, n)
      ghost == [crt |-> [i \in Cells |-> [ch |-> plain[i], attr |-> DefaultColor]],
                pos |-> pos]
  IN  /\ crt' = s.crt /\ pos' = s.pos
      /\ plain' = Glyphs(Puts(ghost, c, DefaultColor, n).crt)
      /\ lost' = (lost \/ (menuStatus /\ n > 0))

\* A character of a write() to the console, or of a kernel cprintf.
consolewrite(c) ==
  /\ holder = None
  /\ consputc(c, 1)
  /\ UNCHANGED <<inputVars, flagVars, menuVars, dump, holder, rd, hist>>

\* procdump, run after consoleintr has released cons.lock, is many cprintfs.
procdump(c) ==
  /\ dump /\ holder = None
  /\ \/ consputc(c, 1) /\ UNCHANGED dump
     \/ dump' = FALSE /\ UNCHANGED screenVars
  /\ UNCHANGED <<inputVars, flagVars, menuVars, holder, rd, hist>>

-----------------------------------------------------------------------------
(* consoleintr, one case of its switch per action.                         *)

clearFlags == flagC' = FALSE /\ flagO' = FALSE
Heed(c) == hist' = <<hist[2] = "A-c", IF c \in {"A-c", "A-o", "A-l"} THEN c ELSE "other">>
Intr(c) == c \in Key /\ holder = None

IntrDump(c) ==
  /\ Intr(c) /\ c = "^P"
  /\ dump' = TRUE
  /\ clearFlags /\ Heed(c)
  /\ UNCHANGED <<inputVars, menuVars, screenVars, holder, rd>>

\* Mutant: kill-line erases back to input.r.
KillCount_ToRead ==
  Min({k \in 0 .. UINT : \/ Minus(e, k) = r
                         \/ buf[Slot(Minus(Minus(e, k), 1))] = "NL"})

\* How many characters kill-line erases: back to input.w or to a newline.
KillCount ==
  Min({k \in 0 .. UINT : \/ Minus(e, k) = w
                         \/ buf[Slot(Minus(Minus(e, k), 1))] = "NL"})

IntrKill(c) ==
  /\ Intr(c) /\ c = "^U"
  /\ e' = Minus(e, KillCount)
  /\ consputc(BACKSPACE, KillCount)
  /\ clearFlags /\ Heed(c)
  /\ UNCHANGED <<buf, r, w, menuVars, dump, holder, rd>>

\* Mutant: backspace also works while the menu is shown.
IntrErase_InMenu(c) ==
  /\ Intr(c) /\ c = "^H"
  /\ IF e # w
     THEN e' = Minus(e, 1) /\ consputc(BACKSPACE, 1)
     ELSE UNCHANGED <<e, screenVars>>
  /\ clearFlags /\ Heed(c)
  /\ UNCHANGED <<buf, r, w, menuVars, dump, holder, rd>>

IntrErase(c) ==
  /\ Intr(c) /\ c = "^H"
  /\ IF ~menuStatus /\ e # w
     THEN e' = Minus(e, 1) /\ consputc(BACKSPACE, 1)
     ELSE UNCHANGED <<e, screenVars>>
  /\ clearFlags /\ Heed(c)
  /\ UNCHANGED <<buf, r, w, menuVars, dump, holder, rd>>

IntrAltC(c) ==
  /\ Intr(c) /\ c = "A-c"
  /\ flagC' = TRUE /\ flagO' = FALSE /\ Heed(c)
  /\ UNCHANGED <<inputVars, menuVars, screenVars, dump, holder, rd>>

\* Mutant: a second ALT+o does not break the sequence.
IntrAltO_Cool(c) ==
  /\ Intr(c) /\ c = "A-o"
  /\ IF flagC THEN flagO' = TRUE /\ UNCHANGED flagC ELSE clearFlags
  /\ Heed(c)
  /\ UNCHANGED <<inputVars, menuVars, screenVars, dump, holder, rd>>

IntrAltO(c) ==
  /\ Intr(c) /\ c = "A-o"
  /\ IF flagC /\ ~flagO THEN flagO' = TRUE /\ UNCHANGED flagC ELSE clearFlags
  /\ Heed(c)
  /\ UNCHANGED <<inputVars, menuVars, screenVars, dump, holder, rd>>

\* Toggle: opening saves the background, closing puts it back.
Toggle ==
  /\ menuStatus' = ~menuStatus
  /\ IF menuStatus
     THEN /\ crt' = loadBackground(crt, backgroundBackup, currentColor)
          /\ plain' = IF lost THEN Glyphs(crt') ELSE plain
          /\ UNCHANGED backgroundBackup
     ELSE /\ backgroundBackup' = saveBackground(crt)
          /\ UNCHANGED <<crt, plain>>
  /\ lost' = FALSE
  /\ UNCHANGED <<pos, currentSelection, currentColor>>

IntrAltL(c) ==
  /\ Intr(c) /\ c = "A-l"
  /\ IF flagC /\ flagO THEN Toggle ELSE UNCHANGED <<menuVars, screenVars>>
  /\ clearFlags /\ Heed(c)
  /\ UNCHANGED <<inputVars, dump, holder, rd>>

Special == {"^P", "^U", "^H", "A-c", "A-o", "A-l"}
\* Mutant: the test is against the committed part of the ring.
Full_FromWrite == Minus(e, w) >= INPUT_BUF

Full == Minus(e, r) >= INPUT_BUF

\* Mutant: nobody is woken.
WakeReaders_None == rd

\* wakeup(&input.r)
WakeReaders == [p \in Reader |-> IF rd[p].st = "sleep" THEN [rd[p] EXCEPT !.st = "woken"]
                                                        ELSE rd[p]]

\* The default case with the menu hidden.
IntrType(c) ==
  /\ Intr(c) /\ c \notin Special /\ ~menuStatus
  /\ IF c # "NUL" /\ ~Full
     THEN LET ch == IF c = "CR" THEN "NL" ELSE c
              ee == Plus(e, 1)
          IN  /\ buf' = [buf EXCEPT ![Slot(e)] = ch] /\ e' = ee
              /\ consputc(ch, 1)
              /\ IF ch \in {"NL", "^D"} \/ ee = Plus(r, INPUT_BUF)
                 THEN w' = ee /\ rd' = WakeReaders
                 ELSE UNCHANGED <<w, rd>>
              /\ clearFlags /\ Heed(c)
     ELSE UNCHANGED <<buf, e, w, screenVars, rd, flagVars, hist>>
  /\ UNCHANGED <<r, menuVars, dump, holder>>

\* The default case with the menu active: handleInput, showMenu and
\* displaySelection.
IntrMenu(c) ==
  /\ Intr(c) /\ c \notin Special /\ menuStatus
  /\ currentSelection' = Moved(currentSelection, c)
  /\ currentColor' = CASE c = "e" -> PickColor(currentColor, currentSelection, 0)
                       [] c = "r" -> PickColor(currentColor, currentSelection, 8)
                       [] OTHER -> currentColor
  /\ LET painted == IF c \in {"e", "r"} THEN repaint(crt, currentColor') ELSE crt
     IN  crt' = displaySelection(showMenu(painted), currentSelection')
  /\ IF c # "NUL" THEN clearFlags /\ Heed(c) ELSE UNCHANGED <<flagVars, hist>>
  /\ UNCHANGED <<inputVars, menuStatus, backgroundBackup, pos, plain, lost, dump,
                 holder, rd>>

consoleintr(c) ==
  \/ IntrDump(c) \/ IntrKill(c) \/ IntrErase(c)
  \/ IntrAltC(c) \/ IntrAltO(c) \/ IntrAltL(c)
  \/ IntrType(c) \/ IntrMenu(c)

-----------------------------------------------------------------------------
(* consoleread.                                                            *)

readUnch == <<flagVars, menuVars, screenVars, dump, hist>>
Idle(p) == [rd[p] EXCEPT !.st = "idle", !.n = 0, !.target = 0]

\* A killed process exits before it can read again, so whoever calls read()
\* has not been killed.
consoleread(p, n) ==
  /\ rd[p].st = "idle" /\ holder = None
  /\ rd' = [rd EXCEPT ![p] = [st |-> "run", n |-> n, target |-> n, killed |-> FALSE]]
  /\ holder' = p
  /\ UNCHANGED <<inputVars, readUnch>>

\* Mutant: input.r is not advanced past a ^D that ends an empty read, so that
\* end-of-file never goes away.
ReadChar_KeepEof(p) ==
  /\ holder = p /\ r # w
  /\ LET c == buf[Slot(r)]
         more == c \notin {"^D", "NL"} /\ rd[p].n > 1
     IN  /\ r' = IF c = "^D" THEN r ELSE Plus(r, 1)
         /\ rd' = [rd EXCEPT ![p] = IF more THEN [rd[p] EXCEPT !.n = @ - 1] ELSE Idle(p)]
         /\ holder' = IF more THEN p ELSE None
  /\ UNCHANGED <<buf, w, e, readUnch>>

\* One character.  A ^D ends the read; it is left in the ring when the read
\* already has something to return.
ReadChar(p) ==
  /\ holder = p /\ r # w
  /\ LET c == buf[Slot(r)]
         more == c \notin {"^D", "NL"} /\ rd[p].n > 1
     IN  /\ r' = IF c = "^D" /\ rd[p].n < rd[p].target THEN r ELSE Plus(r, 1)
         /\ rd' = [rd EXCEPT ![p] = IF more THEN [rd[p] EXCEPT !.n = @ - 1] ELSE Idle(p)]
         /\ holder' = IF more THEN p ELSE None
  /\ UNCHANGED <<buf, w, e, readUnch>>

\* Nothing to read: return -1 if killed, else go to sleep.
ReadWait(p) ==
  /\ holder = p /\ rd[p].st = "run" /\ r = w
  /\ rd' = [rd EXCEPT ![p] = IF @.killed THEN Idle(p) ELSE [@ EXCEPT !.st = "tosleep"]]
  /\ holder' = IF rd[p].killed THEN None ELSE p
  /\ UNCHANGED <<inputVars, readUnch>>

\* sleep(&input.r, &cons.lock).  A kill() since the test has gone unnoticed.
ReadSleep(p) ==
  /\ rd[p].st = "tosleep"
  /\ rd' = [rd EXCEPT ![p].st = "sleep"] /\ holder' = None
  /\ UNCHANGED <<inputVars, readUnch>>

\* Back from sleep, with cons.lock.
ReadResume(p) ==
  /\ rd[p].st = "woken" /\ holder = None
  /\ rd' = [rd EXCEPT ![p].st = "run"] /\ holder' = p
  /\ UNCHANGED <<inputVars, readUnch>>

\* kill(): a sleeping reader becomes runnable.
kill(p) ==
  /\ ~rd[p].killed
  /\ rd' = [rd EXCEPT ![p].killed = TRUE,
                      ![p].st = IF @ = "sleep" THEN "woken" ELSE @]
  /\ UNCHANGED <<inputVars, readUnch, holder>>

ReaderStep(p) == ReadChar(p) \/ ReadWait(p) \/ ReadSleep(p) \/ ReadResume(p)

\* What programs do.
Programs ==
  \/ \E c \in Out : consolewrite(c) \/ procdump(c)
  \/ \E p \in Reader, n \in 1 .. MaxRead : consoleread(p, n)
  \/ \E p \in Reader : ReaderStep(p) \/ kill(p)

Next == Programs \/ \E c \in Key : consoleintr(c)

Spec == Init /\ [][Next]_vars

\* Some reader that can run does: the kernel always schedules a runnable
\* process.  Nothing obliges anyone to type.
FairSpec == Spec /\ WF_vars(\E p \in Reader : ReaderStep(p))

-----------------------------------------------------------------------------
(* Properties.                                                             *)

\* The characters between two indices of the ring.
Between(a, b) == [i \in 1 .. Minus(b, a) |-> buf[Slot(Plus(a, i - 1))]]
LQ == INSTANCE LineQueue WITH
        Char <- Key \cup {"NL"}, EndOfLine <- {"NL", "^D"}, Size <- INPUT_BUF,
        queue <- Between(r, w), line <- Between(w, e)

\* The ring buffer with its three wrapping indices implements the line queue:
\* characters are read once, in order, kill-line and backspace never reach
\* committed input, and a full ring is always readable.
InputIsLineQueue == LQ!LQSpec

\* 0 <= w - r <= e - r <= INPUT_BUF in unsigned arithmetic, and when the ring
\* is full everything in it is committed: typing can never get stuck with
\* nothing to read and nothing that may be typed.
RingOrder ==
  /\ Minus(w, r) <= Minus(e, r) /\ Minus(e, r) <= INPUT_BUF
  /\ Minus(e, r) = INPUT_BUF => w = e

\* No lost wakeup: a process sleeps in consoleread only while there is no
\* committed input.
SleeperHasNoInput == (\E p \in Reader : rd[p].st = "sleep") => r = w

\* Committed input does not stay while somebody is reading: the next
\* character is consumed, or every read returns (^D is left for a later one).
InputConsumed ==
  \A k \in 0 .. UINT - 1 :
    (r = k /\ r # w /\ \E p \in Reader : rd[p].st # "idle")
      ~> (r # k \/ \A p \in Reader : rd[p].st = "idle")

\* The screen shows the text that a console without menu would show: always
\* outside the table, also when output scrolls the screen under it, and in
\* the table's place once it is gone, unless something was printed while it
\* was open.  The cursor stays above the row that scrolling does not clear.
TextSurvives ==
  /\ \A i \in Cells \ (IF menuStatus THEN MenuCells ELSE {}) : crt[i].ch = plain[i]
  /\ pos \in 0 .. ROWS * COLS - 1

\* With the table hidden, every 7-bit character is in the current colour and
\* every blank has its background: repainting, scrolling (which clears with
\* attribute 0) and restoring agree.
ColorUniform ==
  ~menuStatus =>
    \A i \in Cells :
      /\ crt[i].ch # "hi" => crt[i].attr.bg = currentColor.bg
      /\ crt[i].ch = "lo" => crt[i].attr = currentColor

\* The menu opens and closes exactly on an ALT+l that follows ALT+c, ALT+o
\* (key releases, and keys dropped because the ring is full, do not count).
MenuSequence ==
  [][(menuStatus' # menuStatus) =
       (hist = <<TRUE, "A-o">> /\ hist' = <<FALSE, "A-l">>)]_vars

\* While the table is shown, keys other than kill-line leave the input line,
\* the cursor and the text outside the table alone.
MenuSwallowsKeys ==
  [][\A c \in Key \ {"^U"} :
       menuStatus /\ consoleintr(c) =>
         /\ UNCHANGED <<inputVars, pos>>
         /\ \A i \in Cells \ MenuCells : crt'[i].ch = crt[i].ch]_vars

\* "Dok je tabela prikazana, nista osim tastera za kretanje kroz tabelu ne
\* treba da ima efekat na terminal" (OS Domaci 1.pdf): no key at all does.
MenuSwallowsAllKeys ==
  [][\A c \in Key :
       menuStatus /\ consoleintr(c) =>
         /\ UNCHANGED <<inputVars, pos>>
         /\ \A i \in Cells \ MenuCells : crt'[i].ch = crt[i].ch]_vars
=============================================================================
