----------------------------- MODULE LineQueue ------------------------------
(***************************************************************************)
(* What the console's input side promises its readers, without ring        *)
(* buffer and indices: a line under edition and a queue of committed       *)
(* characters, bounded together by Size; characters are committed in the   *)
(* order they were typed, each is read once, none is invented, and a full  *)
(* buffer is committed so that readers can always drain it.                *)
(***************************************************************************)
EXTENDS Naturals, Sequences

CONSTANTS Char,      \* characters
          EndOfLine, \* those that commit the line
          Size

VARIABLES queue,   \* committed characters, not yet read
          line     \* characters that can still be erased

lqVars == <<queue, line>>

LQInit == queue = <<>> /\ line = <<>>

Type(c) ==
  /\ Len(queue) + Len(line) < Size
  /\ IF c \in EndOfLine \/ Len(queue) + Len(line) + 1 = Size
     THEN line' = <<>> /\ queue' = queue \o Append(line, c)
     ELSE line' = Append(line, c) /\ queue' = queue

Erase ==
  /\ line # <<>>
  /\ line' = SubSeq(line, 1, Len(line) - 1) /\ queue' = queue

KillLine == line' = <<>> /\ queue' = queue

Read ==
  /\ queue # <<>>
  /\ queue' = Tail(queue) /\ line' = line

LQNext == Erase \/ KillLine \/ Read \/ \E c \in Char : Type(c)

LQSpec == LQInit /\ [][LQNext]_lqVars
=============================================================================
