------------------------------ MODULE ByteQueue -----------------------------
(***************************************************************************)
(* What a pipe promises: a bounded queue of bytes.  A write appends, a     *)
(* read takes from the front, and only making or dropping the pipe empties *)
(* it otherwise.                                                           *)
(***************************************************************************)
EXTENDS Naturals, Sequences

CONSTANTS Byte, Size

VARIABLES q,      \* bytes written and not yet read
          open    \* the pipe exists

bqVars == <<q, open>>

BQInit == q = <<>> /\ open = FALSE

Create == ~open /\ open' = TRUE /\ q' = <<>>

Write ==
  /\ open /\ open' = open
  /\ \E n \in 1 .. Size - Len(q) : \E s \in [1 .. n -> Byte] : q' = q \o s

Read ==
  /\ open /\ open' = open
  /\ \E n \in 1 .. Len(q) : q' = SubSeq(q, n + 1, Len(q))

Drop == open /\ open' = FALSE /\ q' = <<>>

BQNext == Create \/ Write \/ Read \/ Drop

BQSpec == BQInit /\ [][BQNext]_bqVars
=============================================================================
