----------------------------- MODULE AtomicDisk -----------------------------
(***************************************************************************)
(* What the logging layer (kernel/log.c) promises the file system: the     *)
(* updates of the system calls between begin_op() and end_op() reach the   *)
(* disk all together or not at all, and never while one of them is still   *)
(* in progress.                                                            *)
(***************************************************************************)
CONSTANTS Block,    \* home blocks of the file system
          Val,      \* contents of a block
          Proc      \* processes that execute FS system calls

VARIABLES stable,   \* the file system a crash now would leave behind
          current,  \* the file system as the running kernel sees it
          open      \* processes between begin_op() and end_op()

adVars == <<stable, current, open>>

ADInit ==
  /\ stable \in [Block -> Val]
  /\ current = stable
  /\ open = {}

Begin(p) ==
  /\ open' = open \cup {p}
  /\ UNCHANGED <<stable, current>>

Write(p, b, v) ==
  /\ p \in open
  /\ current' = [current EXCEPT ![b] = v]
  /\ UNCHANGED <<stable, open>>

End(p) ==
  /\ p \in open
  /\ open' = open \ {p}
  /\ UNCHANGED <<stable, current>>

\* All finished system calls become durable in one step.
Commit ==
  /\ open = {}
  /\ stable' = current
  /\ UNCHANGED <<current, open>>

\* The unfinished and the uncommitted system calls vanish.
CrashReboot ==
  /\ current' = stable
  /\ open' = {}
  /\ UNCHANGED stable

ADNext ==
  \/ \E p \in Proc : Begin(p) \/ End(p)
  \/ \E p \in Proc, b \in Block, v \in Val : Write(p, b, v)
  \/ Commit
  \/ CrashReboot

ADSpec == ADInit /\ [][ADNext]_adVars
=============================================================================
