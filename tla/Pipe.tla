-------------------------------- MODULE Pipe --------------------------------
(***************************************************************************)
(* Pipes (kernel/pipe.c) as processes use them: the table of open files    *)
(* (kernel/file.c), file descriptors and the system calls pipe, dup,       *)
(* close, read and write (kernel/sysfile.c), and what fork, exit and kill  *)
(* (kernel/proc.c) do to descriptors and sleepers.                         *)
(*                                                                         *)
(* There is one page for a pipe; kalloc may also fail.  plock is the       *)
(* pipe's spin lock, held from the test of the condition to sleep(): a     *)
(* kill() is not kept out by it.                                           *)
(***************************************************************************)
EXTENDS Integers, FiniteSets, FiniteSetsExt

CONSTANTS Proc, First,   \* processes; the one that never exits
          NOFILE,        \* descriptors of a process
          NFILE,         \* entries of ftable
          PIPESIZE,      \* 512
          UINT,          \* 2^32, the range of nread and nwrite
          Byte,
          MaxCount       \* longest read or write

FD == 1 .. NOFILE
File == 1 .. NFILE
None == 0

ASSUME PipeAssumption ==
  /\ First \in Proc /\ IsFiniteSet(Proc) /\ NOFILE \in Nat /\ NFILE \in Nat
  /\ PIPESIZE \in Nat \ {0} /\ UINT \in Nat
  /\ UINT % PIPESIZE = 0 /\ PIPESIZE < UINT
  /\ Byte # {} /\ MaxCount \in Nat

VARIABLES
  ofile,                    \* open descriptors of each process
  ref, type, writable,      \* struct file, one function per field
  page,                     \* the pipe is allocated
  nread, nwrite, data, readopen, writeopen, plock,   \* struct pipe
  alive, killed,
  exiting,                  \* the process is inside exit()
  pc,                       \* what each process does
  tmp,                      \* sys_pipe: the file it has so far
  count,                    \* read, write: bytes still to move
  silent                    \* history: a killed writer has left bytes in the
                            \* pipe and no reader was woken since

fileVars == <<ref, type, writable>>
pipeVars == <<page, nread, nwrite, data, readopen, writeopen, silent>>
procVars == <<alive, killed, exiting>>
opVars == <<tmp, count>>
vars == <<ofile, fileVars, pipeVars, plock, procVars, pc, opVars>>

\* kfree fills a page with one value.
Junk == [i \in 0 .. PIPESIZE - 1 |-> CHOOSE b \in Byte : TRUE]

Init ==
  /\ ofile = [p \in Proc |-> [d \in FD |-> None]]
  /\ ref = [f \in File |-> 0] /\ type = [f \in File |-> "none"]
  /\ writable = [f \in File |-> FALSE]
  /\ page = FALSE /\ nread = 0 /\ nwrite = 0 /\ data = Junk
  /\ readopen = FALSE /\ writeopen = FALSE /\ silent = FALSE /\ plock = FALSE
  /\ alive = [p \in Proc |-> p = First] /\ killed = [p \in Proc |-> FALSE]
  /\ exiting = [p \in Proc |-> FALSE]
  /\ pc = [p \in Proc |-> "user"]
  /\ tmp = [p \in Proc |-> None] /\ count = [p \in Proc |-> 0]

Goto(p, l) == pc' = [pc EXCEPT ![p] = l]

\* A process that has been killed makes no more system calls (trap.c).
Syscall(p) == alive[p] /\ ~killed[p] /\ pc[p] = "user"

\* wakeup: those asleep at l continue at m.
Wakeup(f, l, m) == [p \in Proc |-> IF f[p] = l THEN m ELSE f[p]]

-----------------------------------------------------------------------------
(* file.c, and the system calls on descriptors.                            *)

FreeFiles == {f \in File : ref[f] = 0}
FreeFDs(p) == {d \in FD : ofile[p][d] = None}

\* pipe(): the first filealloc.
sys_pipe(p) ==
  /\ Syscall(p) /\ FreeFiles # {}
  /\ ref' = [ref EXCEPT ![Min(FreeFiles)] = 1]
  /\ tmp' = [tmp EXCEPT ![p] = Min(FreeFiles)]
  /\ Goto(p, "pipe")
  /\ UNCHANGED <<ofile, type, writable, pipeVars, plock, procVars, count>>

\* The rest of pipe(): the second file, the page and two descriptors.
pipealloc(p) ==
  /\ pc[p] = "pipe" /\ FreeFiles # {} /\ ~page /\ Cardinality(FreeFDs(p)) >= 2
  /\ LET rf == tmp[p]
         wf == Min(FreeFiles)
         d0 == Min(FreeFDs(p))
         d1 == Min(FreeFDs(p) \ {d0})
     IN  /\ ref' = [ref EXCEPT ![wf] = 1]
         /\ type' = [type EXCEPT ![rf] = "pipe", ![wf] = "pipe"]
         /\ writable' = [writable EXCEPT ![rf] = FALSE, ![wf] = TRUE]
         /\ ofile' = [ofile EXCEPT ![p][d0] = rf, ![p][d1] = wf]
  /\ page' = TRUE /\ nread' = 0 /\ nwrite' = 0
  /\ readopen' = TRUE /\ writeopen' = TRUE /\ silent' = FALSE
  /\ tmp' = [tmp EXCEPT ![p] = None] /\ Goto(p, "user")
  /\ UNCHANGED <<data, plock, procVars, count>>

\* No second file, no page (always possible) or no two descriptors: what was
\* allocated is given back.
pipealloc_bad(p) ==
  /\ pc[p] = "pipe"
  /\ ref' = [ref EXCEPT ![tmp[p]] = 0]
  /\ tmp' = [tmp EXCEPT ![p] = None] /\ Goto(p, "user")
  /\ UNCHANGED <<ofile, type, writable, pipeVars, plock, procVars, count>>

\* dup(): fdalloc and filedup.
sys_dup(p, d) ==
  /\ Syscall(p) /\ ofile[p][d] # None /\ FreeFDs(p) # {}
  /\ ofile' = [ofile EXCEPT ![p][Min(FreeFDs(p))] = ofile[p][d]]
  /\ ref' = [ref EXCEPT ![ofile[p][d]] = @ + 1]
  /\ UNCHANGED <<type, writable, pipeVars, plock, procVars, pc, opVars>>

\* fileclose, for descriptor d of p: the last reference goes on to pipeclose
\* after ftable.lock has been released.
fileclose(p, d) ==
  LET f == ofile[p][d] IN
  /\ ofile' = [ofile EXCEPT ![p][d] = None]
  /\ ref' = [ref EXCEPT ![f] = @ - 1]
  /\ IF ref[f] > 1
     THEN UNCHANGED <<type, pc>>
     ELSE /\ type' = [type EXCEPT ![f] = "none"]
          /\ Goto(p, IF writable[f] THEN "closew" ELSE "closer")
  /\ UNCHANGED <<writable, pipeVars, plock, procVars, opVars>>

sys_close(p, d) ==
  Syscall(p) /\ ofile[p][d] # None /\ fileclose(p, d)

-----------------------------------------------------------------------------
(* proc.c.                                                                 *)

\* Mutant: the child shares the files without counting itself.
fork_NoDup(p, c) ==
  /\ Syscall(p) /\ ~alive[c]
  /\ ofile' = [ofile EXCEPT ![c] = ofile[p]]
  /\ ref' = ref
  /\ alive' = [alive EXCEPT ![c] = TRUE]
  /\ UNCHANGED <<type, writable, pipeVars, plock, killed, exiting, pc, opVars>>

fork(p, c) ==
  /\ Syscall(p) /\ ~alive[c]
  /\ ofile' = [ofile EXCEPT ![c] = ofile[p]]
  /\ ref' = [f \in File |-> ref[f] + Cardinality({d \in FD : ofile[p][d] = f})]
  /\ alive' = [alive EXCEPT ![c] = TRUE]
  /\ UNCHANGED <<type, writable, pipeVars, plock, killed, exiting, pc, opVars>>

\* exit(), by choice or because the process has been killed: close every
\* descriptor.
sys_exit(p) ==
  /\ alive[p] /\ p # First /\ pc[p] = "user"
  /\ exiting' = [exiting EXCEPT ![p] = TRUE] /\ Goto(p, "exit")
  /\ UNCHANGED <<ofile, fileVars, pipeVars, plock, alive, killed, opVars>>

exit(p) ==
  /\ pc[p] = "exit"
  /\ LET held == FD \ FreeFDs(p) IN
     \/ held # {} /\ fileclose(p, Min(held))
     \/ /\ held = {}
        /\ exiting' = [exiting EXCEPT ![p] = FALSE]
        /\ alive' = [alive EXCEPT ![p] = FALSE]
        /\ killed' = [killed EXCEPT ![p] = FALSE] /\ Goto(p, "user")
        /\ UNCHANGED <<ofile, fileVars, pipeVars, plock, opVars>>

\* kill(): the victim is marked, and woken if it is asleep.
kill(p) ==
  /\ alive[p] /\ p # First /\ ~killed[p]
  /\ killed' = [killed EXCEPT ![p] = TRUE]
  /\ pc' = [pc EXCEPT ![p] = CASE @ = "rsleep" -> "read" [] @ = "wsleep" -> "write"
                               [] OTHER -> @]
  /\ UNCHANGED <<ofile, fileVars, pipeVars, plock, alive, exiting, opVars>>

-----------------------------------------------------------------------------
(* pipe.c.                                                                 *)

Full == nwrite = (nread + PIPESIZE) % UINT
Empty == nread = nwrite
Used == (nwrite - nread) % UINT
Room == PIPESIZE - Used

\* Mutant: freed as soon as one end is closed.
pipeclose_Either(p) ==
  /\ ~plock
  /\ LET after == IF exiting[p] THEN "exit" ELSE "user" IN
     \/ /\ pc[p] = "closew"
        /\ writeopen' = FALSE /\ silent' = FALSE /\ UNCHANGED readopen
        /\ pc' = [Wakeup(pc, "rsleep", "read") EXCEPT ![p] = after]
     \/ /\ pc[p] = "closer"
        /\ readopen' = FALSE /\ UNCHANGED <<writeopen, silent>>
        /\ pc' = [Wakeup(pc, "wsleep", "write") EXCEPT ![p] = after]
  /\ page' = (readopen' /\ writeopen')
  /\ IF page' THEN UNCHANGED <<nread, nwrite, data>>
              ELSE nread' = 0 /\ nwrite' = 0 /\ data' = Junk
  /\ UNCHANGED <<ofile, fileVars, plock, procVars, opVars>>

pipeclose(p) ==
  /\ ~plock
  /\ LET after == IF exiting[p] THEN "exit" ELSE "user" IN
     \/ /\ pc[p] = "closew"
        /\ writeopen' = FALSE /\ silent' = FALSE /\ UNCHANGED readopen
        /\ pc' = [Wakeup(pc, "rsleep", "read") EXCEPT ![p] = after]
     \/ /\ pc[p] = "closer"
        /\ readopen' = FALSE /\ UNCHANGED <<writeopen, silent>>
        /\ pc' = [Wakeup(pc, "wsleep", "write") EXCEPT ![p] = after]
  /\ page' = (readopen' \/ writeopen')
  /\ IF page' THEN UNCHANGED <<nread, nwrite, data>>
              ELSE nread' = 0 /\ nwrite' = 0 /\ data' = Junk
  /\ UNCHANGED <<ofile, fileVars, plock, procVars, opVars>>

\* write(d, addr, n); filewrite and fileread test the direction.
sys_write(p, d, n) ==
  /\ Syscall(p) /\ ofile[p][d] # None /\ writable[ofile[p][d]]
  /\ count' = [count EXCEPT ![p] = n]
  /\ Goto(p, "write")
  /\ UNCHANGED <<ofile, fileVars, pipeVars, plock, procVars, tmp>>

\* pipewrite from acquire or from the end of sleep: store what fits of the
\* user's bytes (any).  If that
\* is not all, give up when the reader is gone or the process is killed, else
\* wake readers and go to sleep.
pipewrite(p) ==
  /\ pc[p] = "write" /\ ~plock
  /\ LET m == Min({count[p], Room})
         left == count[p] - m
         stop == left > 0 /\ (~readopen \/ killed[p])
         At(j) == ((nwrite + j) % UINT) % PIPESIZE
     IN  /\ \E addr \in [0 .. m - 1 -> Byte] :
              data' = [i \in DOMAIN data |->
                         IF \E j \in 0 .. m - 1 : i = At(j)
                         THEN addr[CHOOSE j \in 0 .. m - 1 : i = At(j)] ELSE data[i]]
         /\ nwrite' = (nwrite + m) % UINT
         /\ count' = [count EXCEPT ![p] = IF stop THEN 0 ELSE left]
         /\ plock' = (left > 0 /\ ~stop)
         /\ IF stop
            THEN Goto(p, "user") /\ silent' = (silent \/ m > 0)
            ELSE /\ pc' = [Wakeup(pc, "rsleep", "read") EXCEPT
                             ![p] = IF left = 0 THEN "user" ELSE "wgosleep"]
                 /\ silent' = FALSE
  /\ UNCHANGED <<ofile, fileVars, page, nread, readopen, writeopen, procVars, tmp>>

sys_read(p, d, n) ==
  /\ Syscall(p) /\ ofile[p][d] # None /\ ~writable[ofile[p][d]]
  /\ count' = [count EXCEPT ![p] = n] /\ Goto(p, "read")
  /\ UNCHANGED <<ofile, fileVars, pipeVars, plock, procVars, tmp>>

\* Mutant: writers are not woken.
piperead_NoWakeup(p) ==
  /\ pc[p] = "read" /\ ~plock
  /\ IF Empty /\ writeopen
     THEN /\ \/ killed[p] /\ Goto(p, "user") /\ plock' = FALSE
                /\ count' = [count EXCEPT ![p] = 0]
             \/ ~killed[p] /\ Goto(p, "rgosleep") /\ plock' = TRUE /\ UNCHANGED count
          /\ UNCHANGED nread
     ELSE /\ nread' = (nread + Min({count[p], Used})) % UINT
          /\ count' = [count EXCEPT ![p] = 0]
          /\ Goto(p, "user")
          /\ UNCHANGED plock
  /\ UNCHANGED <<ofile, fileVars, page, nwrite, data, readopen, writeopen, silent,
                 procVars, tmp>>

\* Mutant: the copy does not stop at nwrite.
piperead_Overrun(p) ==
  /\ pc[p] = "read" /\ ~plock
  /\ IF Empty /\ writeopen
     THEN /\ \/ killed[p] /\ Goto(p, "user") /\ plock' = FALSE
                /\ count' = [count EXCEPT ![p] = 0]
             \/ ~killed[p] /\ Goto(p, "rgosleep") /\ plock' = TRUE /\ UNCHANGED count
          /\ UNCHANGED nread
     ELSE /\ nread' = (nread + count[p]) % UINT
          /\ count' = [count EXCEPT ![p] = 0]
          /\ pc' = [Wakeup(pc, "wsleep", "write") EXCEPT ![p] = "user"]
          /\ UNCHANGED plock
  /\ UNCHANGED <<ofile, fileVars, page, nwrite, data, readopen, writeopen, silent,
                 procVars, tmp>>

\* piperead from acquire or from the end of sleep.
piperead(p) ==
  /\ pc[p] = "read" /\ ~plock
  /\ IF Empty /\ writeopen
     THEN /\ \/ killed[p] /\ Goto(p, "user") /\ plock' = FALSE
                /\ count' = [count EXCEPT ![p] = 0]
             \/ ~killed[p] /\ Goto(p, "rgosleep") /\ plock' = TRUE /\ UNCHANGED count
          /\ UNCHANGED nread
     ELSE /\ nread' = (nread + Min({count[p], Used})) % UINT
          /\ count' = [count EXCEPT ![p] = 0]
          /\ pc' = [Wakeup(pc, "wsleep", "write") EXCEPT ![p] = "user"]
          /\ UNCHANGED plock
  /\ UNCHANGED <<ofile, fileVars, page, nwrite, data, readopen, writeopen, silent,
                 procVars, tmp>>

\* sleep(&p->nread, &p->lock) or sleep(&p->nwrite, &p->lock): asleep, and the
\* pipe's lock released, in one critical section of ptable.lock.
sleep(p) ==
  /\ \/ pc[p] = "rgosleep" /\ Goto(p, "rsleep")
     \/ pc[p] = "wgosleep" /\ Goto(p, "wsleep")
  /\ plock' = FALSE
  /\ UNCHANGED <<ofile, fileVars, pipeVars, procVars, opVars>>

-----------------------------------------------------------------------------

Step(p) ==
  \/ pipealloc(p) \/ pipealloc_bad(p) \/ pipeclose(p) \/ exit(p)
  \/ pipewrite(p) \/ piperead(p) \/ sleep(p)

Call(p) ==
  \/ sys_pipe(p) \/ sys_exit(p) \/ kill(p)
  \/ \E c \in Proc : fork(p, c)
  \/ \E d \in FD : sys_dup(p, d) \/ sys_close(p, d)
  \/ \E d \in FD, n \in 1 .. MaxCount : sys_read(p, d, n) \/ sys_write(p, d, n)

Next == \E p \in Proc : Step(p) \/ Call(p)

Spec == Init /\ [][Next]_vars

-----------------------------------------------------------------------------
(* Properties.                                                             *)

InPipe == {"read", "rgosleep", "rsleep", "write", "wgosleep", "wsleep", "closer", "closew"}

\* A file's reference count is the number of descriptors of all processes
\* that refer to it, through dup, fork, exit and failed pipe() calls.
RefsAreDescriptors ==
  \A f \in File :
    ref[f] = Cardinality({x \in Proc \X FD : ofile[x[1]][x[2]] = f})
             + Cardinality({p \in Proc : tmp[p] = f})

\* The pipe's page lives exactly as long as one of its ends: nobody reads,
\* writes, sleeps on or closes a pipe whose page has been freed, and it is
\* not freed twice.
NoUseAfterFree ==
  /\ \A p \in Proc : pc[p] \in InPipe => page
  /\ page <=> readopen \/ writeopen

\* Lost wakeups: a writer sleeps only on a full pipe with a reader, a reader
\* only on one with a writer, and with bytes in it only because the writer
\* that stored them was killed.
SleepersWaitForCause ==
  \A p \in Proc : /\ pc[p] = "rsleep" => writeopen /\ (Empty \/ silent)
                  /\ pc[p] = "wsleep" => Full /\ readopen

Contents == [i \in 1 .. Used |-> data[((nread + i - 1) % UINT) % PIPESIZE]]
BQ == INSTANCE ByteQueue WITH Size <- PIPESIZE, q <- IF page THEN Contents ELSE <<>>,
                              open <- page

\* The ring buffer with wrapping counters is a bounded queue of bytes.
PipeIsByteQueue == BQ!BQSpec
=============================================================================
