------------------------------- MODULE BlockIO ------------------------------
(***************************************************************************)
(* The buffer cache (kernel/bio.c), the sleep lock in every buffer         *)
(* (kernel/sleeplock.c) and the IDE driver with its request queue and      *)
(* interrupt handler (kernel/ide.c), used by concurrent processes.         *)
(*                                                                         *)
(* Critical sections under bcache.lock, idelock and a sleep lock's spin    *)
(* lock are single steps; a process can be overtaken wherever the code has *)
(* released them.  A process uses one buffer at a time and, as the file    *)
(* system does, ends every modification with bwrite or with log_write      *)
(* (which only sets B_DIRTY).                                              *)
(***************************************************************************)
EXTENDS Integers, Sequences, FiniteSets, FiniteSetsExt

CONSTANTS Proc, Block, Val,
          NBUF,
          MaxPinned,   \* buffers that the log may pin with B_DIRTY
          MaxErrors,   \* disk commands that fail, at most
          None

Buf == 1 .. NBUF

ASSUME BlockIOAssumption ==
  /\ IsFiniteSet(Proc) /\ NBUF \in Nat /\ MaxPinned \in Nat
  /\ MaxErrors \in Nat
  /\ Cardinality(Proc) + MaxPinned <= NBUF
  /\ None \notin Proc \cup Buf \cup Block \cup Val

VARIABLES
  lru,       \* the buffer list, most recently used first
  blockno, valid, dirty, refcnt, data,   \* struct buf, one function per field
  owner,     \* who holds the buffer's sleep lock
  idequeue,  \* requests; the first one is active
  dev,       \* the command the disk works on, or NoCmd
  irq,       \* its answer, "ok" or "error", until the interrupt is handled
  disk,      \* contents of the disk
  pc, mine,  \* what each process does, and the buffer it does it with
  panicked,
  latest,    \* history: the last value given to each block
  failed     \* history: blocks with a command that failed

bufVars == <<blockno, valid, dirty, refcnt, data>>
ideVars == <<idequeue, dev, irq>>
ghosts == <<latest, failed>>
vars == <<lru, bufVars, owner, ideVars, disk, pc, mine, panicked, ghosts>>

NoCmd == [cmd |-> "none", block |-> None, val |-> None]

Init ==
  /\ lru = [i \in Buf |-> NBUF + 1 - i]
  /\ blockno = [b \in Buf |-> None] /\ valid = [b \in Buf |-> FALSE]
  /\ dirty = [b \in Buf |-> FALSE] /\ refcnt = [b \in Buf |-> 0]
  /\ data = [b \in Buf |-> None] /\ owner = [b \in Buf |-> None]
  /\ idequeue = <<>> /\ dev = NoCmd /\ irq = "none"
  /\ disk \in [Block -> Val]
  /\ pc = [p \in Proc |-> "idle"] /\ mine = [p \in Proc |-> None]
  /\ panicked = FALSE
  /\ latest = disk /\ failed = {}

Goto(p, l) == pc' = [pc EXCEPT ![p] = l]
panic == panicked' = TRUE /\ UNCHANGED <<lru, bufVars, owner, ideVars, disk, pc, mine, ghosts>>

\* wakeup(): processes asleep at l on buffer b continue at m.
Wakeup(b, l, m) == [p \in Proc |-> IF pc[p] = l /\ mine[p] = b THEN m ELSE pc[p]]

-----------------------------------------------------------------------------
(* bio.c and sleeplock.c.                                                  *)

\* Mutants of the buffer that bget recycles: B_DIRTY does not protect it; a
\* buffer somebody is waiting for is taken.
Recyclable_Pinned(b) == refcnt[b] = 0
Recyclable_Busy(b) == ~dirty[b]

\* Neither in use nor holding data that is not on disk.
Recyclable(b) == refcnt[b] = 0 /\ ~dirty[b]

\* bget's critical section: the buffer that has the block, or the least
\* recently used one that is neither referenced nor pinned.
bget(p, k) ==
  /\ ~panicked /\ pc[p] = "idle"
  /\ LET hit == {b \in Buf : blockno[b] = k}
         unused == {i \in Buf : Recyclable(lru[i])}
     IN  CASE hit # {} -> LET b == CHOOSE b \in hit : TRUE IN
                /\ refcnt' = [refcnt EXCEPT ![b] = @ + 1]
                /\ mine' = [mine EXCEPT ![p] = b] /\ Goto(p, "lock")
                /\ UNCHANGED <<blockno, valid, dirty, data, panicked>>
           [] hit = {} /\ unused # {} -> LET b == lru[Max(unused)] IN
                /\ blockno' = [blockno EXCEPT ![b] = k]
                /\ valid' = [valid EXCEPT ![b] = FALSE]
                /\ refcnt' = [refcnt EXCEPT ![b] = 1]
                /\ mine' = [mine EXCEPT ![p] = b] /\ Goto(p, "lock")
                /\ UNCHANGED <<dirty, data, panicked>>
           [] OTHER -> panicked' = TRUE /\ UNCHANGED <<bufVars, mine, pc>>
  /\ UNCHANGED <<lru, owner, ideVars, disk, ghosts>>

\* Mutant: the lock is not tested again after the wakeup.
acquiresleep_If(p) ==
  /\ ~panicked /\ pc[p] = "lock"
  /\ owner' = [owner EXCEPT ![mine[p]] = p]
  /\ Goto(p, IF valid[mine[p]] THEN "hold" ELSE "iderw")
  /\ UNCHANGED <<lru, bufVars, ideVars, disk, mine, panicked, ghosts>>

\* acquiresleep, and bread's test of B_VALID once it has the lock.
acquiresleep(p) ==
  /\ ~panicked /\ pc[p] = "lock"
  /\ LET b == mine[p] IN
     IF owner[b] # None
     THEN Goto(p, "locksleep") /\ UNCHANGED owner
     ELSE /\ owner' = [owner EXCEPT ![b] = p]
          /\ Goto(p, IF valid[b] THEN "hold" ELSE "iderw")
  /\ UNCHANGED <<lru, bufVars, ideVars, disk, mine, panicked, ghosts>>

\* The holder changes the data and calls bwrite.
bwrite(p, v) ==
  /\ ~panicked /\ pc[p] = "hold"
  /\ LET b == mine[p] IN
     IF owner[b] # p THEN panic ELSE
     /\ data' = [data EXCEPT ![b] = v] /\ latest' = [latest EXCEPT ![blockno[b]] = v]
     /\ dirty' = [dirty EXCEPT ![b] = TRUE]
     /\ Goto(p, "iderw")
     /\ UNCHANGED <<lru, blockno, valid, refcnt, owner, ideVars, disk, mine, panicked,
                    failed>>

\* The holder changes the data and calls log_write: the buffer is pinned.
log_write(p, v) ==
  /\ ~panicked /\ pc[p] = "hold"
  /\ LET b == mine[p] IN
     /\ Cardinality({d \in Buf : dirty[d]} \cup {b}) <= MaxPinned
     /\ data' = [data EXCEPT ![b] = v] /\ latest' = [latest EXCEPT ![blockno[b]] = v]
     /\ dirty' = [dirty EXCEPT ![b] = TRUE]
  /\ UNCHANGED <<lru, blockno, valid, refcnt, owner, ideVars, disk, pc, mine, panicked,
                 failed>>

\* Mutant: wakeup(lk) is missing.
releasesleep_NoWakeup(p) ==
  /\ ~panicked /\ pc[p] = "hold"
  /\ owner' = [owner EXCEPT ![mine[p]] = None]
  /\ Goto(p, "brelse")
  /\ UNCHANGED <<lru, bufVars, ideVars, disk, mine, panicked, ghosts>>

\* brelse: releasesleep first, then the reference, under another lock.
releasesleep(p) ==
  /\ ~panicked /\ pc[p] = "hold"
  /\ LET b == mine[p] IN
     IF owner[b] # p THEN panic ELSE
     /\ owner' = [owner EXCEPT ![b] = None]
     /\ pc' = [Wakeup(b, "locksleep", "lock") EXCEPT ![p] = "brelse"]
     /\ UNCHANGED <<lru, bufVars, ideVars, disk, mine, panicked, ghosts>>

\* The list s with b moved to its head.
MoveToHead(s, b) ==
  [i \in Buf |-> IF i = 1 THEN b
                ELSE IF \E j \in 1 .. i - 1 : s[j] = b THEN s[i] ELSE s[i - 1]]

brelse(p) ==
  /\ ~panicked /\ pc[p] = "brelse"
  /\ LET b == mine[p] IN
     /\ refcnt' = [refcnt EXCEPT ![b] = @ - 1]
     /\ lru' = IF refcnt[b] = 1 THEN MoveToHead(lru, b) ELSE lru
  /\ mine' = [mine EXCEPT ![p] = None] /\ Goto(p, "idle")
  /\ UNCHANGED <<blockno, valid, dirty, data, owner, ideVars, disk, panicked, ghosts>>

-----------------------------------------------------------------------------
(* ide.c.                                                                  *)

\* idestart: the command for buffer b; a write takes the data along.
idestart(b) == [cmd |-> IF dirty[b] THEN "write" ELSE "read",
                block |-> blockno[b], val |-> data[b]]

\* Mutant: every request starts the disk.
iderw_Start(p) ==
  /\ ~panicked /\ pc[p] = "iderw"
  /\ idequeue' = Append(idequeue, mine[p])
  /\ dev' = idestart(mine[p])
  /\ Goto(p, "iosleep")
  /\ UNCHANGED <<lru, bufVars, owner, irq, disk, mine, panicked, ghosts>>

\* iderw up to its sleep(): queue the request, start the disk if it is idle.
iderw(p) ==
  /\ ~panicked /\ pc[p] = "iderw"
  /\ LET b == mine[p] IN
     IF owner[b] # p \/ (valid[b] /\ ~dirty[b]) THEN panic ELSE
     /\ idequeue' = Append(idequeue, b)
     /\ dev' = IF idequeue = <<>> THEN idestart(b) ELSE dev
     /\ Goto(p, "iosleep")
     /\ UNCHANGED <<lru, bufVars, owner, irq, disk, mine, panicked, ghosts>>

\* iderw after sleep(): the request is done, or sleep again.
iderw_test(p) ==
  /\ ~panicked /\ pc[p] = "iotest"
  /\ LET b == mine[p] IN Goto(p, IF valid[b] /\ ~dirty[b] THEN "hold" ELSE "iosleep")
  /\ UNCHANGED <<lru, bufVars, owner, ideVars, disk, mine, panicked, ghosts>>

\* The disk finishes its command, or fails it, and raises the interrupt.
disk_done ==
  /\ dev # NoCmd /\ dev' = NoCmd
  /\ \/ /\ irq' = "ok"
        /\ disk' = IF dev.cmd = "write" THEN [disk EXCEPT ![dev.block] = dev.val] ELSE disk
        /\ UNCHANGED failed
     \/ /\ Cardinality(failed) < MaxErrors
        /\ irq' = "error" /\ failed' = failed \cup {dev.block}
        /\ UNCHANGED disk
  /\ UNCHANGED <<lru, bufVars, owner, idequeue, pc, mine, panicked, latest>>

\* Mutant: the sector is not copied into the buffer.
ideintr_NoData ==
  /\ ~panicked /\ irq # "none" /\ irq' = "none"
  /\ LET b == Head(idequeue) IN
     /\ valid' = [valid EXCEPT ![b] = TRUE] /\ dirty' = [dirty EXCEPT ![b] = FALSE]
     /\ pc' = Wakeup(b, "iosleep", "iotest")
  /\ idequeue' = Tail(idequeue)
  /\ dev' = IF Len(idequeue) > 1 THEN idestart(idequeue[2]) ELSE dev
  /\ UNCHANGED <<lru, blockno, data, refcnt, owner, disk, mine, panicked, ghosts>>

\* ideintr.  A failed read leaves the data alone, a failed write goes
\* unnoticed; both count as done.
ideintr ==
  /\ ~panicked /\ irq # "none" /\ irq' = "none"
  /\ LET b == Head(idequeue) IN
     /\ data' = IF ~dirty[b] /\ irq = "ok" THEN [data EXCEPT ![b] = disk[blockno[b]]] ELSE data
     /\ valid' = [valid EXCEPT ![b] = TRUE] /\ dirty' = [dirty EXCEPT ![b] = FALSE]
     /\ pc' = Wakeup(b, "iosleep", "iotest")
  /\ idequeue' = Tail(idequeue)
  /\ dev' = IF Len(idequeue) > 1 THEN idestart(idequeue[2]) ELSE dev
  /\ UNCHANGED <<lru, blockno, refcnt, owner, disk, mine, panicked, ghosts>>

-----------------------------------------------------------------------------

Client(p) ==
  \/ acquiresleep(p) \/ iderw(p) \/ iderw_test(p)
  \/ releasesleep(p) \/ brelse(p)

Next ==
  \/ \E p \in Proc : Client(p)
  \/ \E p \in Proc, k \in Block : bget(p, k)
  \/ \E p \in Proc, v \in Val : bwrite(p, v) \/ log_write(p, v)
  \/ disk_done \/ ideintr

Spec == Init /\ [][Next]_vars

-----------------------------------------------------------------------------
(* Properties.                                                             *)

Holds(p) == pc[p] \in {"hold", "iderw", "iosleep", "iotest"}

\* The cache is the one place where a block can be seen: no two buffers have
\* the same block, every reference is counted, and only the process that
\* locked a buffer is using it (bio.c:13, "Only one process at a time can use
\* a buffer").
OneBufferPerBlock ==
  /\ \A a, b \in Buf : blockno[a] = blockno[b] /\ blockno[a] # None => a = b
  /\ \A b \in Buf : refcnt[b] = Cardinality({p \in Proc : mine[p] = b})
  /\ \A p \in Proc : Holds(p) => owner[mine[p]] = p

\* Whoever has a buffer from bread sees the last value that any process gave
\* to the block: none is lost by recycling a buffer, not even one that only
\* the log has pinned, and a buffer is not read before the disk has filled it.
\* (If no command for the block has failed.)
ReadsLastWrite ==
  \A p \in Proc : pc[p] = "hold" /\ blockno[mine[p]] \notin failed =>
                    data[mine[p]] = latest[blockno[mine[p]]]

\* Whatever is not in a dirty buffer or in the queue is on disk.
CleanIsOnDisk ==
  \A k \in Block : \/ disk[k] = latest[k] \/ k \in failed
                   \/ \E b \in Buf : blockno[b] = k /\ dirty[b]

\* The queue: every request belongs to a process that waits for it in iderw,
\* is there once, and the disk works on the first one or has just finished it.
QueueMatchesDisk ==
  /\ \A i \in 1 .. Len(idequeue) : \E p \in Proc : pc[p] = "iosleep" /\ mine[p] = idequeue[i]
  /\ IsInjective(idequeue)
  /\ idequeue = <<>> <=> dev = NoCmd /\ irq = "none"
  /\ ~(dev # NoCmd /\ irq # "none")
  /\ dev # NoCmd => dev.block = blockno[Head(idequeue)]

\* A process asleep on a buffer's lock has somebody to wake it.
SleeperHasHolder ==
  \A p \in Proc : pc[p] = "locksleep" => owner[mine[p]] # None

\* None of bget, bwrite, brelse, iderw panics while the buffers suffice for
\* one per process and the pinned ones.
NoPanic == ~panicked
=============================================================================
