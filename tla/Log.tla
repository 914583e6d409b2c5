-------------------------------- MODULE Log ---------------------------------
(***************************************************************************)
(* The redo log of kernel/log.c: begin_op, log_write, end_op, the group    *)
(* commit that the last end_op runs one disk write at a time, a crash      *)
(* between any two disk writes, and the recovery that initlog runs at the  *)
(* next boot (during which the machine may crash again).                   *)
(*                                                                         *)
(* A disk write of one block is atomic (one 512-byte sector, and initlog   *)
(* panics unless the header fits in it).  A caller modifies b->data under  *)
(* the buffer's sleep lock and calls log_write before brelse, so the       *)
(* modification and log_write are one step here.                           *)
(***************************************************************************)
EXTENDS Integers, Sequences, FiniteSets

CONSTANTS Block,        \* home blocks
          Val,          \* contents of a block
          Proc,         \* processes
          LOGSIZE,      \* param.h: max data blocks in the log
          MAXOPBLOCKS,  \* param.h: blocks begin_op reserves for an operation
          NLOG,         \* superblock nlog: log blocks on disk, header included
          OpBlocks      \* distinct blocks one system call really logs, at most

ASSUME LogAssumption ==
  /\ LOGSIZE \in Nat /\ MAXOPBLOCKS \in Nat \ {0} /\ NLOG \in Nat
  /\ MAXOPBLOCKS <= LOGSIZE
  /\ NLOG = LOGSIZE               \* tools/mkfs.c:25
  /\ OpBlocks \in Nat /\ OpBlocks <= MAXOPBLOCKS
  /\ IsFiniteSet(Proc)

VARIABLES
  disk,         \* home blocks on disk
  logd,         \* data blocks of the on-disk log
  hd,           \* on-disk log header: the block numbers, its length is n
  cache,        \* what bread() returns for each home block
  dirty,        \* home blocks pinned in the cache by B_DIRTY
  lh,           \* log.lh, the in-memory header
  outstanding,  \* log.outstanding
  committing,   \* log.committing
  pc,           \* where each process is: see PCs
  used,         \* distinct blocks its current operation has logged
  stage,        \* next disk write of commit() or recover_from_log()
  tail,         \* the loop counter of write_log() and install_trans()
  panicked      \* the kernel has called panic()

vars == <<disk, logd, hd, cache, dirty, lh, outstanding, committing, pc, used,
          stage, tail, panicked>>
durable == <<disk, logd, hd>>

\* "begin": inside begin_op's loop, runnable; "sleep": asleep on &log there.
PCs == {"idle", "begin", "sleep", "op", "commit"}
Stages == {"none", "write_log", "write_head", "install", "clear_head",
           "read_head", "recover", "recover_clear", "finish"}
Booting == stage \in {"read_head", "recover", "recover_clear"}
Slots == 1 .. LOGSIZE

Logged(s) == {s[i] : i \in 1 .. Len(s)}

Init ==
  /\ disk \in [Block -> Val]
  /\ \E v \in Val : logd = [i \in Slots |-> v]
  /\ hd = <<>> /\ lh = <<>>
  /\ cache = disk /\ dirty = {}
  /\ outstanding = 0 /\ committing = FALSE
  /\ pc = [p \in Proc |-> "idle"] /\ used = [p \in Proc |-> {}]
  /\ stage = "none" /\ tail = 0
  /\ panicked = FALSE

Running == ~panicked /\ ~Booting

\* wakeup(&log): every process asleep in begin_op becomes runnable.
Wakeup(f) == [p \in Proc |-> IF f[p] = "sleep" THEN "begin" ELSE f[p]]

-----------------------------------------------------------------------------
(* System calls.                                                           *)

\* The condition under which begin_op sleeps.
MustWait == committing \/ Len(lh) + (outstanding + 1) * MAXOPBLOCKS > LOGSIZE

begin_op(p) ==
  /\ Running /\ pc[p] \in {"idle", "begin"}
  /\ IF MustWait
     THEN pc' = [pc EXCEPT ![p] = "sleep"] /\ UNCHANGED outstanding
     ELSE pc' = [pc EXCEPT ![p] = "op"] /\ outstanding' = outstanding + 1
  /\ UNCHANGED <<durable, cache, dirty, lh, committing, used, stage, tail,
                 panicked>>

\* log_write's panics, which it tests before it takes log.lock.
TooBig == Len(lh) >= LOGSIZE \/ Len(lh) >= NLOG - 1
OutsideTrans == outstanding < 1

\* The header after log_write(b): an already logged block is absorbed.
Absorb(b) == IF b \in Logged(lh) THEN lh ELSE Append(lh, b)

\* Mutant: the buffer is not pinned with B_DIRTY.
log_write_NoPin(p, b, v) ==
  /\ Running /\ pc[p] = "op"
  /\ Cardinality(used[p] \cup {b}) <= OpBlocks
  /\ cache' = [cache EXCEPT ![b] = v]
  /\ IF TooBig \/ OutsideTrans
     THEN panicked' = TRUE /\ UNCHANGED <<lh, used>>
     ELSE /\ lh' = Absorb(b)
          /\ used' = [used EXCEPT ![p] = @ \cup {b}]
          /\ UNCHANGED panicked
  /\ UNCHANGED <<durable, dirty, outstanding, committing, pc, stage, tail>>

log_write(p, b, v) ==
  /\ Running /\ pc[p] = "op"
  /\ Cardinality(used[p] \cup {b}) <= OpBlocks
  /\ cache' = [cache EXCEPT ![b] = v]
  /\ IF TooBig \/ OutsideTrans
     THEN panicked' = TRUE /\ UNCHANGED <<lh, dirty, used>>
     ELSE /\ lh' = Absorb(b)
          /\ dirty' = dirty \cup {b}
          /\ used' = [used EXCEPT ![p] = @ \cup {b}]
          /\ UNCHANGED panicked
  /\ UNCHANGED <<durable, outstanding, committing, pc, stage, tail>>

\* Mutant: an end_op that is not the last does not wake waiting operations.
end_op_NoWakeup(p) ==
  /\ Running /\ pc[p] = "op"
  /\ outstanding' = outstanding - 1
  /\ used' = [used EXCEPT ![p] = {}]
  /\ IF outstanding = 1
     THEN /\ committing' = TRUE
          /\ pc' = [pc EXCEPT ![p] = "commit"]
          /\ stage' = IF lh = <<>> THEN "finish" ELSE "write_log"
          /\ tail' = 0
     ELSE pc' = [pc EXCEPT ![p] = "idle"] /\ UNCHANGED <<committing, stage, tail>>
  /\ UNCHANGED <<durable, cache, dirty, lh, panicked>>

\* end_op up to its first release(&log.lock); the last operation goes on to
\* commit(), which returns at once when nothing was logged.
end_op(p) ==
  /\ Running /\ pc[p] = "op"
  /\ outstanding' = outstanding - 1
  /\ used' = [used EXCEPT ![p] = {}]
  /\ CASE committing ->
            /\ panicked' = TRUE
            /\ UNCHANGED <<pc, committing, stage, tail>>
       [] ~committing /\ outstanding = 1 ->
            /\ committing' = TRUE
            /\ pc' = [pc EXCEPT ![p] = "commit"]
            /\ stage' = IF lh = <<>> THEN "finish" ELSE "write_log"
            /\ tail' = 0
            /\ UNCHANGED panicked
       [] OTHER ->
            /\ pc' = Wakeup([pc EXCEPT ![p] = "idle"])
            /\ UNCHANGED <<committing, stage, tail, panicked>>
  /\ UNCHANGED <<durable, cache, dirty, lh>>

-----------------------------------------------------------------------------
(* commit(), one disk write per step, run by the process in "commit".      *)

write_log ==
  /\ Running /\ stage = "write_log"
  /\ logd' = [logd EXCEPT ![tail + 1] = cache[lh[tail + 1]]]
  /\ tail' = tail + 1
  /\ stage' = IF tail + 1 = Len(lh) THEN "write_head" ELSE "write_log"
  /\ UNCHANGED <<disk, hd, cache, dirty, lh, outstanding, committing, pc, used,
                 panicked>>

\* The commit point.
write_head ==
  /\ Running /\ stage = "write_head"
  /\ hd' = lh
  /\ stage' = "install" /\ tail' = 0
  /\ UNCHANGED <<disk, logd, cache, dirty, lh, outstanding, committing, pc,
                 used, panicked>>

\* One iteration of install_trans(): copy a log block to its home location
\* through the cache; completing the write clears B_DIRTY.
InstallBlock ==
  LET b == lh[tail + 1] IN
  /\ cache' = [cache EXCEPT ![b] = logd[tail + 1]]
  /\ disk' = [disk EXCEPT ![b] = logd[tail + 1]]
  /\ dirty' = dirty \ {b}
  /\ tail' = tail + 1
  /\ UNCHANGED <<logd, hd, lh, outstanding, committing, pc, used, panicked>>

\* Mutant: the last log block is not installed.
install_trans_OneShort ==
  /\ Running /\ stage = "install"
  /\ InstallBlock
  /\ stage' = IF tail + 2 >= Len(lh) THEN "clear_head" ELSE "install"

install_trans ==
  /\ Running /\ stage = "install"
  /\ InstallBlock
  /\ stage' = IF tail + 1 = Len(lh) THEN "clear_head" ELSE "install"

\* Mutant: lh.n = 0 is not written to disk.
clear_head_MemoryOnly ==
  /\ Running /\ stage = "clear_head"
  /\ lh' = <<>>
  /\ stage' = "finish" /\ tail' = 0
  /\ UNCHANGED <<durable, cache, dirty, outstanding, committing, pc, used, panicked>>

\* lh.n = 0 and the second write_head() of commit().
clear_head ==
  /\ Running /\ stage = "clear_head"
  /\ lh' = <<>> /\ hd' = <<>>
  /\ stage' = "finish" /\ tail' = 0
  /\ UNCHANGED <<disk, logd, cache, dirty, outstanding, committing, pc, used,
                 panicked>>

\* Mutant: the wakeup after commit() is missing.
commit_done_NoWakeup(p) ==
  /\ Running /\ stage = "finish" /\ pc[p] = "commit"
  /\ committing' = FALSE
  /\ pc' = [pc EXCEPT ![p] = "idle"]
  /\ stage' = "none"
  /\ UNCHANGED <<durable, cache, dirty, lh, outstanding, used, tail, panicked>>

\* The end of end_op: committing = 0, wakeup(&log).
commit_done(p) ==
  /\ Running /\ stage = "finish" /\ pc[p] = "commit"
  /\ committing' = FALSE
  /\ pc' = Wakeup([pc EXCEPT ![p] = "idle"])
  /\ stage' = "none"
  /\ UNCHANGED <<durable, cache, dirty, lh, outstanding, used, tail, panicked>>

\* bget() recycles the buffer of a block that is not pinned: the next
\* bread() of the block reads it from disk.
bget_recycle(b) ==
  /\ Running /\ b \notin dirty
  /\ cache' = [cache EXCEPT ![b] = disk[b]]
  /\ UNCHANGED <<durable, dirty, lh, outstanding, committing, pc, used, stage,
                 tail, panicked>>

-----------------------------------------------------------------------------
(* Crash and recovery.                                                     *)

\* Power failure, or reset after a panic: only the disk survives.
Crash ==
  /\ cache' = disk /\ dirty' = {}
  /\ lh' = <<>> /\ outstanding' = 0 /\ committing' = FALSE
  /\ pc' = [p \in Proc |-> "idle"] /\ used' = [p \in Proc |-> {}]
  /\ stage' = "read_head" /\ tail' = 0
  /\ panicked' = FALSE
  /\ UNCHANGED durable

read_head ==
  /\ stage = "read_head"
  /\ lh' = hd
  /\ stage' = IF hd = <<>> THEN "recover_clear" ELSE "recover"
  /\ UNCHANGED <<durable, cache, dirty, outstanding, committing, pc, used, tail,
                 panicked>>

recover_install ==
  /\ stage = "recover"
  /\ InstallBlock
  /\ stage' = IF tail + 1 = Len(lh) THEN "recover_clear" ELSE "recover"

recover_clear ==
  /\ stage = "recover_clear"
  /\ lh' = <<>> /\ hd' = <<>>
  /\ stage' = "none" /\ tail' = 0
  /\ UNCHANGED <<disk, logd, cache, dirty, outstanding, committing, pc, used,
                 panicked>>

recover_from_log == read_head \/ recover_install \/ recover_clear

-----------------------------------------------------------------------------

commit == write_log \/ write_head \/ install_trans \/ clear_head

Next ==
  \/ \E p \in Proc : begin_op(p)
  \/ \E p \in Proc, b \in Block, v \in Val : log_write(p, b, v)
  \/ \E p \in Proc : end_op(p)
  \/ commit
  \/ \E p \in Proc : commit_done(p)
  \/ \E b \in Block : bget_recycle(b)
  \/ Crash
  \/ recover_from_log

Spec == Init /\ [][Next]_vars

\* Every process inside the log layer keeps running, a system call that has
\* begun ends, and the boot processor finishes recovery; nobody has to start
\* a system call, and nothing is assumed of Crash.
Fairness ==
  /\ \A p \in Proc : WF_vars(pc[p] = "begin" /\ begin_op(p))
  /\ \A p \in Proc : WF_vars(end_op(p)) /\ WF_vars(commit_done(p))
  /\ WF_vars(commit)
  /\ WF_vars(recover_from_log)

FairSpec == Spec /\ Fairness

-----------------------------------------------------------------------------
(* Properties.                                                             *)

\* The state's types; a loop over the log indexes an entry of log.lh.
TypeOK ==
  /\ disk \in [Block -> Val] /\ cache \in [Block -> Val]
  /\ logd \in [Slots -> Val]
  /\ hd \in Seq(Block) /\ lh \in Seq(Block)
  /\ Len(hd) <= LOGSIZE /\ Len(lh) <= LOGSIZE
  /\ dirty \in SUBSET Block
  /\ outstanding \in Nat /\ committing \in BOOLEAN /\ panicked \in BOOLEAN
  /\ pc \in [Proc -> PCs] /\ used \in [Proc -> SUBSET Block]
  /\ stage \in Stages /\ tail \in Nat
  /\ stage \in {"write_log", "install", "recover"} => tail < Len(lh)

\* No log_write or end_op panics ("too big a transaction", "log_write outside
\* of trans", "log.committing"), in any interleaving of operations, as long
\* as operations stay two blocks below what begin_op reserves for them.
NoPanic == ~panicked

\* The home blocks d overlaid with the log blocks l that the header h names.
Overlaid(h, l, d) ==
  [b \in Block |-> IF b \in Logged(h)
                   THEN l[CHOOSE i \in 1 .. Len(h) : h[i] = b]
                   ELSE d[b]]

\* What a crash at this moment leaves once recovery has run.
Stable == Overlaid(hd, logd, disk)
Current == IF Booting THEN Stable ELSE cache
Open == IF Booting THEN {} ELSE {p \in Proc : pc[p] = "op"}

AD == INSTANCE AtomicDisk WITH stable <- Stable, current <- Current, open <- Open

\* The log implements AtomicDisk: the updates of system calls become durable
\* in one step (the header write), only when no call is in progress, and a
\* crash at any point of an operation, of commit() or of recovery leaves a
\* state of such a boundary (log.c:9-15).
CrashAtomicity == AD!ADSpec

\* When commit() is over (end_op is about to clear log.committing), every
\* finished operation is at its home location and the on-disk log is empty.
DurableAtReturn == stage = "finish" => disk = cache /\ hd = <<>> /\ dirty = {}

\* A process asleep in begin_op has somebody left to wake it: an operation in
\* progress or a commit, both of which end in wakeup(&log).
SleeperHasWaker ==
  (\E p \in Proc : pc[p] = "sleep") => committing \/ outstanding > 0

\* A process that sleeps in begin_op is woken (or the machine crashes).
SleeperWoken == \A p \in Proc : pc[p] = "sleep" ~> pc[p] # "sleep"

\* A committed transaction reaches its home blocks and leaves the log, unless
\* the machine crashes over and over again.
CommittedIsInstalled == (hd # <<>> ~> hd = <<>>) \/ []<><<Crash>>_vars
=============================================================================
