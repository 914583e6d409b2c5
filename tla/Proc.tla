-------------------------------- MODULE Proc --------------------------------
(***************************************************************************)
(* Processes on several CPUs: kernel/proc.c (allocproc, fork, exit, wait,  *)
(* kill, sleep, wakeup, sched, yield and the per-CPU scheduler), the timer *)
(* interrupt and the kill checks of kernel/trap.c, and sys_sleep of        *)
(* kernel/sysproc.c.                                                       *)
(*                                                                         *)
(* A critical section that does not switch stacks is one step.  One that   *)
(* does keeps ptable.lock across swtch: the process changes its state      *)
(* under the lock, swtch hands CPU and lock to the scheduler, which hands  *)
(* both to the next process, which releases the lock.                      *)
(***************************************************************************)
EXTENDS Integers, FiniteSets

CONSTANTS NPROC,      \* entries of ptable.proc; entry 1 is initproc
          CPU,
          BootCpu,    \* the CPU that counts ticks
          MaxPid,     \* bound on nextpid
          MaxSleep,   \* longest sleep(n)
          None

Slot == 1 .. NPROC
InitProc == 1
Ticks == 0            \* the channel &ticks; other channels are entries

ASSUME ProcAssumption ==
  /\ NPROC \in Nat \ {0} /\ MaxPid \in Nat \ {0} /\ MaxSleep \in Nat
  /\ BootCpu \in CPU /\ None \notin CPU /\ None \notin Slot

VARIABLES
  state, pid, parent, killed, chan, kstack,   \* ptable.proc[], one function per field
  nextpid,
  ptlock,    \* the CPU that holds ptable.lock
  tlock,     \* the CPU that holds tickslock
  on,        \* cpu->proc: whose stack the CPU is on; None: the scheduler's
  scan,      \* where the scheduler's loop over the table is
  intr,      \* "none": interrupts are on unless the CPU holds a lock; "acquire":
             \* off, spinning for a lock; "wakeup", "yield": in the timer interrupt
  ctx,       \* where a process called sched(): what it does when it is resumed
  pc,        \* the system call it is in
  child,     \* fork: the entry being built
  left,      \* sys_sleep: ticks still to go, n - (ticks - ticks0) but not below 0
  panicked

table == <<state, pid, parent, killed, chan, kstack, nextpid>>
cpuVars == <<ptlock, tlock, on, scan, intr>>
locals == <<ctx, pc, child, left>>
vars == <<table, cpuVars, locals, panicked>>

Init ==
  /\ state = [s \in Slot |-> IF s = InitProc THEN "RUNNABLE" ELSE "UNUSED"]
  /\ pid = [s \in Slot |-> IF s = InitProc THEN 1 ELSE 0]
  /\ parent = [s \in Slot |-> None]
  /\ killed = [s \in Slot |-> FALSE]
  /\ chan = [s \in Slot |-> None]
  /\ kstack = [s \in Slot |-> s = InitProc]
  /\ nextpid = 2
  /\ ptlock = None /\ tlock = None
  /\ on = [c \in CPU |-> None] /\ scan = [c \in CPU |-> 1]
  /\ intr = [c \in CPU |-> "none"]
  /\ ctx = [s \in Slot |-> "forkret"]
  /\ pc = [s \in Slot |-> "user"]
  /\ child = [s \in Slot |-> None] /\ left = [s \in Slot |-> 0]
  /\ panicked = FALSE

\* Process s executes on CPU c, outside interrupt handlers and sched().
Runs(c, s) ==
  ~panicked /\ on[c] = s /\ state[s] = "RUNNING" /\ ctx[s] = "none" /\ intr[c] = "none"

\* The entries that wakeup1(ch) makes runnable in the table st.
Woken(st, ch) ==
  [s \in Slot |-> IF st[s] = "SLEEPING" /\ chan[s] = ch THEN "RUNNABLE" ELSE st[s]]

First(S) == CHOOSE s \in S : \A t \in S : s <= t

\* Return from a system call.  trap() then tests killed, see trap_killed.
Return(s) == pc' = [pc EXCEPT ![s] = "user"]

\* The same, once acquire() has turned interrupts off.
Acquires(c, s) ==
  ~panicked /\ on[c] = s /\ state[s] = "RUNNING" /\ ctx[s] = "none" /\ intr[c] = "acquire"

\* A process about to take a lock: from here it cannot be interrupted.
pushcli(c, s) ==
  /\ Runs(c, s) /\ pc[s] \in {"fork", "exit", "wait", "lock_ticks"}
  /\ s = InitProc => pc[s] # "exit"
  /\ intr' = [intr EXCEPT ![c] = "acquire"]
  /\ UNCHANGED <<table, ptlock, tlock, on, scan, locals, panicked>>

-----------------------------------------------------------------------------
(* System calls.  trap() lets a process that has been killed make none.    *)

Syscall(c, s) == Runs(c, s) /\ pc[s] = "user" /\ ~killed[s]

\* fork up to the end of allocproc's critical section.
fork(c, s) ==
  /\ Syscall(c, s) /\ ptlock = None
  /\ nextpid <= MaxPid
  /\ LET free == {t \in Slot : state[t] = "UNUSED"} IN
     IF free = {}
     THEN UNCHANGED <<state, pid, nextpid, pc, child>>
     ELSE /\ state' = [state EXCEPT ![First(free)] = "EMBRYO"]
          /\ pid' = [pid EXCEPT ![First(free)] = nextpid]
          /\ nextpid' = nextpid + 1
          /\ pc' = [pc EXCEPT ![s] = "fork"]
          /\ child' = [child EXCEPT ![s] = First(free)]
  /\ UNCHANGED <<parent, killed, chan, kstack, cpuVars, ctx, left, panicked>>

\* No memory for the kernel stack or for the page table: the entry is given
\* back without the lock and keeps its pid.
fork_fail(c, s) ==
  /\ Runs(c, s) /\ pc[s] = "fork"
  /\ state' = [state EXCEPT ![child[s]] = "UNUSED"]
  /\ child' = [child EXCEPT ![s] = None]
  /\ Return(s)
  /\ UNCHANGED <<pid, parent, killed, chan, kstack, nextpid, cpuVars, ctx, left,
                 panicked>>

\* The rest of fork: the child starts in forkret.
fork_run(c, s) ==
  /\ Acquires(c, s) /\ pc[s] = "fork" /\ ptlock = None
  /\ intr' = [intr EXCEPT ![c] = "none"]
  /\ state' = [state EXCEPT ![child[s]] = "RUNNABLE"]
  /\ parent' = [parent EXCEPT ![child[s]] = s]
  /\ kstack' = [kstack EXCEPT ![child[s]] = TRUE]
  /\ ctx' = [ctx EXCEPT ![child[s]] = "forkret"]
  /\ pc' = [pc EXCEPT ![child[s]] = "user", ![s] = "user"]
  /\ child' = [child EXCEPT ![s] = None]
  /\ UNCHANGED <<pid, killed, chan, nextpid, ptlock, tlock, on, scan, left, panicked>>

\* Mutant: a sleeping process is only marked.
kill_NoWakeup(c, s, k) ==
  /\ Syscall(c, s) /\ ptlock = None
  /\ \E t \in Slot : pid[t] = k /\ killed' = [killed EXCEPT ![t] = TRUE]
  /\ UNCHANGED <<state, pid, parent, chan, kstack, nextpid, cpuVars, locals, panicked>>

\* kill(k): the first entry with that pid, whatever its state.
kill(c, s, k) ==
  /\ Syscall(c, s) /\ ptlock = None
  /\ LET match == {t \in Slot : pid[t] = k}
         t == First(match)
     IN  IF match = {}
         THEN UNCHANGED <<killed, state>>
         ELSE /\ killed' = [killed EXCEPT ![t] = TRUE]
              /\ state' = [state EXCEPT ![t] = IF @ = "SLEEPING" THEN "RUNNABLE" ELSE @]
  /\ UNCHANGED <<pid, parent, chan, kstack, nextpid, cpuVars, locals, panicked>>

\* Entering exit(): by the system call (which /init does not make), or
\* because trap() finds that the process has been killed.
sys_exit(c, s) ==
  /\ Syscall(c, s) /\ s # InitProc
  /\ pc' = [pc EXCEPT ![s] = "exit"]
  /\ UNCHANGED <<table, cpuVars, ctx, child, left, panicked>>

trap_killed(c, s) ==
  /\ Runs(c, s) /\ pc[s] = "user" /\ killed[s]
  /\ pc' = [pc EXCEPT ![s] = "exit"]
  /\ UNCHANGED <<table, cpuVars, ctx, child, left, panicked>>

\* exit() of a process that is not init, in general: the table st that wakeups
\* leave, the new parents and the owner of ptable.lock are parameters.
ExitWith(c, s, st, parents, lock) ==
  /\ Acquires(c, s) /\ pc[s] = "exit" /\ s # InitProc /\ ptlock = None
  /\ ptlock' = lock /\ parent' = parents
  /\ state' = [st EXCEPT ![s] = "ZOMBIE"]
  /\ intr' = [intr EXCEPT ![c] = "none"] /\ ctx' = [ctx EXCEPT ![s] = "zombie"]
  /\ UNCHANGED <<pid, killed, chan, kstack, nextpid, tlock, on, scan, pc, child,
                 left, panicked>>
HandedOver(s) == [t \in Slot |-> IF parent[t] = s THEN InitProc ELSE parent[t]]

\* Mutants: the lock is released before sched(); the children keep their
\* parent; nobody is woken.
exit_DropsLock(c, s) == ExitWith(c, s, Woken(state, parent[s]), HandedOver(s), None)
exit_KeepsChildren(c, s) == ExitWith(c, s, Woken(state, parent[s]), parent, c)
exit_NoWakeup(c, s) == ExitWith(c, s, state, HandedOver(s), c)

\* exit(): wake the parent, give the children to init (and wake it if one of
\* them is a zombie), become a zombie, all under ptable.lock.
exit(c, s) ==
  \/ /\ Runs(c, s) /\ pc[s] = "exit" /\ s = InitProc
     /\ panicked' = TRUE
     /\ UNCHANGED <<table, cpuVars, locals>>
  \/ LET st == Woken(state, parent[s])
     IN  ExitWith(c, s, IF \E t \in Slot : parent[t] = s /\ state[t] = "ZOMBIE"
                        THEN Woken(st, InitProc) ELSE st,
                  HandedOver(s), c)

sys_wait(c, s) ==
  /\ Syscall(c, s)
  /\ pc' = [pc EXCEPT ![s] = "wait"]
  /\ UNCHANGED <<table, cpuVars, ctx, child, left, panicked>>

\* One round of wait()'s loop, on entry or when sleep() has returned with
\* ptable.lock held: reap a zombie child, give up, or sleep on itself.
wait(c, s) ==
  /\ pc[s] = "wait"
  /\ \/ Acquires(c, s) /\ ptlock = None
     \/ ~panicked /\ on[c] = s /\ state[s] = "RUNNING" /\ ctx[s] = "wait" /\ ptlock = c
  /\ intr' = [intr EXCEPT ![c] = "none"]
  /\ LET kids == {t \in Slot : parent[t] = s}
         dead == {t \in kids : state[t] = "ZOMBIE"}
         z == First(dead)
     IN  CASE dead # {} ->
                /\ kstack' = [kstack EXCEPT ![z] = FALSE]
                /\ pid' = [pid EXCEPT ![z] = 0]
                /\ parent' = [parent EXCEPT ![z] = None]
                /\ killed' = [killed EXCEPT ![z] = FALSE]
                /\ state' = [state EXCEPT ![z] = "UNUSED"]
                /\ chan' = [chan EXCEPT ![s] = None]
                /\ ptlock' = None /\ ctx' = [ctx EXCEPT ![s] = "none"]
                /\ Return(s)
           [] dead = {} /\ (kids = {} \/ killed[s]) ->
                /\ chan' = [chan EXCEPT ![s] = None]
                /\ ptlock' = None /\ ctx' = [ctx EXCEPT ![s] = "none"]
                /\ Return(s)
                /\ UNCHANGED <<state, pid, parent, killed, kstack>>
           [] OTHER ->
                /\ chan' = [chan EXCEPT ![s] = s]
                /\ state' = [state EXCEPT ![s] = "SLEEPING"]
                /\ ptlock' = c /\ ctx' = [ctx EXCEPT ![s] = "wait"]
                /\ UNCHANGED <<pid, parent, killed, kstack, pc>>
  /\ UNCHANGED <<nextpid, tlock, on, scan, child, left, panicked>>

-----------------------------------------------------------------------------
(* sys_sleep, with tickslock as the lock that sleep() releases.            *)

sys_sleep(c, s, n) ==
  /\ Syscall(c, s)
  /\ tlock = None /\ tlock' = c
  /\ pc' = [pc EXCEPT ![s] = "test"] /\ left' = [left EXCEPT ![s] = n]
  /\ UNCHANGED <<table, ptlock, on, scan, intr, ctx, child, panicked>>

\* The end of sleep(): acquire(lk).
lock_ticks(c, s) ==
  /\ Acquires(c, s) /\ pc[s] = "lock_ticks" /\ tlock = None
  /\ intr' = [intr EXCEPT ![c] = "none"]
  /\ tlock' = c /\ pc' = [pc EXCEPT ![s] = "test"]
  /\ UNCHANGED <<table, ptlock, on, scan, ctx, child, left, panicked>>

\* The loop condition, and the test of killed, which is not under ptable.lock.
sleep_test(c, s) ==
  /\ Runs(c, s) /\ pc[s] = "test"
  /\ IF left[s] = 0 \/ killed[s]
     THEN Return(s) /\ tlock' = None /\ left' = [left EXCEPT ![s] = 0]
     ELSE pc' = [pc EXCEPT ![s] = "sleep"] /\ UNCHANGED <<tlock, left>>
  /\ UNCHANGED <<table, ptlock, on, scan, intr, ctx, child, panicked>>

\* sleep(&ticks, &tickslock) up to sched().
sleep(c, s) ==
  /\ Runs(c, s) /\ pc[s] = "sleep" /\ ptlock = None
  /\ ptlock' = c /\ tlock' = None
  /\ chan' = [chan EXCEPT ![s] = Ticks]
  /\ state' = [state EXCEPT ![s] = "SLEEPING"]
  /\ ctx' = [ctx EXCEPT ![s] = "sleep"]
  /\ pc' = [pc EXCEPT ![s] = "lock_ticks"]
  /\ UNCHANGED <<pid, parent, killed, kstack, nextpid, on, scan, intr, child, left,
                 panicked>>

\* The process is back on a CPU after sched(), with ptable.lock: the end of
\* yield, forkret or sleep.
resumed(c, s) ==
  /\ ~panicked /\ on[c] = s /\ state[s] = "RUNNING"
  /\ ctx[s] \in {"yield", "forkret", "sleep"} /\ ptlock = c
  /\ ptlock' = None
  /\ ctx' = [ctx EXCEPT ![s] = "none"]
  /\ chan' = IF ctx[s] = "sleep" THEN [chan EXCEPT ![s] = None] ELSE chan
  /\ UNCHANGED <<state, pid, parent, killed, kstack, nextpid, tlock, on, scan,
                 intr, pc, child, left, panicked>>

-----------------------------------------------------------------------------
(* The scheduler.                                                          *)

\* swtch to the scheduler of this CPU; the process has changed its state.
sched(c, s) ==
  /\ ~panicked /\ on[c] = s /\ state[s] # "RUNNING" /\ ptlock = c
  /\ on' = [on EXCEPT ![c] = None]
  /\ UNCHANGED <<table, ptlock, tlock, scan, intr, locals, panicked>>

\* Mutant: the loop stops before the last entry of the table.
scheduler_OneShort(c) ==
  /\ ~panicked /\ on[c] = None /\ intr[c] = "none"
  /\ \/ ptlock = None /\ ptlock' = c /\ UNCHANGED <<state, on, scan>>
     \/ /\ ptlock = c
        /\ LET ready == {s \in Slot : s >= scan[c] /\ s < NPROC /\ state[s] = "RUNNABLE"}
           IN  IF ready = {}
               THEN /\ ptlock' = None /\ scan' = [scan EXCEPT ![c] = 1]
                    /\ UNCHANGED <<state, on>>
               ELSE /\ state' = [state EXCEPT ![First(ready)] = "RUNNING"]
                    /\ on' = [on EXCEPT ![c] = First(ready)]
                    /\ scan' = [scan EXCEPT ![c] = First(ready) + 1]
                    /\ UNCHANGED ptlock
  /\ UNCHANGED <<pid, parent, killed, chan, kstack, nextpid, tlock, intr, locals,
                 panicked>>

\* The loop: the next runnable entry gets the CPU and the lock; at the end of
\* the table the lock is released and the scan starts again.
scheduler(c) ==
  /\ ~panicked /\ on[c] = None /\ intr[c] = "none"
  /\ \/ /\ ptlock = None
        /\ ptlock' = c /\ UNCHANGED <<state, on, scan>>
     \/ /\ ptlock = c
        /\ LET ready == {s \in Slot : s >= scan[c] /\ state[s] = "RUNNABLE"}
               s == First(ready)
           IN  IF ready = {}
               THEN /\ ptlock' = None /\ scan' = [scan EXCEPT ![c] = 1]
                    /\ UNCHANGED <<state, on>>
               ELSE /\ state' = [state EXCEPT ![s] = "RUNNING"]
                    /\ on' = [on EXCEPT ![c] = s]
                    /\ scan' = [scan EXCEPT ![c] = s + 1]
                    /\ UNCHANGED ptlock
  /\ UNCHANGED <<pid, parent, killed, chan, kstack, nextpid, tlock, intr, locals,
                 panicked>>

-----------------------------------------------------------------------------
(* The timer interrupt.  It comes only while the CPU holds no spin lock.   *)

Interruptible(c) ==
  /\ ~panicked /\ intr[c] = "none" /\ ptlock # c /\ tlock # c
  /\ on[c] # None => state[on[c]] = "RUNNING" /\ ctx[on[c]] = "none"

\* After the tick: a process that is running gives up the CPU.
Preempts(c) == IF on[c] = None THEN "none" ELSE "yield"

\* The boot CPU counts the tick under tickslock.
timer_tick(c) ==
  /\ Interruptible(c)
  /\ IF c = BootCpu
     THEN /\ tlock = None /\ tlock' = c
          /\ left' = [s \in Slot |-> IF left[s] > 0 THEN left[s] - 1 ELSE 0]
          /\ intr' = [intr EXCEPT ![c] = "wakeup"]
     ELSE intr' = [intr EXCEPT ![c] = Preempts(c)] /\ UNCHANGED <<tlock, left>>
  /\ UNCHANGED <<table, ptlock, on, scan, ctx, pc, child, panicked>>

\* wakeup(&ticks), release(&tickslock).
timer_wakeup(c) ==
  /\ ~panicked /\ intr[c] = "wakeup" /\ ptlock = None
  /\ state' = Woken(state, Ticks)
  /\ tlock' = None
  /\ intr' = [intr EXCEPT ![c] = Preempts(c)]
  /\ UNCHANGED <<pid, parent, killed, chan, kstack, nextpid, ptlock, on, scan,
                 locals, panicked>>

\* The end of trap(): a killed process in user mode exits, others yield.
yield(c, s) ==
  /\ ~panicked /\ intr[c] = "yield" /\ on[c] = s
  /\ intr' = [intr EXCEPT ![c] = "none"]
  /\ IF pc[s] = "user" /\ killed[s]
     THEN pc' = [pc EXCEPT ![s] = "exit"] /\ UNCHANGED <<state, ptlock, ctx>>
     ELSE /\ ptlock = None /\ ptlock' = c
          /\ state' = [state EXCEPT ![s] = "RUNNABLE"]
          /\ ctx' = [ctx EXCEPT ![s] = "yield"]
          /\ UNCHANGED pc
  /\ UNCHANGED <<pid, parent, killed, chan, kstack, nextpid, tlock, on, scan,
                 child, left, panicked>>

-----------------------------------------------------------------------------

\* The kernel code of process s that CPU c executes, and the switching
\* between processes.
Progress(c, s) ==
  \/ pushcli(c, s) \/ fork_fail(c, s) \/ fork_run(c, s)
  \/ trap_killed(c, s) \/ exit(c, s) \/ wait(c, s)
  \/ lock_ticks(c, s) \/ sleep_test(c, s) \/ sleep(c, s)

Switch(c, s) == resumed(c, s) \/ sched(c, s) \/ yield(c, s)

\* At any moment a CPU has at most one of these to do.
Step(c) == (\E s \in Slot : Switch(c, s)) \/ scheduler(c) \/ timer_wakeup(c)

Cpu(c) == Step(c) \/ timer_tick(c) \/ \E s \in Slot : Progress(c, s)

\* What a program asks for.
User(c, s) ==
  \/ fork(c, s) \/ sys_exit(c, s) \/ sys_wait(c, s)
  \/ \E k \in 0 .. MaxPid : kill(c, s, k)
  \/ \E n \in 1 .. MaxSleep : sys_sleep(c, s, n)

\* panic() spins for ever and stops the other CPUs.
halted == panicked /\ UNCHANGED vars

Next ==
  \/ \E c \in CPU : Cpu(c)
  \/ \E c \in CPU, s \in Slot : User(c, s)
  \/ halted

Spec == Init /\ [][Next]_vars

\* A CPU keeps executing, keeps getting timer interrupts, and does not spin
\* for ever on a lock that is released again and again; a process that gets a
\* CPU again and again is not interrupted every time before its next step.
\* /init calls wait() in a loop (user/init.c).  No other program has to do
\* anything.
Fairness ==
  /\ \A c \in CPU : SF_vars(Step(c)) /\ SF_vars(timer_tick(c))
  /\ \A s \in Slot : SF_vars(\E c \in CPU : Progress(c, s))
  /\ SF_vars(\E c \in CPU : sys_wait(c, InitProc))

FairSpec == Spec /\ Fairness

-----------------------------------------------------------------------------
(* Properties.                                                             *)

Live == {"RUNNABLE", "RUNNING", "SLEEPING"}

\* A kernel stack is used by one CPU, which is also the only one to say that
\* its process runs; it is never freed or reused under that CPU.  A process
\* that has left the RUNNING state stays on its stack only while its CPU holds
\* ptable.lock, which is what keeps wait() and other schedulers away from it,
\* and no other spin lock (sched() panics otherwise).
StackHasOneCpu ==
  /\ \A c, d \in CPU : on[c] = on[d] /\ on[c] # None => c = d
  /\ \A c \in CPU : on[c] # None => /\ kstack[on[c]]
                                    /\ state[on[c]] \in Live \cup {"ZOMBIE"}
                                    /\ state[on[c]] # "RUNNING" => ptlock = c /\ tlock # c
  /\ \A s \in Slot : state[s] = "RUNNING" => \E c \in CPU : on[c] = s

\* Every process but init has a parent that can still reap it: exit() hands
\* the children over before it becomes a zombie, also those that are zombies.
\* A free entry is nobody's child.
ParentCanReap ==
  \A s \in Slot \ {InitProc} :
    /\ state[s] \in Live \cup {"ZOMBIE"} =>
         /\ parent[s] \in Slot /\ state[parent[s]] \in Live
         /\ parent[s] # s
    /\ state[s] = "UNUSED" => parent[s] = None /\ ~kstack[s]

\* No lost wakeup in wait(): a process sleeps there only while it has
\* children, none of them a zombie, and has not been killed.  None in
\* sys_sleep: a process sleeps on ticks only while it has ticks to go, or the
\* interrupt that counted the last one is about to call wakeup.
SleeperHasReason ==
  \A s \in Slot : state[s] = "SLEEPING" =>
    IF chan[s] = Ticks
    THEN left[s] > 0 \/ intr[BootCpu] = "wakeup"
    ELSE /\ chan[s] = s /\ ~killed[s]
         /\ \E t \in Slot : parent[t] = s
         /\ \A t \in Slot : parent[t] = s => state[t] # "ZOMBIE"

\* A process that has been killed exits, wherever it is and however the kill
\* races with its going to sleep.
KilledExits == \A s \in Slot : state[s] \in Live /\ killed[s]
                                 ~> state[s] \in {"ZOMBIE", "UNUSED"} \/ panicked

\* The schedulers starve nobody.
RunnableRuns == \A s \in Slot : state[s] = "RUNNABLE" ~> state[s] = "RUNNING" \/ panicked

\* Orphans are reaped: a zombie child of init leaves the table.
OrphanReaped == \A s \in Slot : state[s] = "ZOMBIE" /\ parent[s] = InitProc
                                  ~> state[s] = "UNUSED" \/ panicked
=============================================================================
