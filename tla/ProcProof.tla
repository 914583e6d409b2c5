----------------------------- MODULE ProcProof ------------------------------
(***************************************************************************)
(* For every number of processes and CPUs: a kernel stack has one CPU,     *)
(* every parent can reap its children, and nobody sleeps without a reason. *)
(***************************************************************************)
EXTENDS Proc, TLAPS, WellFoundedInduction, FiniteSetTheorems

-----------------------------------------------------------------------------
\* The scans over the table stop at an entry of the set they look for (the
\* smallest entry exists: the table is finite).
LEMMA FirstIsMember ==
  ASSUME NEW S \in SUBSET Slot, S # {}
  PROVE  First(S) \in S
<1>1. IsFiniteSet(Slot)
  BY FS_Interval, ProcAssumption, 1 \in Int, NPROC \in Int, Zenon DEF Slot
<1> DEFINE T == {1 .. s : s \in S}
<1>2. T \subseteq SUBSET Slot
  <2> SUFFICES ASSUME NEW s \in S PROVE 1 .. s \subseteq Slot
    BY Zenon
  <2> QED BY ProcAssumption DEF Slot
<1>3. T # {}
  BY Zenon
<1>4. IsWellFoundedOn(StrictSubsetOrdering(Slot), SUBSET Slot)
  BY <1>1, FS_FiniteSubsetsOfFinite, FS_StrictSubsetOrderingWellFounded, Zenon
<1>5. \E x \in T : \A y \in T : ~(<<y, x>> \in StrictSubsetOrdering(Slot))
  <2> HIDE DEF T
  <2> QED BY <1>2, <1>3, <1>4, WFMin, Zenon
<1>6. PICK x \in T : \A y \in T : ~(<<y, x>> \in StrictSubsetOrdering(Slot))
  BY <1>5, Zenon
<1>7. PICK s \in S : x = 1 .. s
  BY Zenon
<1>8. \A t \in S : s <= t
  <2> SUFFICES ASSUME NEW t \in S, t < s PROVE FALSE
    BY ProcAssumption DEF Slot
  <2>1. 1 .. t \subseteq 1 .. s /\ 1 .. t # 1 .. s
    BY ProcAssumption DEF Slot
  <2>2. 1 .. t \in T
    BY Zenon
  <2> QED BY <1>2, <1>6, <1>7, <2>1, <2>2, Zenon DEF StrictSubsetOrdering
<1> QED BY <1>8, Zenon DEF First

-----------------------------------------------------------------------------
States == {"UNUSED", "EMBRYO", "RUNNABLE", "RUNNING", "SLEEPING", "ZOMBIE"}

\* The types the argument needs.
PTypeOK ==
  /\ state \in [Slot -> States]
  /\ kstack \in [Slot -> BOOLEAN]
  /\ on \in [CPU -> Slot \cup {None}]
  /\ ptlock \in CPU \cup {None} /\ tlock \in CPU \cup {None}
  /\ intr \in [CPU -> {"none", "acquire", "wakeup", "yield"}]
  /\ ctx \in [Slot -> {"none", "yield", "forkret", "sleep", "wait", "zombie"}]
  /\ pc \in [Slot -> {"user", "fork", "exit", "wait", "lock_ticks", "test", "sleep"}]
  /\ child \in [Slot -> Slot \cup {None}]

\* A process off the RUNNING state has left its context in sched(), and has a
\* kernel stack unless its entry is free or being built.
Switched ==
  \A s \in Slot :
    /\ state[s] \in Live \cup {"ZOMBIE"} => kstack[s]
    /\ state[s] \in {"RUNNABLE", "SLEEPING", "ZOMBIE"} => ctx[s] # "none"

\* fork() alone knows the entry it builds.
Building ==
  \A s \in Slot : pc[s] = "fork" =>
    /\ child[s] \in Slot /\ state[child[s]] = "EMBRYO"
    /\ \A t \in Slot : pc[t] = "fork" /\ child[t] = child[s] => t = s

\* Who may be in an interrupt handler or spinning for a lock, and what it holds.
Interrupts ==
  \A c \in CPU : intr[c] # "none" =>
    /\ ptlock # c
    /\ on[c] # None => state[on[c]] = "RUNNING" /\ ctx[on[c]] = "none"
    /\ intr[c] = "wakeup" => tlock = c
    /\ intr[c] # "wakeup" => on[c] # None /\ tlock # c

\* ptable.lock is held by a scheduler, or across sched() by a process.
LockHeld ==
  \A c \in CPU : ptlock = c /\ on[c] # None => ctx[on[c]] # "none"

\* tickslock is held by the timer interrupt or by one process in sys_sleep.
TicksHeld ==
  /\ \A c \in CPU : tlock = c /\ intr[c] # "wakeup" =>
       on[c] # None /\ pc[on[c]] \in {"test", "sleep"}
  /\ \A s \in Slot : pc[s] \in {"test", "sleep"} =>
       \E c \in CPU : /\ on[c] = s /\ tlock = c /\ intr[c] = "none"
                      /\ state[s] = "RUNNING" /\ ctx[s] = "none"

IInv == /\ PTypeOK /\ StackHasOneCpu /\ Switched /\ Building
        /\ Interrupts /\ LockHeld /\ TicksHeld

\* userinit: one runnable process, and every CPU in its scheduler.
LEMMA InitHolds == Init => IInv
<1> SUFFICES ASSUME Init PROVE IInv
  BY Zenon
<1>1. kstack \in [Slot -> BOOLEAN]
  BY Zenon DEF Init
<1>2. \A s \in Slot : state[s] \in Live \cup {"ZOMBIE"} => s = InitProc /\ kstack[s]
  BY Zenon DEF Init, Live
<1>3. PTypeOK
  BY <1>1, Zenon DEF Init, PTypeOK, States
<1> QED BY <1>2, <1>3, ProcAssumption, Zenon DEF Init, IInv, StackHasOneCpu, Switched, Building,
     Interrupts, LockHeld, TicksHeld, Live

USE DEF IInv, PTypeOK, StackHasOneCpu, Switched, Building, Interrupts, LockHeld,
        TicksHeld, Live, States, table, cpuVars, locals

\* Steps of a process on its CPU, one lemma for each function of proc.c and
\* sysproc.c; each keeps IInv.
LEMMA StepPushcli ==
  ASSUME IInv, NEW c \in CPU, NEW s \in Slot, pushcli(c, s) PROVE IInv'
BY ProcAssumption DEF pushcli, Runs

\* fork() takes an UNUSED entry, which no other fork() is building.
LEMMA StepFork ==
  ASSUME IInv, NEW c \in CPU, NEW s \in Slot, fork(c, s) PROVE IInv'
<1> DEFINE free == {t \in Slot : state[t] = "UNUSED"}
<1>1. free # {} => First(free) \in Slot /\ state[First(free)] = "UNUSED"
  BY FirstIsMember, free \in SUBSET Slot, Zenon
<1> DEFINE t == First(free)
<1>2. CASE free = {}
  BY <1>2, ProcAssumption DEF fork, Syscall, Runs
<1>3. CASE free # {}
  <2>1. t \in Slot /\ state[t] = "UNUSED"
    BY <1>1, <1>3, Zenon
  <2> HIDE DEF t
  <2>2. /\ state' = [state EXCEPT ![t] = "EMBRYO"]
        /\ pc' = [pc EXCEPT ![s] = "fork"]
        /\ child' = [child EXCEPT ![s] = t]
    BY <1>3, Zenon DEF fork, t
  <2> QED BY <2>1, <2>2, ProcAssumption DEF fork, Syscall, Runs
<1> QED BY <1>2, <1>3, Zenon

\* fork() that fails gives its own entry back.
LEMMA StepForkFail ==
  ASSUME IInv, NEW c \in CPU, NEW s \in Slot, fork_fail(c, s) PROVE IInv'
BY ProcAssumption DEF fork_fail, Runs, Return

\* The child becomes RUNNABLE with a context and a stack.
LEMMA StepForkRun ==
  ASSUME IInv, NEW c \in CPU, NEW s \in Slot, fork_run(c, s) PROVE IInv'
BY ProcAssumption DEF fork_run, Acquires

\* sleep() on ticks trades tickslock for ptable.lock.
LEMMA StepSleep ==
  ASSUME IInv, NEW c \in CPU, NEW s \in Slot, sleep(c, s) PROVE IInv'
BY ProcAssumption DEF sleep, Runs

\* The loop of sys_sleep tests with tickslock held.
LEMMA StepSleepTest ==
  ASSUME IInv, NEW c \in CPU, NEW s \in Slot, sleep_test(c, s) PROVE IInv'
BY ProcAssumption DEF sleep_test, Runs, Return

\* sys_sleep takes tickslock when nobody has it.
LEMMA StepLockTicks ==
  ASSUME IInv, NEW c \in CPU, NEW s \in Slot, lock_ticks(c, s) PROVE IInv'
BY ProcAssumption DEF lock_ticks, Acquires

\* The call of sys_sleep itself touches only the caller.
LEMMA StepSysSleep ==
  ASSUME IInv, NEW c \in CPU, NEW s \in Slot, NEW n, sys_sleep(c, s, n) PROVE IInv'
BY ProcAssumption DEF sys_sleep, Syscall, Runs

\* Entering exit() and wait(), and the test for killed on the way out of a trap.
LEMMA StepEnter ==
  ASSUME IInv, NEW c \in CPU, NEW s \in Slot,
         sys_exit(c, s) \/ sys_wait(c, s) \/ trap_killed(c, s)
  PROVE  IInv'
BY ProcAssumption DEF sys_exit, sys_wait, trap_killed, Syscall, Runs

\* kill() changes a state only from SLEEPING to RUNNABLE.
LEMMA StepKill ==
  ASSUME IInv, NEW c \in CPU, NEW s \in Slot, NEW k, kill(c, s, k) PROVE IInv'
<1> DEFINE match == {t \in Slot : pid[t] = k}
           u == First(match)
<1>1. CASE match = {}
  BY <1>1, ProcAssumption DEF kill
<1>2. CASE match # {}
  <2>1. u \in Slot
    BY <1>2, FirstIsMember, match \in SUBSET Slot, Zenon
  <2> HIDE DEF u
  <2>2. state' = [state EXCEPT ![u] = IF @ = "SLEEPING" THEN "RUNNABLE" ELSE @]
    BY <1>2, Zenon DEF kill, u
  <2> QED BY <2>1, <2>2, ProcAssumption DEF kill
<1> QED BY <1>1, <1>2, Zenon

\* wakeup1() makes sleeping entries runnable and changes nothing else.
LEMMA WokenOnly ==
  ASSUME NEW st \in [Slot -> States], NEW ch
  PROVE  /\ Woken(st, ch) \in [Slot -> States]
         /\ \A t \in Slot : \/ Woken(st, ch)[t] = st[t]
                            \/ Woken(st, ch)[t] = "RUNNABLE" /\ st[t] = "SLEEPING"
<1>1. ASSUME NEW t \in Slot
      PROVE  /\ Woken(st, ch)[t] = IF st[t] = "SLEEPING" /\ chan[t] = ch
                                   THEN "RUNNABLE" ELSE st[t]
             /\ st[t] \in States
  BY <1>1, Zenon DEF Woken
<1>2. ASSUME NEW t \in Slot
      PROVE  \/ Woken(st, ch)[t] = st[t]
             \/ Woken(st, ch)[t] = "RUNNABLE" /\ st[t] = "SLEEPING"
  BY <1>1, Zenon
<1>3. Woken(st, ch) \in [Slot -> States]
  BY Zenon DEF Woken, States
<1> QED BY <1>2, <1>3, Zenon

\* Whoever is woken is not on a CPU, because ptable.lock is free.
LEMMA StepExit ==
  ASSUME IInv, NEW c \in CPU, NEW s \in Slot, exit(c, s) PROVE IInv'
<1>1. CASE panicked' = TRUE /\ UNCHANGED <<table, cpuVars, locals>>
  BY <1>1
<1>2. ASSUME NEW st, ExitWith(c, s, st, HandedOver(s), c),
             \/ st = Woken(state, parent[s])
             \/ st = Woken(Woken(state, parent[s]), InitProc)
      PROVE  IInv'
  <2>1. /\ st \in [Slot -> States]
        /\ \A t \in Slot : \/ st[t] = state[t]
                           \/ st[t] = "RUNNABLE" /\ state[t] = "SLEEPING"
    BY <1>2, WokenOnly, Woken(state, parent[s]) \in [Slot -> States]
  <2>2. /\ Acquires(c, s) /\ pc[s] = "exit" /\ ptlock = None /\ ptlock' = c
        /\ state' = [st EXCEPT ![s] = "ZOMBIE"]
        /\ intr' = [intr EXCEPT ![c] = "none"] /\ ctx' = [ctx EXCEPT ![s] = "zombie"]
        /\ UNCHANGED <<kstack, tlock, on, pc, child>>
    BY <1>2, Zenon DEF ExitWith
  <2> HIDE DEF ExitWith
  <2>3. PTypeOK' /\ Switched'
    BY <2>1, <2>2 DEF Acquires
  <2>4. StackHasOneCpu' /\ LockHeld'
    BY <2>1, <2>2, ProcAssumption DEF Acquires
  <2>5. Building' /\ Interrupts'
    BY <2>1, <2>2, ProcAssumption DEF Acquires
  <2>6. TicksHeld'
    BY <2>1, <2>2, ProcAssumption DEF Acquires
  <2> HIDE DEF PTypeOK, StackHasOneCpu, Switched, Building, Interrupts, LockHeld, TicksHeld
  <2> QED BY <2>3, <2>4, <2>5, <2>6, Zenon
<1> HIDE DEF IInv
<1> QED BY <1>1, <1>2, Zenon DEF exit

\* wait() frees a ZOMBIE, which no CPU runs any more, or sleeps.
LEMMA StepWait ==
  ASSUME IInv, NEW c \in CPU, NEW s \in Slot, wait(c, s) PROVE IInv'
<1> DEFINE kids == {t \in Slot : parent[t] = s}
           dead == {t \in kids : state[t] = "ZOMBIE"}
           z == First(dead)
<1>1. CASE dead # {}
  <2>1. z \in Slot /\ state[z] = "ZOMBIE"
    BY <1>1, FirstIsMember, dead \in SUBSET Slot, Zenon
  <2> HIDE DEF z
  <2>2. /\ kstack' = [kstack EXCEPT ![z] = FALSE]
        /\ state' = [state EXCEPT ![z] = "UNUSED"]
        /\ ptlock' = None /\ ctx' = [ctx EXCEPT ![s] = "none"]
        /\ Return(s)
    BY <1>1, Zenon DEF wait, z
  <2> QED BY <2>1, <2>2, ProcAssumption DEF wait, Acquires, Return
<1>2. CASE dead = {} /\ (kids = {} \/ killed[s])
  BY <1>2, ProcAssumption DEF wait, Acquires, Return
<1>3. CASE dead = {} /\ ~(kids = {} \/ killed[s])
  BY <1>3, ProcAssumption DEF wait, Acquires
<1> QED BY <1>1, <1>2, <1>3, Zenon

\* swtch in either direction: the CPU that leaves a stack holds ptable.lock.
LEMMA StepSwitch ==
  ASSUME IInv, NEW c \in CPU, NEW s \in Slot, Switch(c, s) PROVE IInv'
<1>1. CASE resumed(c, s)
  BY <1>1, ProcAssumption DEF resumed
<1>2. CASE sched(c, s)
  BY <1>2, ProcAssumption DEF sched
<1>3. CASE yield(c, s)
  BY <1>3, ProcAssumption DEF yield
<1> QED BY <1>1, <1>2, <1>3, Zenon DEF Switch

\* A scheduler picks a RUNNABLE process, whose context no CPU uses.
LEMMA StepScheduler ==
  ASSUME IInv, NEW c \in CPU, scheduler(c) PROVE IInv'
<1> DEFINE ready == {s \in Slot : s >= scan[c] /\ state[s] = "RUNNABLE"}
           u == First(ready)
<1>1. CASE ptlock = None
  BY <1>1, ProcAssumption DEF scheduler
<1>2. CASE ptlock = c /\ ready = {}
  BY <1>2, ProcAssumption DEF scheduler
<1>3. CASE ptlock = c /\ ready # {}
  <2>1. u \in Slot /\ state[u] = "RUNNABLE"
    BY <1>3, FirstIsMember, ready \in SUBSET Slot, Zenon
  <2> HIDE DEF u
  <2>2. /\ state' = [state EXCEPT ![u] = "RUNNING"]
        /\ on' = [on EXCEPT ![c] = u]
        /\ ptlock' = ptlock
    BY <1>3, ProcAssumption DEF scheduler, u
  <2> QED BY <1>3, <2>1, <2>2, ProcAssumption, SMTT(60) DEF scheduler
<1> QED BY <1>1, <1>2, <1>3, Zenon DEF scheduler

\* The timer interrupt, and its wakeup of ticks.
LEMMA StepTimer ==
  ASSUME IInv, NEW c \in CPU, timer_tick(c) \/ timer_wakeup(c) PROVE IInv'
<1>1. CASE timer_tick(c)
  BY <1>1, ProcAssumption, SMTT(60) DEF timer_tick, Interruptible, Preempts
<1>2. CASE timer_wakeup(c)
  <2>1. /\ state' \in [Slot -> States]
        /\ \A t \in Slot : \/ state'[t] = state[t]
                           \/ state'[t] = "RUNNABLE" /\ state[t] = "SLEEPING"
    BY <1>2, WokenOnly, SMTT(60) DEF timer_wakeup
  <2> QED BY <1>2, <2>1, ProcAssumption, SMTT(60) DEF timer_wakeup, Preempts
<1> QED BY <1>1, <1>2, Zenon

\* IInv is inductive.
LEMMA Inductive == IInv /\ [Next]_vars => IInv'
<1> SUFFICES ASSUME IInv, [Next]_vars PROVE IInv'
  BY Zenon
<1>1. CASE UNCHANGED vars \/ halted
  BY <1>1, SMTT(60) DEF vars, halted
<1>2. ASSUME NEW c \in CPU, Cpu(c) PROVE IInv'
  BY <1>2, StepPushcli, StepForkFail, StepForkRun, StepEnter, StepExit, StepWait,
     StepLockTicks, StepSleepTest, StepSleep, StepSwitch, StepScheduler, StepTimer, ZenonT(60)
     DEF Cpu, Step, Progress
<1>3. ASSUME NEW c \in CPU, NEW s \in Slot, User(c, s) PROVE IInv'
  BY <1>3, StepFork, StepEnter, StepKill, StepSysSleep, Zenon DEF User
<1> QED BY <1>1, <1>2, <1>3, Zenon DEF Next

\* proc.c: a kernel stack is used by one CPU at a time, for every number of
\* processes and CPUs: swtch, sleep, wakeup and exit never let a second CPU
\* resume a process before the first has left its stack.
THEOREM OneCpuPerStack == Spec => []StackHasOneCpu
<1>1. IInv => StackHasOneCpu
  BY Zenon DEF IInv
<1> QED BY <1>1, InitHolds, Inductive, PTL DEF Spec

HIDE DEF IInv, PTypeOK, StackHasOneCpu, Switched, Building, Interrupts, LockHeld,
         TicksHeld, Live, States, table, cpuVars, locals

-----------------------------------------------------------------------------
(* Parents and sleepers.                                                   *)


RTypeOK ==
  /\ parent \in [Slot -> Slot \cup {None}]
  /\ killed \in [Slot -> BOOLEAN]
  /\ chan \in [Slot -> Slot \cup {None, Ticks}]
  /\ left \in [Slot -> Nat]

\* init is never reaped, and an entry that is free or being built is empty.
Parents ==
  /\ state[InitProc] \in Live /\ parent[InitProc] = None
  /\ \A s \in Slot : state[s] = "EMBRYO" => parent[s] = None /\ ~kstack[s]
  /\ ParentCanReap

\* Between the test in sys_sleep and the change of state no tick is counted.
Sleepers ==
  /\ SleeperHasReason
  /\ \A s \in Slot : pc[s] = "sleep" => left[s] > 0

RInv == IInv /\ RTypeOK /\ Parents /\ Sleepers

\* At boot there is nobody to reap and nobody asleep.
LEMMA RInitHolds == Init => RInv
<1> SUFFICES ASSUME Init PROVE RInv
  BY Zenon
<1>1. InitProc \in Slot
  BY ProcAssumption DEF InitProc, Slot
<1>2. RTypeOK
  BY Zenon DEF Init, RTypeOK
<1>3. \A s \in Slot : kstack[s] => s = InitProc
  BY Zenon DEF Init
<1>4. Parents
  BY <1>1, <1>3, ProcAssumption, Zenon DEF Init, Parents, ParentCanReap, Live
<1>5. Sleepers
  BY Zenon DEF Init, Sleepers, SleeperHasReason
<1> QED BY <1>2, <1>4, <1>5, InitHolds, Zenon DEF RInv

USE DEF Live, States, table, cpuVars, locals

\* initproc is an entry of the table, and the channel of sys_sleep is not.
LEMMA InitIsSlot == InitProc \in Slot /\ Ticks \notin Slot
BY ProcAssumption DEF InitProc, Slot, Ticks

\* The types that the steps below use.
LEMMA Typed ==
  ASSUME RInv
  PROVE  /\ IInv /\ RTypeOK
         /\ state \in [Slot -> States] /\ kstack \in [Slot -> BOOLEAN]
         /\ pc \in [Slot -> {"user", "fork", "exit", "wait", "lock_ticks", "test", "sleep"}]
         /\ intr \in [CPU -> {"none", "acquire", "wakeup", "yield"}]
         /\ BootCpu \in CPU /\ None \notin Slot
BY ProcAssumption, Zenon DEF RInv, IInv, PTypeOK

\* A step that changes no state, parent or channel.
LEMMA RFrame ==
  ASSUME RInv, IInv', UNCHANGED <<state, parent, killed, chan, kstack>>,
         left' \in [Slot -> Nat],
         \A s \in Slot : left'[s] = left[s] \/ intr'[BootCpu] = "wakeup",
         intr'[BootCpu] = "wakeup" \/ intr[BootCpu] # "wakeup",
         \A s \in Slot : pc'[s] = "sleep" => left'[s] > 0
  PROVE  RInv'
<1>1. RTypeOK'
  BY Zenon DEF RInv, RTypeOK
<1>2. Parents'
  BY Zenon DEF RInv, Parents, ParentCanReap
<1>3. Sleepers'
  BY ZenonT(60) DEF RInv, Sleepers, SleeperHasReason
<1> QED BY <1>1, <1>2, <1>3, Zenon DEF RInv

\* The same, and no tick is counted.
LEMMA RSame ==
  ASSUME RInv, IInv', UNCHANGED <<state, parent, killed, chan, kstack, left>>,
         intr'[BootCpu] = "wakeup" \/ intr[BootCpu] # "wakeup",
         \A s \in Slot : pc'[s] = "sleep" => pc[s] = "sleep"
  PROVE  RInv'
<1>1. left' \in [Slot -> Nat]
  BY Zenon DEF RInv, RTypeOK
<1>2. \A s \in Slot : pc'[s] = "sleep" => left'[s] > 0
  BY Zenon DEF RInv, Sleepers
<1> QED BY <1>1, <1>2, RFrame, Zenon

\* Steps that change no state, parent or channel.
LEMMA RStepSimple ==
  ASSUME RInv, NEW c \in CPU, NEW s \in Slot, IInv',
         \/ pushcli(c, s) \/ sys_exit(c, s) \/ sys_wait(c, s) \/ trap_killed(c, s)
         \/ lock_ticks(c, s) \/ sched(c, s)
  PROVE  RInv'
<1>1. UNCHANGED <<state, parent, killed, chan, kstack, left>>
  BY Zenon DEF pushcli, sys_exit, sys_wait, trap_killed, lock_ticks, sched
<1>2. \A t \in Slot : pc'[t] = "sleep" => pc[t] = "sleep"
  BY Typed, Zenon DEF pushcli, sys_exit, sys_wait, trap_killed, lock_ticks, sched
<1>3. intr'[BootCpu] = "wakeup" \/ intr[BootCpu] # "wakeup"
  BY Typed, Zenon DEF pushcli, sys_exit, sys_wait, trap_killed, lock_ticks, sched, Runs, Acquires
<1> QED BY <1>1, <1>2, <1>3, RSame, Zenon

\* fork() links the new entry only when it makes it runnable.
LEMMA RStepFork ==
  ASSUME RInv, NEW c \in CPU, NEW s \in Slot, IInv', fork(c, s) PROVE RInv'
<1> DEFINE free == {t \in Slot : state[t] = "UNUSED"}
           t == First(free)
<1>1. UNCHANGED <<parent, killed, chan, kstack, left, intr>>
  BY Zenon DEF fork
<1>2. CASE free = {}
  <2>1. UNCHANGED <<state, pc>>
    BY <1>2, Zenon DEF fork
  <2> QED BY <1>1, <2>1, RSame, Zenon
<1>3. CASE free # {}
  <2>1. t \in Slot /\ state[t] = "UNUSED"
    BY <1>3, FirstIsMember, free \in SUBSET Slot, Zenon
  <2> HIDE DEF t
  <2>2. /\ state' = [state EXCEPT ![t] = "EMBRYO"]
        /\ pc' = [pc EXCEPT ![s] = "fork"]
    BY <1>3, Zenon DEF fork, t
  <2>3. /\ state'[t] = "EMBRYO" /\ \A u \in Slot : u # t => state'[u] = state[u]
        /\ \A u \in Slot : pc'[u] = "sleep" => pc[u] = "sleep"
    BY <2>1, <2>2, Typed, Zenon DEF RTypeOK
  <2>4. RTypeOK'
    BY <1>1, Zenon DEF RInv, RTypeOK
  <2>5. Parents'
    BY <1>1, <2>1, <2>3, InitIsSlot, SMTT(30) DEF RInv, Parents, ParentCanReap
  <2>6. Sleepers'
    BY <1>1, <2>1, <2>3, SMTT(30) DEF RInv, Sleepers, SleeperHasReason
  <2> QED BY <2>4, <2>5, <2>6, Zenon DEF RInv
<1> QED BY <1>2, <1>3, Zenon

\* fork() that fails leaves no entry behind.
LEMMA RStepForkFail ==
  ASSUME RInv, NEW c \in CPU, NEW s \in Slot, IInv', fork_fail(c, s) PROVE RInv'
<1> DEFINE t == child[s]
<1>1. t \in Slot /\ state[t] = "EMBRYO"
  BY Zenon DEF fork_fail, RInv, IInv, Building
<1>2. /\ UNCHANGED <<parent, killed, chan, kstack, left, intr>>
      /\ state' = [state EXCEPT ![t] = "UNUSED"] /\ pc' = [pc EXCEPT ![s] = "user"]
  BY Zenon DEF fork_fail, Return
<1> HIDE DEF t
<1>3. /\ state'[t] = "UNUSED" /\ \A u \in Slot : u # t => state'[u] = state[u]
      /\ \A u \in Slot : pc'[u] = "sleep" => pc[u] = "sleep"
  BY <1>1, <1>2, Typed, Zenon DEF RTypeOK
<1>4. RTypeOK'
  BY <1>2, Zenon DEF RInv, RTypeOK
<1>5. Parents'
  BY <1>1, <1>2, <1>3, InitIsSlot, SMTT(30) DEF RInv, Parents, ParentCanReap
<1>6. Sleepers'
  BY <1>1, <1>2, <1>3, SMTT(30) DEF RInv, Sleepers, SleeperHasReason
<1> QED BY <1>4, <1>5, <1>6, Zenon DEF RInv

\* A new child has a live parent.
LEMMA RStepForkRun ==
  ASSUME RInv, NEW c \in CPU, NEW s \in Slot, IInv', fork_run(c, s) PROVE RInv'
<1> DEFINE t == child[s]
<1>1. t \in Slot /\ state[t] = "EMBRYO" /\ state[s] = "RUNNING"
  BY Zenon DEF fork_run, Acquires, RInv, IInv, Building
<1>2. /\ UNCHANGED <<killed, chan, left>>
      /\ state' = [state EXCEPT ![t] = "RUNNABLE"] /\ parent' = [parent EXCEPT ![t] = s]
      /\ kstack' = [kstack EXCEPT ![t] = TRUE]
      /\ pc' = [pc EXCEPT ![t] = "user", ![s] = "user"]
      /\ intr[c] = "acquire" /\ intr' = [intr EXCEPT ![c] = "none"]
  BY Zenon DEF fork_run, Acquires
<1> HIDE DEF t
<1>3. /\ state'[t] = "RUNNABLE" /\ \A u \in Slot : u # t => state'[u] = state[u]
      /\ parent'[t] = s /\ \A u \in Slot : u # t => parent'[u] = parent[u]
      /\ kstack'[t] /\ \A u \in Slot : u # t => kstack'[u] = kstack[u]
      /\ \A u \in Slot : pc'[u] = "sleep" => pc[u] = "sleep"
      /\ intr'[BootCpu] = "wakeup" \/ intr[BootCpu] # "wakeup"
  BY <1>1, <1>2, Typed, Zenon DEF RTypeOK
<1>4. RTypeOK'
  BY <1>2, Zenon DEF RInv, RTypeOK
<1>5. Parents'
  BY <1>1, <1>2, <1>3, InitIsSlot, SMTT(30) DEF RInv, Parents, ParentCanReap
<1>6. Sleepers'
  <2>1. parent[t] = None
    BY <1>1, Zenon DEF RInv, Parents
  <2> QED BY <1>1, <1>2, <1>3, <2>1, Typed, SMTT(60) DEF RInv, Sleepers, SleeperHasReason
<1> QED BY <1>4, <1>5, <1>6, Zenon DEF RInv

\* A sleeper on ticks went to sleep under tickslock.
LEMMA RStepTicks ==
  ASSUME RInv, NEW c \in CPU, NEW s \in Slot, IInv', sleep(c, s) \/ sleep_test(c, s)
  PROVE  RInv'
<1>1. CASE sleep(c, s)
  <2>1. /\ UNCHANGED <<parent, killed, kstack, left, intr>>
        /\ state[s] = "RUNNING" /\ pc[s] = "sleep"
        /\ state' = [state EXCEPT ![s] = "SLEEPING"] /\ chan' = [chan EXCEPT ![s] = Ticks]
        /\ pc' = [pc EXCEPT ![s] = "lock_ticks"]
    BY <1>1, Zenon DEF sleep, Runs
  <2>2. /\ state'[s] = "SLEEPING" /\ \A u \in Slot : u # s => state'[u] = state[u]
        /\ chan'[s] = Ticks /\ \A u \in Slot : u # s => chan'[u] = chan[u]
        /\ \A u \in Slot : pc'[u] = "sleep" => pc[u] = "sleep"
    BY <2>1, Typed, Zenon DEF RTypeOK
  <2>3. RTypeOK'
    BY <2>1, Zenon DEF RInv, RTypeOK
  <2>4. Parents'
    BY <2>1, <2>2, InitIsSlot, SMTT(60) DEF RInv, Parents, ParentCanReap
  <2>5. Sleepers'
    BY <2>1, <2>2, SMTT(30) DEF RInv, Sleepers, SleeperHasReason
  <2> QED BY <2>3, <2>4, <2>5, Zenon DEF RInv
<1>2. CASE sleep_test(c, s)
  <2>1. UNCHANGED <<state, parent, killed, chan, kstack, intr>> /\ state[s] = "RUNNING"
    BY <1>2, Zenon DEF sleep_test, Runs
  <2>2. CASE left[s] = 0 \/ killed[s]
    <3>1. left' = [left EXCEPT ![s] = 0] /\ pc' = [pc EXCEPT ![s] = "user"]
      BY <1>2, <2>2, Zenon DEF sleep_test, Return
    <3>2. /\ \A u \in Slot : u # s => left'[u] = left[u]
          /\ \A u \in Slot : pc'[u] = "sleep" => pc[u] = "sleep" /\ u # s
      BY <3>1, Typed, Zenon DEF RTypeOK
    <3>3. RTypeOK' /\ Parents'
      BY <2>1, <3>1, Zenon DEF RInv, RTypeOK, Parents, ParentCanReap
    <3>4. Sleepers'
      BY <2>1, <3>2, SMTT(30) DEF RInv, Sleepers, SleeperHasReason
    <3> QED BY <3>3, <3>4, Zenon DEF RInv
  <2>3. CASE ~(left[s] = 0 \/ killed[s])
    <3>1. pc' = [pc EXCEPT ![s] = "sleep"] /\ UNCHANGED left
      BY <1>2, <2>3, Zenon DEF sleep_test
    <3>2. \A u \in Slot : pc'[u] = "sleep" => pc[u] = "sleep" \/ u = s
      BY <3>1, Typed, Zenon DEF RTypeOK
    <3>3. \A u \in Slot : pc'[u] = "sleep" => left'[u] > 0
      BY <2>3, <3>1, <3>2, Typed DEF RInv, Sleepers, RTypeOK
    <3>4. left' \in [Slot -> Nat]
      BY <3>1, Typed, Zenon DEF RTypeOK
    <3> QED BY <2>1, <3>1, <3>3, <3>4, Typed, RFrame, Zenon
  <2> QED BY <2>2, <2>3, Zenon
<1> QED BY <1>1, <1>2, Zenon

\* The call of sys_sleep touches only the caller.
LEMMA RStepSysSleep ==
  ASSUME RInv, NEW c \in CPU, NEW s \in Slot, IInv', NEW n \in 1 .. MaxSleep,
         sys_sleep(c, s, n)
  PROVE  RInv'
<1>1. /\ UNCHANGED <<state, parent, killed, chan, kstack, intr>> /\ state[s] = "RUNNING"
      /\ left' = [left EXCEPT ![s] = n] /\ pc' = [pc EXCEPT ![s] = "test"]
  BY Zenon DEF sys_sleep, Syscall, Runs
<1>2. /\ \A u \in Slot : u # s => left'[u] = left[u]
      /\ \A u \in Slot : pc'[u] = "sleep" => pc[u] = "sleep" /\ u # s
  BY <1>1, Typed, Zenon DEF RTypeOK
<1>3. RTypeOK' /\ Parents'
  BY <1>1, SMTT(30) DEF RInv, RTypeOK, Parents, ParentCanReap
<1>4. Sleepers'
  BY <1>1, <1>2, SMTT(30) DEF RInv, Sleepers, SleeperHasReason
<1> QED BY <1>3, <1>4, Zenon DEF RInv

\* kill() wakes the sleeper it marks.
LEMMA RStepKill ==
  ASSUME RInv, NEW c \in CPU, NEW s \in Slot, IInv', NEW k, kill(c, s, k) PROVE RInv'
<1> DEFINE match == {t \in Slot : pid[t] = k}
           u == First(match)
<1>1. UNCHANGED <<parent, chan, kstack, left, intr, pc>>
  BY Zenon DEF kill
<1>2. CASE match = {}
  <2>1. UNCHANGED <<state, killed>>
    BY <1>2, Zenon DEF kill
  <2> QED BY <1>1, <2>1, RSame, Zenon
<1>3. CASE match # {}
  <2>1. u \in Slot
    BY <1>3, FirstIsMember, match \in SUBSET Slot, Zenon
  <2> HIDE DEF u
  <2>2. /\ state' = [state EXCEPT ![u] = IF @ = "SLEEPING" THEN "RUNNABLE" ELSE @]
        /\ killed' = [killed EXCEPT ![u] = TRUE]
    BY <1>3, Zenon DEF kill, u
  <2>3. /\ state'[u] = (IF state[u] = "SLEEPING" THEN "RUNNABLE" ELSE state[u])
        /\ \A t \in Slot : t # u => state'[t] = state[t] /\ killed'[t] = killed[t]
    BY <2>1, <2>2, Typed, Zenon DEF RTypeOK
  <2>4. RTypeOK'
    BY <1>1, <2>2, Zenon DEF RInv, RTypeOK
  <2>5. Parents'
    BY <1>1, <2>1, <2>3, InitIsSlot, SMTT(30) DEF RInv, Parents, ParentCanReap
  <2>6. Sleepers'
    BY <1>1, <2>1, <2>3, SMTT(30) DEF RInv, Sleepers, SleeperHasReason
  <2> QED BY <2>4, <2>5, <2>6, Zenon DEF RInv
<1> QED BY <1>2, <1>3, Zenon

\* Resuming and yielding put nobody to sleep.
LEMMA RStepSwitch ==
  ASSUME RInv, NEW c \in CPU, NEW s \in Slot, IInv', resumed(c, s) \/ yield(c, s)
  PROVE  RInv'
<1>1. CASE resumed(c, s)
  <2>1. /\ UNCHANGED <<state, parent, killed, kstack, left, intr, pc>>
        /\ state[s] = "RUNNING"
        /\ chan' = [chan EXCEPT ![s] = None] \/ chan' = chan
    BY <1>1, Zenon DEF resumed
  <2>2. chan' \in [Slot -> Slot \cup {None, Ticks}]
        /\ \A u \in Slot : u # s => chan'[u] = chan[u]
    BY <2>1, Typed, Zenon DEF RTypeOK
  <2>3. RTypeOK' /\ Parents'
    BY <2>1, <2>2, Zenon DEF RInv, RTypeOK, Parents, ParentCanReap
  <2>4. Sleepers'
    BY <2>1, <2>2, SMTT(30) DEF RInv, Sleepers, SleeperHasReason
  <2> QED BY <2>3, <2>4, Zenon DEF RInv
<1>2. CASE yield(c, s)
  <2>1. /\ UNCHANGED <<parent, killed, chan, kstack, left>>
        /\ intr[c] = "yield" /\ intr' = [intr EXCEPT ![c] = "none"]
        /\ pc' = [pc EXCEPT ![s] = "exit"] \/ pc' = pc
        /\ state' = [state EXCEPT ![s] = "RUNNABLE"] \/ state' = state
    BY <1>2, Zenon DEF yield
  <2>2. state[s] = "RUNNING"
    BY <1>2, Zenon DEF yield, RInv, IInv, Interrupts
  <2>3. /\ state'[s] \in {"RUNNING", "RUNNABLE"}
        /\ \A u \in Slot : u # s => state'[u] = state[u]
        /\ \A u \in Slot : pc'[u] = "sleep" => pc[u] = "sleep"
        /\ intr'[BootCpu] = "wakeup" \/ intr[BootCpu] # "wakeup"
    BY <2>1, <2>2, Typed, Zenon DEF RTypeOK
  <2>4. RTypeOK'
    BY <2>1, Zenon DEF RInv, RTypeOK
  <2>5. Parents'
    BY <2>1, <2>2, <2>3, InitIsSlot, SMTT(30) DEF RInv, Parents, ParentCanReap
  <2>6. Sleepers'
    BY <2>1, <2>2, <2>3, SMTT(30) DEF RInv, Sleepers, SleeperHasReason
  <2> QED BY <2>4, <2>5, <2>6, Zenon DEF RInv
<1> QED BY <1>1, <1>2, Zenon

\* The scheduler only turns RUNNABLE into RUNNING.
LEMMA RStepScheduler ==
  ASSUME RInv, NEW c \in CPU, IInv', scheduler(c) PROVE RInv'
<1> DEFINE ready == {s \in Slot : s >= scan[c] /\ state[s] = "RUNNABLE"}
           u == First(ready)
<1>1. UNCHANGED <<parent, killed, chan, kstack, left, intr, pc>>
  BY Zenon DEF scheduler
<1>2. CASE UNCHANGED state
  BY <1>1, <1>2, RSame, Zenon
<1>3. CASE ready # {} /\ state' = [state EXCEPT ![u] = "RUNNING"]
  <2>1. u \in Slot /\ state[u] = "RUNNABLE"
    BY <1>3, FirstIsMember, ready \in SUBSET Slot, Zenon
  <2> HIDE DEF u
  <2>2. state'[u] = "RUNNING" /\ \A t \in Slot : t # u => state'[t] = state[t]
    BY <1>3, <2>1, Typed, Zenon DEF RTypeOK
  <2>3. RTypeOK'
    BY <1>1, Zenon DEF RInv, RTypeOK
  <2>4. Parents'
    BY <1>1, <2>1, <2>2, InitIsSlot, ZenonT(60) DEF RInv, Parents, ParentCanReap
  <2>5. Sleepers'
    BY <1>1, <2>1, <2>2, SMTT(30) DEF RInv, Sleepers, SleeperHasReason
  <2> QED BY <2>3, <2>4, <2>5, Zenon DEF RInv
<1> QED BY <1>2, <1>3, Zenon DEF scheduler

\* The wakeup of ticks leaves no sleeper on it.
LEMMA RStepTimer ==
  ASSUME RInv, NEW c \in CPU, IInv', timer_tick(c) \/ timer_wakeup(c) PROVE RInv'
<1>1. CASE timer_tick(c)
  <2>1. /\ UNCHANGED <<state, parent, killed, chan, kstack, pc>> /\ intr[c] = "none"
        /\ tlock # c
    BY <1>1, Zenon DEF timer_tick, Interruptible
  <2>2. CASE c # BootCpu
    <3>1. UNCHANGED left /\ intr'[BootCpu] = intr[BootCpu]
      BY <1>1, <2>2, Typed, Zenon DEF timer_tick
    <3> QED BY <2>1, <3>1, RSame, Zenon
  <2>3. CASE c = BootCpu
    <3>1. /\ tlock = None /\ intr'[BootCpu] = "wakeup"
          /\ left' = [s \in Slot |-> IF left[s] > 0 THEN left[s] - 1 ELSE 0]
      BY <1>1, <2>3, Typed, Zenon DEF timer_tick
    <3>2. left' \in [Slot -> Nat]
      BY <3>1, Typed DEF RTypeOK
    <3>3. \A s \in Slot : pc[s] # "sleep"
      BY <3>1, ProcAssumption DEF RInv, IInv, TicksHeld
    <3> QED BY <2>1, <3>1, <3>2, <3>3, RFrame, Zenon
  <2> QED BY <2>2, <2>3, Zenon
<1>2. CASE timer_wakeup(c)
  <2>0. UNCHANGED <<parent, killed, chan, kstack, left, pc>>
    BY <1>2, Zenon DEF timer_wakeup
  <2>1. ASSUME NEW s \in Slot
        PROVE  state'[s] = IF state[s] = "SLEEPING" /\ chan[s] = Ticks
                           THEN "RUNNABLE" ELSE state[s]
    BY <1>2, <2>1, Zenon DEF timer_wakeup, Woken
  <2>2. RTypeOK'
    BY <2>0, Zenon DEF RInv, RTypeOK
  <2>3. Parents'
    BY <2>0, <2>1, InitIsSlot, Zenon DEF RInv, Parents, ParentCanReap
  <2>4. Sleepers'
    BY <2>0, <2>1, InitIsSlot, SMTT(30) DEF RInv, Sleepers, SleeperHasReason
  <2> QED BY <2>2, <2>3, <2>4, Zenon DEF RInv
<1> QED BY <1>1, <1>2, Zenon

\* exit() wakes the parent, and init if it hands a zombie over: nobody sleeps
\* over a zombie child.
LEMMA RStepExit ==
  ASSUME RInv, NEW c \in CPU, NEW s \in Slot, IInv', exit(c, s) PROVE RInv'
<1>1. CASE panicked' = TRUE /\ UNCHANGED <<table, cpuVars, locals>>
  BY <1>1, RSame, Zenon
<1> DEFINE orphan == \E t \in Slot : parent[t] = s /\ state[t] = "ZOMBIE"
           st == Woken(state, parent[s])
<1>2. CASE ExitWith(c, s, IF orphan THEN Woken(st, InitProc) ELSE st, HandedOver(s), c)
  <2>1. ASSUME NEW t \in Slot
        PROVE  /\ st[t] = IF state[t] = "SLEEPING" /\ chan[t] = parent[s]
                          THEN "RUNNABLE" ELSE state[t]
               /\ Woken(st, InitProc)[t] = IF st[t] = "SLEEPING" /\ chan[t] = InitProc
                                           THEN "RUNNABLE" ELSE st[t]
    BY <2>1, Zenon DEF Woken
  <2>2. ASSUME NEW t \in Slot, t # s
        PROVE  state'[t] = IF /\ state[t] = "SLEEPING"
                              /\ \/ chan[t] = parent[s]
                                 \/ orphan /\ chan[t] = InitProc
                           THEN "RUNNABLE" ELSE state[t]
    BY <1>2, <2>1, <2>2, Zenon DEF ExitWith, Woken
  <2>3. state'[s] = "ZOMBIE" /\ state[s] = "RUNNING" /\ s # InitProc
    BY <1>2, Zenon DEF ExitWith, Woken, Acquires
  <2>4. ASSUME NEW t \in Slot
        PROVE  parent'[t] = IF parent[t] = s THEN InitProc ELSE parent[t]
    BY <1>2, <2>4, Zenon DEF ExitWith, HandedOver
  <2>5. /\ UNCHANGED <<killed, chan, kstack, left, pc>>
        /\ parent' = HandedOver(s)
    BY <1>2, Zenon DEF ExitWith
  <2>6. RTypeOK'
    BY <2>5, InitIsSlot, Zenon DEF HandedOver, RInv, RTypeOK
  <2>7. Parents'
    <3>1. state'[InitProc] \in Live /\ parent'[InitProc] = None
      BY <2>2, <2>3, <2>4, InitIsSlot, Typed, Zenon DEF RInv, Parents
    <3>2. ASSUME NEW t \in Slot, state'[t] = "EMBRYO"
          PROVE  parent'[t] = None /\ ~kstack'[t]
      BY <2>2, <2>3, <2>4, <2>5, <3>2, Typed, Zenon DEF RInv, Parents
    <3>3. ASSUME NEW t \in Slot \ {InitProc}
          PROVE  state'[t] = "UNUSED" => parent'[t] = None /\ ~kstack'[t]
      BY <2>2, <2>3, <2>4, <2>5, <3>3, Typed DEF RInv, Parents, ParentCanReap
    <3>4. ASSUME NEW t \in Slot \ {InitProc}, state'[t] \in Live \cup {"ZOMBIE"}
          PROVE  /\ parent'[t] \in Slot /\ parent'[t] # t /\ state'[parent'[t]] \in Live
      <4>1. state[t] \in Live \cup {"ZOMBIE"}
        BY <2>2, <2>3, <3>4, Zenon
      <4>2. parent[t] \in Slot /\ state[parent[t]] \in Live /\ parent[t] # t
        BY <3>4, <4>1, Zenon DEF RInv, Parents, ParentCanReap
      <4>3. CASE parent[t] = s
        BY <4>3, <2>4, <3>1, <3>4, InitIsSlot, Zenon
      <4>4. CASE parent[t] # s
        BY <4>2, <4>4, <2>2, <2>4, Zenon
      <4> QED BY <4>3, <4>4, Zenon
    <3> QED BY <3>1, <3>2, <3>3, <3>4, Zenon DEF Parents, ParentCanReap
  <2>8. Sleepers'
    <3>1. \A t \in Slot : pc'[t] = "sleep" => left'[t] > 0
      BY <2>5, Zenon DEF RInv, Sleepers
    <3>2. ASSUME NEW t \in Slot, state'[t] = "SLEEPING"
          PROVE  /\ t # s /\ state[t] = "SLEEPING"
                 /\ chan[t] # parent[s] /\ ~(orphan /\ chan[t] = InitProc)
      BY <2>2, <2>3, <3>2, Zenon
    <3>3. ASSUME NEW t \in Slot, state'[t] = "SLEEPING", chan[t] # Ticks
          PROVE  /\ chan[t] = t /\ ~killed[t]
                 /\ \E u \in Slot : parent'[u] = t
                 /\ \A u \in Slot : parent'[u] = t => state'[u] # "ZOMBIE"
      <4>1. /\ chan[t] = t /\ ~killed[t]
            /\ \E u \in Slot : parent[u] = t
            /\ \A u \in Slot : parent[u] = t => state[u] # "ZOMBIE"
        BY <3>2, <3>3, Zenon DEF RInv, Sleepers, SleeperHasReason
      <4>2. \E u \in Slot : parent'[u] = t
        BY <4>1, <3>2, <3>3, <2>4, Zenon
      <4>3. ASSUME NEW u \in Slot, parent'[u] = t PROVE state'[u] # "ZOMBIE"
        <5>1. CASE u = s
          <6>1. parent[s] # s
            BY <2>3, Zenon DEF RInv, Parents, ParentCanReap
          <6>2. t = parent[s]
            BY <5>1, <6>1, <4>3, <2>4, Zenon
          <6> QED BY <6>2, <4>1, <3>2, <3>3, Zenon
        <5>2. CASE u # s
          BY <5>2, <4>1, <4>3, <3>2, <3>3, <2>2, <2>4, Zenon
        <5> QED BY <5>1, <5>2, Zenon
      <4> QED BY <4>1, <4>2, <4>3, Zenon
    <3>4. intr'[BootCpu] = "wakeup" \/ intr[BootCpu] # "wakeup"
      BY <1>2, Typed, Zenon DEF ExitWith, Acquires
    <3>5. ASSUME NEW t \in Slot, state'[t] = "SLEEPING", chan[t] = Ticks
          PROVE  left[t] > 0 \/ intr'[BootCpu] = "wakeup"
      BY <3>2, <3>4, <3>5, Zenon DEF RInv, Sleepers, SleeperHasReason
    <3> QED BY <3>1, <3>3, <3>5, <2>5, Zenon DEF Sleepers, SleeperHasReason
  <2> QED BY <2>6, <2>7, <2>8, Zenon DEF RInv
<1> QED BY <1>1, <1>2, Zenon DEF exit

\* wait() sleeps only while a child lives and none is a ZOMBIE.
LEMMA RStepWait ==
  ASSUME RInv, NEW c \in CPU, NEW s \in Slot, IInv', wait(c, s) PROVE RInv'
<1> DEFINE kids == {t \in Slot : parent[t] = s}
           dead == {t \in kids : state[t] = "ZOMBIE"}
           z == First(dead)
<1>0. state[s] = "RUNNING" /\ (intr'[BootCpu] = "wakeup" \/ intr[BootCpu] # "wakeup")
  <2>1. /\ state[s] = "RUNNING" /\ on[c] = s /\ intr' = [intr EXCEPT ![c] = "none"]
        /\ intr[c] = "acquire" \/ ctx[s] = "wait"
    BY Zenon DEF wait, Acquires
  <2>2. intr[c] # "wakeup"
    BY <2>1, Typed, Zenon DEF RInv, IInv, Interrupts
  <2> QED BY <2>1, <2>2, Typed, Zenon DEF RTypeOK
<1>1. CASE dead # {}
  <2>1. z \in Slot /\ state[z] = "ZOMBIE" /\ parent[z] = s
    BY <1>1, FirstIsMember, dead \in SUBSET Slot, Zenon
  <2> HIDE DEF z
  <2>2. /\ kstack' = [kstack EXCEPT ![z] = FALSE]
        /\ parent' = [parent EXCEPT ![z] = None]
        /\ killed' = [killed EXCEPT ![z] = FALSE]
        /\ state' = [state EXCEPT ![z] = "UNUSED"]
        /\ chan' = [chan EXCEPT ![s] = None]
        /\ pc' = [pc EXCEPT ![s] = "user"] /\ UNCHANGED left
    BY <1>1, Zenon DEF wait, z, Return
  <2>3. /\ ~kstack'[z] /\ parent'[z] = None /\ ~killed'[z] /\ state'[z] = "UNUSED"
        /\ \A u \in Slot : u # z => /\ kstack'[u] = kstack[u] /\ parent'[u] = parent[u]
                                    /\ killed'[u] = killed[u] /\ state'[u] = state[u]
        /\ \A u \in Slot : u # s => chan'[u] = chan[u]
        /\ \A u \in Slot : pc'[u] = "sleep" => pc[u] = "sleep"
    BY <2>1, <2>2, Typed, Zenon DEF RTypeOK
  <2>4. RTypeOK'
    BY <2>2, Zenon DEF RInv, RTypeOK
  <2>5. Parents'
    BY <2>1, <2>3, InitIsSlot, SMTT(30) DEF RInv, Parents, ParentCanReap
  <2>6. Sleepers'
    BY <1>0, <2>1, <2>2, <2>3, Typed, SMTT(60) DEF RInv, Sleepers, SleeperHasReason
  <2> QED BY <2>4, <2>5, <2>6, Zenon DEF RInv
<1>2. CASE dead = {} /\ (kids = {} \/ killed[s])
  <2>1. /\ chan' = [chan EXCEPT ![s] = None] /\ pc' = [pc EXCEPT ![s] = "user"]
        /\ UNCHANGED <<state, parent, killed, kstack, left>>
    BY <1>2, Zenon DEF wait, Return
  <2>2. /\ \A u \in Slot : u # s => chan'[u] = chan[u]
        /\ \A u \in Slot : pc'[u] = "sleep" => pc[u] = "sleep"
    BY <2>1, Typed, Zenon DEF RTypeOK
  <2>3. RTypeOK' /\ Parents'
    BY <2>1, Zenon DEF RInv, RTypeOK, Parents, ParentCanReap
  <2>4. Sleepers'
    BY <1>0, <2>1, <2>2, SMTT(30) DEF RInv, Sleepers, SleeperHasReason
  <2> QED BY <2>3, <2>4, Zenon DEF RInv
<1>3. CASE dead = {} /\ ~(kids = {} \/ killed[s])
  <2>1. /\ chan' = [chan EXCEPT ![s] = s]
        /\ state' = [state EXCEPT ![s] = "SLEEPING"]
        /\ UNCHANGED <<parent, killed, kstack, left, pc>>
    BY <1>3, Zenon DEF wait
  <2>2. /\ chan'[s] = s /\ state'[s] = "SLEEPING"
        /\ \A u \in Slot : u # s => chan'[u] = chan[u] /\ state'[u] = state[u]
    BY <2>1, Typed, Zenon DEF RTypeOK
  <2>3. RTypeOK'
    BY <2>1, Zenon DEF RInv, RTypeOK
  <2>4. Parents'
    <3>1. UNCHANGED <<parent, kstack>> /\ state[s] = "RUNNING" /\ state'[s] = "SLEEPING"
          /\ \A u \in Slot : u # s => state'[u] = state[u]
      BY <1>0, <2>1, <2>2, Zenon
    <3> QED BY <3>1, InitIsSlot, Zenon DEF RInv, Parents, ParentCanReap
  <2>5. /\ ~killed[s] /\ \E t \in Slot : parent[t] = s
        /\ \A t \in Slot : parent[t] = s => state[t] # "ZOMBIE"
    BY <1>3, Zenon
  <2>6. Sleepers'
    BY <1>0, <2>1, <2>2, <2>5, InitIsSlot, SMTT(30) DEF RInv, Sleepers, SleeperHasReason
  <2> QED BY <2>3, <2>4, <2>6, Zenon DEF RInv
<1> QED BY <1>1, <1>2, <1>3, Zenon

\* RInv is inductive, with IInv.
LEMMA RInductive == RInv /\ [Next]_vars => RInv'
<1> SUFFICES ASSUME RInv, [Next]_vars PROVE RInv'
  BY Zenon
<1>0. IInv'
  BY Inductive, Zenon DEF RInv
<1>1. CASE UNCHANGED vars \/ halted
  <2>1. UNCHANGED <<state, parent, killed, chan, kstack, left, intr, pc>>
    BY <1>1, Zenon DEF vars, halted
  <2> QED BY <1>0, <2>1, RSame, Zenon
<1>2. ASSUME NEW c \in CPU, Cpu(c) PROVE RInv'
  BY <1>0, <1>2, RStepSimple, RStepForkFail, RStepForkRun, RStepExit, RStepWait,
     RStepTicks, RStepSwitch, RStepScheduler, RStepTimer, Zenon
     DEF Cpu, Step, Progress, Switch
<1>3. ASSUME NEW c \in CPU, NEW s \in Slot, User(c, s) PROVE RInv'
  BY <1>0, <1>3, RStepFork, RStepSimple, RStepKill, RStepSysSleep, Zenon DEF User
<1> QED BY <1>1, <1>2, <1>3, Zenon DEF Next

\* exit() leaves no child to a process that cannot reap it any more, and no
\* entry is freed while a process still has it for its parent.
THEOREM EveryParentCanReap == Spec => []ParentCanReap
<1>1. RInv => ParentCanReap
  BY Zenon DEF RInv, Parents
<1> QED BY <1>1, RInitHolds, RInductive, PTL DEF Spec

\* sleep(), wakeup(), kill() and the timer lose no wakeup, for wait() and for
\* sys_sleep, on any number of CPUs.
THEOREM EverySleeperHasReason == Spec => []SleeperHasReason
<1>1. RInv => SleeperHasReason
  BY Zenon DEF RInv, Sleepers
<1> QED BY <1>1, RInitHolds, RInductive, PTL DEF Spec
=============================================================================
