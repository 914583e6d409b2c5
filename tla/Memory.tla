------------------------------- MODULE Memory -------------------------------
(***************************************************************************)
(* Physical memory from boot to exit: the page allocator (kalloc.c), the   *)
(* page tables (vm.c) and everything that takes or returns a frame: main   *)
(* and startothers at boot (main.c), userinit, growproc, fork, exit and    *)
(* wait (proc.c) and exec (exec.c).  The pointer checks of syscall.c are   *)
(* here because they are what the size of an image is trusted for.         *)
(*                                                                         *)
(* A page table is a function from its entries to frames: the directory    *)
(* page, one page per directory slot, one frame per user page; 0 is an     *)
(* entry that is not present.  One iteration of a loop of vm.c is one      *)
(* step, so other CPUs allocate and free between two iterations of one     *)
(* call; a loop that only frees is one step, because a frame freed later   *)
(* can only look, to anybody else, like a call that started later.         *)
(***************************************************************************)
EXTENDS Integers, Sequences, FiniteSets

CONSTANTS Frame,    \* page frames above the kernel (end..PHYSTOP), not 0
          Low,      \* the frames below 4 MB, which entrypgdir maps
          Proc, initproc, AP,
          PGSIZE, NPTE, UPAGES, KTABS, WSZ,
          Image     \* program header lists exec may find in a file

ASSUME MemoryAssumption ==
    /\ 0 \notin Frame /\ Low \subseteq Frame /\ IsFiniteSet(Frame)
    /\ initproc \in Proc
    /\ PGSIZE \in Nat \ {0} /\ NPTE \in Nat \ {0} /\ UPAGES \in Nat \ {0}
    /\ KTABS \in Nat

KERNBASE == UPAGES * PGSIZE        \* 0x80000000
WORD == 2 * KERNBASE               \* 2^32: uint arithmetic wraps here
Pages == 0..UPAGES - 1
PDX(j) == j \div NPTE
UTABS == PDX(UPAGES - 1) + 1
Dir == <<"dir", 0>>
Tab(i) == <<"tab", i>>
Pte(j) == <<"pte", j>>
Entry == {Dir} \union {Tab(i) : i \in 0..UTABS + KTABS - 1}
               \union {Pte(j) : j \in Pages}
NoTable == [e \in Entry |-> 0]
FramesOf(t) == {t[e] : e \in Entry} \ {0}
Header == [load : BOOLEAN, vaddr : 0..WORD - 1, memsz : 0..WORD - 1, filesz : 0..WORD - 1]

ASSUME ImageAssumption == Image \subseteq Seq(Header) /\ WSZ \in 1..KERNBASE

\* PGROUNDUP(a) as a page number, and the pages of the bytes 0..s-1.
PGROUNDUP(a) == (a + PGSIZE - 1) \div PGSIZE
Covered(s) == {j \in Pages : j * PGSIZE < s}

VARIABLES
    free,       \* kmem.freelist
    use_lock,   \* kmem.use_lock
    boot,       \* where the boot CPU is in main()
    ap,         \* per other CPU: "off", "starting", "up"
    slot,       \* the stack word at code-4, read by entryother.S
    apstack,    \* the stack each other CPU runs on
    kpgdir,
    state, parent, sz, kstack, pgdir,        \* struct proc
    pc,         \* per process: in user mode, or where in a system call
    new,        \* the table under construction (copyuvm's d, exec's pgdir)
    loc,        \* the other locals of the system call, see Idle
    panicked

bootvars == <<boot, ap, slot, apstack, kpgdir, use_lock>>
procvars == <<state, parent, sz, kstack, pgdir>>
vars == <<free, bootvars, procvars, pc, new, loc, panicked>>

Bootpcs == {"kinit1", "kvmalloc", "startothers", "kinit2", "uselock",
            "userinit", "sched"}
\* a: loop counter (a page) and lim: bound (bytes) of the loops of vm.c;
\* esz: exec's sz; segs: program headers still to load; np: fork's child.
Idle == [a |-> 0, lim |-> 0, esz |-> 0, segs |-> <<>>, np |-> initproc]

Pcs == {"user", "grow", "kvmfork", "copy", "kvmexec", "load", "seg", "stack"}

TypeOK ==
    /\ free \subseteq Frame
    /\ use_lock \in BOOLEAN
    /\ boot \in Bootpcs
    /\ ap \in [AP -> {"off", "starting", "up"}]
    /\ slot \in Frame \union {0}
    /\ apstack \in [AP -> Frame \union {0}]
    /\ kpgdir \in [Entry -> Frame \union {0}]
    /\ state \in [Proc -> {"UNUSED", "EMBRYO", "LIVE", "ZOMBIE"}]
    /\ parent \in [Proc -> Proc]
    /\ sz \in [Proc -> Nat]
    /\ kstack \in [Proc -> Frame \union {0}]
    /\ pgdir \in [Proc -> [Entry -> Frame \union {0}]]
    /\ pc \in [Proc -> Pcs]
    /\ new \in [Proc -> [Entry -> Frame \union {0}]]
    /\ panicked \in BOOLEAN
    /\ loc \in [Proc -> [a : Nat, lim : Nat, esz : Nat, segs : Seq(Header), np : Proc]]

Init ==
    /\ free = {} /\ use_lock = FALSE /\ boot = "kinit1"
    /\ ap = [c \in AP |-> "off"] /\ slot = 0 /\ apstack = [c \in AP |-> 0]
    /\ kpgdir = NoTable
    /\ state = [p \in Proc |-> "UNUSED"]
    /\ parent = [p \in Proc |-> initproc]
    /\ sz = [p \in Proc |-> 0] /\ kstack = [p \in Proc |-> 0]
    /\ pgdir = [p \in Proc |-> NoTable]
    /\ pc = [p \in Proc |-> "user"]
    /\ new = [p \in Proc |-> NoTable]
    /\ loc = [p \in Proc |-> Idle]
    /\ panicked = FALSE
-----------------------------------------------------------------------------
(* kalloc and the page-table operations *)

\* The frame kalloc pops.  freerange pushes in ascending order, so frames
\* above 4 MB, once there are any, lie above the others on the list.
kalloc(S) == CHOOSE f \in S : f \in Low => S \subseteq Low

\* walkpgdir(t, page j, alloc): does it have to allocate a page table page?
walkpgdirAllocates(t, j) == t[Tab(PDX(j))] = 0

\* One iteration of the loops of allocuvm and copyuvm: a frame for the page,
\* then mappages, which may take a second one for the page table.
CanMap(t, j) ==
    /\ free # {}
    /\ walkpgdirAllocates(t, j) => free \ {kalloc(free)} # {}
MapFrames(t, j) ==
    LET f == kalloc(free)
    IN {f} \union IF walkpgdirAllocates(t, j) THEN {kalloc(free \ {f})} ELSE {}
mappages(t, j) ==
    LET f == kalloc(free)
    IN [t EXCEPT ![Pte(j)] = f,
                 ![Tab(PDX(j))] = IF walkpgdirAllocates(t, j)
                                  THEN kalloc(free \ {f}) ELSE @]

\* deallocuvm(t, oldsz, newsz): the pages it frees, and the table after it.
Dropped(oldsz, newsz) ==
    {j \in Pages : PGROUNDUP(newsz) <= j /\ j * PGSIZE < oldsz}
deallocuvm(t, oldsz, newsz) ==
    [e \in Entry |-> IF \E j \in Dropped(oldsz, newsz) : e = Pte(j)
                     THEN 0 ELSE t[e]]

\* The entries setupkvm fills, in order: the directory, then one page table
\* page per directory slot of the kernel's half.
KvmEntry(i) == IF i = 0 THEN Dir ELSE Tab(UTABS + i - 1)

panic == panicked' = TRUE
-----------------------------------------------------------------------------
(* Boot: main(), on the boot CPU, and mpenter() on the others *)

kinit1 ==
    /\ boot = "kinit1"
    /\ free' = Low
    /\ use_lock' = FALSE
    /\ boot' = "kvmalloc"
    /\ UNCHANGED <<ap, slot, apstack, kpgdir, procvars, pc, new, loc, panicked>>

\* kpgdir = setupkvm(), one entry per step.
kvmalloc ==
    /\ boot = "kvmalloc"
    /\ \/ \E i \in 0..KTABS :
             /\ kpgdir[KvmEntry(i)] = 0
             /\ \A k \in 0..i - 1 : kpgdir[KvmEntry(k)] # 0
             /\ free # {}
             /\ kpgdir' = [kpgdir EXCEPT ![KvmEntry(i)] = kalloc(free)]
             /\ free' = free \ {kalloc(free)}
             /\ UNCHANGED boot
       \/ /\ \A i \in 0..KTABS : kpgdir[KvmEntry(i)] # 0
          /\ boot' = "startothers"
          /\ UNCHANGED <<kpgdir, free>>
    /\ UNCHANGED <<use_lock, ap, slot, apstack, procvars, pc, new, loc, panicked>>

\* Mutant: the next CPU is started without waiting for the last one.
startothers_NoWait(c) ==
    /\ boot = "startothers"
    /\ ap[c] = "off"
    /\ free # {}
    /\ slot' = kalloc(free)
    /\ free' = free \ {kalloc(free)}
    /\ ap' = [ap EXCEPT ![c] = "starting"]
    /\ UNCHANGED <<use_lock, boot, apstack, kpgdir, procvars, pc, new, loc,
                   panicked>>

\* startothers: the stack goes into code-4, the CPU is started, and main
\* spins until it is up before it reuses the word for the next one.
startothers(c) ==
    /\ boot = "startothers"
    /\ ap[c] = "off"
    /\ \A d \in AP : ap[d] # "starting"
    /\ free # {}
    /\ slot' = kalloc(free)
    /\ free' = free \ {kalloc(free)}
    /\ ap' = [ap EXCEPT ![c] = "starting"]
    /\ UNCHANGED <<use_lock, boot, apstack, kpgdir, procvars, pc, new, loc,
                   panicked>>

startothersDone ==
    /\ boot = "startothers"
    /\ \A c \in AP : ap[c] = "up"
    /\ boot' = "kinit2"
    /\ UNCHANGED <<free, use_lock, ap, slot, apstack, kpgdir, procvars, pc,
                   new, loc, panicked>>

\* entryother.S loads its stack from code-4 under entrypgdir; mpenter
\* switches to kpgdir, and mpmain sets started and enters the scheduler.
mpenter(c) ==
    /\ ap[c] = "starting"
    /\ apstack' = [apstack EXCEPT ![c] = slot]
    /\ ap' = [ap EXCEPT ![c] = "up"]
    /\ UNCHANGED <<free, use_lock, boot, slot, kpgdir, procvars, pc, new, loc,
                   panicked>>

kinit2 ==
    /\ boot = "kinit2"
    /\ free' = free \union (Frame \ Low)
    /\ boot' = "uselock"
    /\ UNCHANGED <<use_lock, ap, slot, apstack, kpgdir, procvars, pc, new, loc,
                   panicked>>

kinit2Lock ==
    /\ boot = "uselock"
    /\ use_lock' = TRUE
    /\ boot' = "userinit"
    /\ UNCHANGED <<free, ap, slot, apstack, kpgdir, procvars, pc, new, loc,
                   panicked>>

\* allocproc's kstack, setupkvm, then inituvm: initcode's page at address 0.
userinit ==
    /\ boot = "userinit"
    /\ free # {}
    /\ \/ /\ kstack[initproc] = 0
          /\ kstack' = [kstack EXCEPT ![initproc] = kalloc(free)]
          /\ state' = [state EXCEPT ![initproc] = "EMBRYO"]
          /\ free' = free \ {kalloc(free)}
          /\ UNCHANGED <<pgdir, sz, boot>>
       \/ /\ kstack[initproc] # 0
          /\ \E i \in 0..KTABS :
                /\ pgdir[initproc][KvmEntry(i)] = 0
                /\ \A k \in 0..i - 1 : pgdir[initproc][KvmEntry(k)] # 0
                /\ pgdir' = [pgdir EXCEPT ![initproc][KvmEntry(i)] = kalloc(free)]
          /\ free' = free \ {kalloc(free)}
          /\ UNCHANGED <<kstack, state, sz, boot>>
       \/ /\ kstack[initproc] # 0
          /\ \A i \in 0..KTABS : pgdir[initproc][KvmEntry(i)] # 0
          /\ CanMap(pgdir[initproc], 0)
          /\ pgdir' = [pgdir EXCEPT ![initproc] = mappages(@, 0)]
          /\ free' = free \ MapFrames(pgdir[initproc], 0)
          /\ sz' = [sz EXCEPT ![initproc] = PGSIZE]
          /\ state' = [state EXCEPT ![initproc] = "LIVE"]
          /\ boot' = "sched"
          /\ UNCHANGED kstack
    /\ UNCHANGED <<use_lock, ap, slot, apstack, kpgdir, parent, pc, new, loc,
                   panicked>>
-----------------------------------------------------------------------------
(* A process is in user mode, on some CPU that runs the scheduler.  With no
   page left it cannot execute an instruction: it takes a page fault. *)

CpuUp == boot = "sched" \/ \E c \in AP : ap[c] = "up"
Mapped(t) == {j \in Pages : t[Pte(j)] # 0}
InUser(p) == state[p] = "LIVE" /\ pc[p] = "user" /\ CpuUp /\ ~panicked
Calls(p) == InUser(p) /\ Mapped(pgdir[p]) # {}
InCall(p, where) == state[p] = "LIVE" /\ pc[p] = where /\ ~panicked

\* sys_sbrk(n) with n > 0: growproc enters allocuvm's loop, or allocuvm
\* refuses a size that reaches the kernel's half.
sbrkGrow(p, n) ==
    /\ Calls(p) /\ p # initproc
    /\ n > 0
    /\ sz[p] + n < KERNBASE
    /\ pc' = [pc EXCEPT ![p] = "grow"]
    /\ loc' = [loc EXCEPT ![p].a = PGROUNDUP(sz[p]), ![p].lim = sz[p] + n]
    /\ UNCHANGED <<free, bootvars, procvars, new, panicked>>

\* Mutant: a failing allocuvm leaves the pages it got so far mapped.
growStep_Keeps(p) ==
    /\ InCall(p, "grow")
    /\ loc[p].a * PGSIZE < loc[p].lim
    /\ IF CanMap(pgdir[p], loc[p].a)
       THEN /\ panicked' = (pgdir[p][Pte(loc[p].a)] # 0)            \* "remap"
            /\ pgdir' = [pgdir EXCEPT ![p] = mappages(@, loc[p].a)]
            /\ free' = free \ MapFrames(pgdir[p], loc[p].a)
            /\ loc' = [loc EXCEPT ![p].a = @ + 1]
            /\ UNCHANGED pc
       ELSE /\ pc' = [pc EXCEPT ![p] = "user"]
            /\ loc' = [loc EXCEPT ![p] = Idle]
            /\ UNCHANGED <<pgdir, free, panicked>>
    /\ UNCHANGED <<bootvars, state, parent, sz, kstack, new>>

growStep(p) ==
    /\ InCall(p, "grow")
    /\ loc[p].a * PGSIZE < loc[p].lim
    /\ IF CanMap(pgdir[p], loc[p].a)
       THEN /\ panicked' = (pgdir[p][Pte(loc[p].a)] # 0)            \* "remap"
            /\ pgdir' = [pgdir EXCEPT ![p] = mappages(@, loc[p].a)]
            /\ free' = free \ MapFrames(pgdir[p], loc[p].a)
            /\ loc' = [loc EXCEPT ![p].a = @ + 1]
            /\ UNCHANGED pc
       ELSE /\ pgdir' = [pgdir EXCEPT ![p] = deallocuvm(@, loc[p].lim, sz[p])]
            /\ free' = free \union (FramesOf(pgdir[p]) \ FramesOf(pgdir'[p]))
            /\ pc' = [pc EXCEPT ![p] = "user"]
            /\ loc' = [loc EXCEPT ![p] = Idle]
            /\ UNCHANGED panicked
    /\ UNCHANGED <<bootvars, state, parent, sz, kstack, new>>

growDone(p) ==
    /\ InCall(p, "grow")
    /\ loc[p].a * PGSIZE >= loc[p].lim
    /\ sz' = [sz EXCEPT ![p] = loc[p].lim]
    /\ pc' = [pc EXCEPT ![p] = "user"]
    /\ loc' = [loc EXCEPT ![p] = Idle]
    /\ UNCHANGED <<free, bootvars, state, parent, kstack, pgdir, new, panicked>>

\* sys_sbrk(n) with n < 0: sz + n wraps when it is negative, and then
\* deallocuvm does nothing; when it is 0, growproc takes deallocuvm's result
\* for a failure and leaves sz as it was although the pages are gone.
sbrkShrink(p, n) ==
    LET newsz == (sz[p] + n) % WORD
    IN /\ Calls(p) /\ p # initproc
       /\ n < 0
       /\ newsz < sz[p]
       /\ pgdir' = [pgdir EXCEPT ![p] = deallocuvm(@, sz[p], newsz)]
       /\ free' = free \union (FramesOf(pgdir[p]) \ FramesOf(pgdir'[p]))
       /\ sz' = [sz EXCEPT ![p] = IF newsz = 0 THEN @ ELSE newsz]
       /\ UNCHANGED <<bootvars, state, parent, kstack, pc, new, loc, panicked>>
-----------------------------------------------------------------------------
(* fork: allocproc, then copyuvm *)

fork(p, q) ==
    /\ Calls(p)
    /\ state[q] = "UNUSED"
    /\ free # {}
    /\ state' = [state EXCEPT ![q] = "EMBRYO"]
    /\ kstack' = [kstack EXCEPT ![q] = kalloc(free)]
    /\ free' = free \ {kalloc(free)}
    /\ loc' = [loc EXCEPT ![p].np = q]
    /\ pc' = [pc EXCEPT ![p] = "kvmfork"]
    /\ UNCHANGED <<bootvars, parent, sz, pgdir, new, panicked>>

\* Mutant: fork forgets the kernel stack of the child.
bad_Leak(p) ==
    LET q == loc[p].np
        forking == pc[p] \in {"kvmfork", "copy"}
    IN /\ new' = [new EXCEPT ![p] = NoTable]
       /\ free' = free \union FramesOf(new[p])
       /\ kstack' = IF forking THEN [kstack EXCEPT ![q] = 0] ELSE kstack
       /\ state' = IF forking THEN [state EXCEPT ![q] = "UNUSED"] ELSE state
       /\ pc' = [pc EXCEPT ![p] = "user"]
       /\ loc' = [loc EXCEPT ![p] = Idle]
       /\ UNCHANGED <<bootvars, parent, sz, pgdir, panicked>>

\* What fork and exec do when setupkvm, copyuvm or a later step fails:
\* freevm on the table under construction; fork also gives up the child.
bad(p) ==
    LET q == loc[p].np
        forking == pc[p] \in {"kvmfork", "copy"}
    IN /\ new' = [new EXCEPT ![p] = NoTable]
       /\ free' = free \union FramesOf(new[p])
                       \union (IF forking THEN {kstack[q]} ELSE {})
       /\ kstack' = IF forking THEN [kstack EXCEPT ![q] = 0] ELSE kstack
       /\ state' = IF forking THEN [state EXCEPT ![q] = "UNUSED"] ELSE state
       /\ pc' = [pc EXCEPT ![p] = "user"]
       /\ loc' = [loc EXCEPT ![p] = Idle]
       /\ UNCHANGED <<bootvars, parent, sz, pgdir, panicked>>

\* setupkvm, called by copyuvm (fork) and by exec.
setupkvm(p) ==
    /\ \/ InCall(p, "kvmfork")
       \/ InCall(p, "kvmexec")
    /\ IF loc[p].a > KTABS
       THEN /\ pc' = [pc EXCEPT ![p] = IF @ = "kvmfork" THEN "copy" ELSE "load"]
            /\ loc' = [loc EXCEPT ![p].a = 0]
            /\ UNCHANGED <<free, new, procvars, bootvars, panicked>>
       ELSE IF free # {}
       THEN /\ new' = [new EXCEPT ![p][KvmEntry(loc[p].a)] = kalloc(free)]
            /\ free' = free \ {kalloc(free)}
            /\ loc' = [loc EXCEPT ![p].a = @ + 1]
            /\ UNCHANGED <<pc, procvars, bootvars, panicked>>
       ELSE bad(p)

copyuvm(p) ==
    /\ InCall(p, "copy")
    /\ loc[p].a * PGSIZE < sz[p]
    /\ IF pgdir[p][Pte(loc[p].a)] = 0             \* "copyuvm: page not present"
       THEN panic /\ UNCHANGED <<free, bootvars, procvars, pc, new, loc>>
       ELSE IF CanMap(new[p], loc[p].a)
       THEN /\ new' = [new EXCEPT ![p] = mappages(@, loc[p].a)]
            /\ free' = free \ MapFrames(new[p], loc[p].a)
            /\ loc' = [loc EXCEPT ![p].a = @ + 1]
            /\ UNCHANGED <<pc, procvars, bootvars, panicked>>
       ELSE bad(p)

forkDone(p) ==
    LET q == loc[p].np
    IN /\ InCall(p, "copy")
       /\ loc[p].a * PGSIZE >= sz[p]
       /\ pgdir' = [pgdir EXCEPT ![q] = new[p]]
       /\ new' = [new EXCEPT ![p] = NoTable]
       /\ sz' = [sz EXCEPT ![q] = sz[p]]
       /\ parent' = [parent EXCEPT ![q] = p]
       /\ state' = [state EXCEPT ![q] = "LIVE"]
       /\ pc' = [pc EXCEPT ![p] = "user", ![q] = "user"]
       /\ loc' = [loc EXCEPT ![p] = Idle]
       /\ UNCHANGED <<free, bootvars, kstack, panicked>>
-----------------------------------------------------------------------------
(* exit and wait *)

\* exit, by the exit system call or by the trap a killed process takes.
exit(p) ==
    /\ InUser(p) /\ p # initproc
    /\ state' = [state EXCEPT ![p] = "ZOMBIE"]
    /\ parent' = [q \in Proc |-> IF parent[q] = p THEN initproc ELSE parent[q]]
    /\ UNCHANGED <<free, bootvars, sz, kstack, pgdir, pc, new, loc, panicked>>

wait(p, q) ==
    /\ Calls(p)
    /\ state[q] = "ZOMBIE" /\ parent[q] = p
    /\ free' = free \union {kstack[q]} \union FramesOf(pgdir[q])
    /\ kstack' = [kstack EXCEPT ![q] = 0]
    /\ pgdir' = [pgdir EXCEPT ![q] = NoTable]
    /\ parent' = [parent EXCEPT ![q] = initproc]
    /\ state' = [state EXCEPT ![q] = "UNUSED"]
    /\ UNCHANGED <<bootvars, sz, pc, new, loc, panicked>>
-----------------------------------------------------------------------------
(* exec *)

exec(p, image) ==
    /\ Calls(p)
    /\ loc' = [loc EXCEPT ![p].segs = image]
    /\ pc' = [pc EXCEPT ![p] = "kvmexec"]
    /\ UNCHANGED <<free, bootvars, procvars, new, panicked>>

\* allocuvm(pgdir, oldsz, newsz) up to its loop, at label where.
EnterAllocuvm(p, oldsz, newsz, where) ==
    LET result == IF newsz < oldsz THEN oldsz ELSE newsz
    IN IF newsz >= KERNBASE \/ result = 0 THEN bad(p)
       ELSE /\ pc' = [pc EXCEPT ![p] = where]
            /\ loc' = [loc EXCEPT ![p].a = PGROUNDUP(oldsz), ![p].lim = result]
            /\ UNCHANGED <<free, bootvars, procvars, new, panicked>>

\* The next program header: readi may come up short (full = FALSE); it is
\* skipped when it is not ELF_PROG_LOAD, refused when its sizes are
\* inconsistent or wrap.
loadHeader(p, full) ==
    /\ InCall(p, "load")
    /\ loc[p].segs # <<>>
    /\ LET ph == Head(loc[p].segs)
           end == (ph.vaddr + ph.memsz) % WORD
       IN IF ~full THEN bad(p)
          ELSE IF ~ph.load
          THEN /\ loc' = [loc EXCEPT ![p].segs = Tail(@)]
               /\ UNCHANGED <<free, bootvars, procvars, pc, new, panicked>>
          ELSE IF ph.memsz < ph.filesz \/ end < ph.vaddr THEN bad(p)
          ELSE EnterAllocuvm(p, loc[p].esz, end, "seg")

\* allocuvm's loop in exec; a failure frees the whole new table at bad.
execAlloc(p) ==
    /\ \/ InCall(p, "seg")
       \/ InCall(p, "stack")
    /\ loc[p].a * PGSIZE < loc[p].lim
    /\ IF CanMap(new[p], loc[p].a)
       THEN /\ panicked' = (new[p][Pte(loc[p].a)] # 0)               \* "remap"
            /\ new' = [new EXCEPT ![p] = mappages(@, loc[p].a)]
            /\ free' = free \ MapFrames(new[p], loc[p].a)
            /\ loc' = [loc EXCEPT ![p].a = @ + 1]
            /\ UNCHANGED <<pc, procvars, bootvars>>
       ELSE bad(p)

\* loaduvm, whose readi may come up short (full = FALSE).
loaduvm(p, full) ==
    /\ InCall(p, "seg")
    /\ loc[p].a * PGSIZE >= loc[p].lim
    /\ LET ph == Head(loc[p].segs)
           pages == {(ph.vaddr + i) \div PGSIZE : i \in 0..ph.filesz - 1}
       IN IF ph.vaddr % PGSIZE # 0 THEN bad(p)
          ELSE IF ~(pages \subseteq Mapped(new[p]))  \* "address should exist"
          THEN panic /\ UNCHANGED <<free, bootvars, procvars, pc, new, loc>>
          ELSE IF ~full /\ ph.filesz > 0 THEN bad(p)
          ELSE /\ loc' = [loc EXCEPT ![p].esz = loc[p].lim, ![p].segs = Tail(@)]
               /\ pc' = [pc EXCEPT ![p] = "load"]
               /\ UNCHANGED <<free, bootvars, procvars, new, panicked>>

\* Two more pages: the guard page and the stack.
allocStack(p) ==
    /\ InCall(p, "load")
    /\ loc[p].segs = <<>>
    /\ LET base == PGROUNDUP(loc[p].esz) * PGSIZE
       IN EnterAllocuvm(p, base, base + 2 * PGSIZE, "stack")

\* The arguments go onto the stack page; they do not fit (fits = FALSE) when
\* copyout runs into the guard page.  Then the new image replaces the old.
execCommit(p, fits) ==
    /\ InCall(p, "stack")
    /\ loc[p].a * PGSIZE >= loc[p].lim
    /\ IF ~fits THEN bad(p)
       ELSE /\ pgdir' = [pgdir EXCEPT ![p] = new[p]]
            /\ new' = [new EXCEPT ![p] = NoTable]
            /\ sz' = [sz EXCEPT ![p] = loc[p].lim]
            /\ free' = free \union FramesOf(pgdir[p])
            /\ pc' = [pc EXCEPT ![p] = "user"]
            /\ loc' = [loc EXCEPT ![p] = Idle]
            /\ UNCHANGED <<bootvars, state, parent, kstack, panicked>>
-----------------------------------------------------------------------------
(* The pointer checks of syscall.c, in a process whose size is s *)

\* fetchint(addr): the int at addr..addr+3 may be read.
fetchint(s, addr) == ~(addr >= s \/ (addr + WSZ) % WORD > s)
\* Mutant: only the end of the block is checked.
argptr_End(s, i, size) == ~(size < 0 \/ (i + size) % WORD > s)
\* argptr: a block of size bytes at i (a uint) may be used.
argptr(s, i, size) == ~(size < 0 \/ i >= s \/ (i + size) % WORD > s)
\* fetchstr(addr): the kernel scans from addr for a nul, up to s at most.
fetchstr(s, addr) == addr < s
-----------------------------------------------------------------------------
Deltas == -KERNBASE..KERNBASE - 1      \* the range of an int

Next ==
    \/ kinit1 \/ kvmalloc \/ startothersDone \/ kinit2 \/ kinit2Lock \/ userinit
    \/ \E c \in AP : startothers(c) \/ mpenter(c)
    \/ \E p \in Proc :
         \/ \E n \in Deltas : sbrkGrow(p, n) \/ sbrkShrink(p, n)
         \/ growStep(p) \/ growDone(p)
         \/ \E q \in Proc : fork(p, q) \/ wait(p, q)
         \/ setupkvm(p) \/ copyuvm(p) \/ forkDone(p)
         \/ exit(p)
         \/ \E im \in Image : exec(p, im)
         \/ execAlloc(p) \/ allocStack(p)
         \/ \E ok \in BOOLEAN : loadHeader(p, ok) \/ loaduvm(p, ok) \/ execCommit(p, ok)

Spec == Init /\ [][Next]_vars
-----------------------------------------------------------------------------
(* The places that hold a frame.  code-4 holds the stack of the CPU that is
   starting; once that CPU runs, its stack is in apstack. *)

Starting == \E c \in AP : ap[c] = "starting"

Place == ({"kstack"} \X Proc \X {Dir}) \union ({"pgdir", "new"} \X Proc \X Entry)
         \union ({"apstack"} \X AP \X {Dir}) \union ({"slot"} \X {0} \X {Dir})
         \union ({"kpgdir"} \X {0} \X Entry)

Held(x) == CASE x[1] = "kstack" -> kstack[x[2]]
             [] x[1] = "pgdir" -> pgdir[x[2]][x[3]]
             [] x[1] = "new" -> new[x[2]][x[3]]
             [] x[1] = "apstack" -> apstack[x[2]]
             [] x[1] = "slot" -> IF Starting THEN slot ELSE 0
             [] x[1] = "kpgdir" -> kpgdir[x[3]]

\* The frames that kinit1 and kinit2 have given to the allocator.
Managed == CASE boot = "kinit1" -> {}
             [] boot \in {"kvmalloc", "startothers", "kinit2"} -> Low
             [] OTHER -> Frame

\* Every frame handed to the allocator is on the free list or in exactly one
\* place: nothing is mapped or freed twice and nothing leaks, on no path of
\* fork, exec or sbrk that runs out of memory half-way included.
FramesAccounted ==
    \A f \in Frame :
        LET holders == {x \in Place : Held(x) = f}
        IN IF f \in free \/ f \notin Managed THEN holders = {} ELSE \E x \in holders : holders = {x}

\* In user mode exactly the pages below sz are mapped, so a pointer that
\* fetchint, argptr or fetchstr lets through, at any address and for any
\* size, touches mapped memory only.  The one exception is a process that
\* gave back its whole image with sbrk(-sz) and has yet to take its fault.
ArgumentsAreMapped ==
    \A p \in Proc : (InUser(p) /\ Mapped(pgdir[p]) # {}) =>
        LET Touches(i, n) == {x \div PGSIZE : x \in i..i + n - 1}
        IN /\ Mapped(pgdir[p]) = Covered(sz[p])
           /\ \A i \in 0..WORD - 1 :
                /\ fetchint(sz[p], i) => Touches(i, WSZ) \subseteq Mapped(pgdir[p])
                /\ fetchstr(sz[p], i) =>
                     Touches(i, sz[p] - i) \subseteq Mapped(pgdir[p])
                /\ \A size \in Deltas : argptr(sz[p], i, size) =>
                     Touches(i, size) \subseteq Mapped(pgdir[p])

\* While the free list is used without its lock only the boot CPU can reach
\* it, no two CPUs run on one stack, and a CPU that starts finds its stack
\* in the memory its first page table maps ("must come after startothers()").
BootOrder ==
    /\ ~use_lock => \A p \in Proc : state[p] # "LIVE"
    /\ Starting => slot \in Low
    /\ \A c, d \in AP : c # d /\ ap[c] = "up" /\ ap[d] = "up" =>
           apstack[c] # apstack[d]

\* No step of vm.c, fork or exec meets a panic: no page is mapped twice, a
\* forking process has every page below its size, and exec loads only into
\* pages it has allocated.
NoPanic == ~panicked
=============================================================================
