-------------------------------- MODULE Inode -------------------------------
(***************************************************************************)
(* Inodes, directories and path names: the inode layer of kernel/fs.c and  *)
(* the system calls of kernel/sysfile.c that create, find, link and remove *)
(* files, run by several processes at once.                                *)
(*                                                                         *)
(* A step is what a process does while it holds an inode's sleep lock, or  *)
(* one critical section of icache.lock.  The cache is write-through and    *)
(* has one entry per inode number, so an inode is one function value; of   *)
(* the entry there remain ref, valid and the lock.  begin_op and end_op    *)
(* (module Log), file contents and device files are left out.              *)
(***************************************************************************)
EXTENDS Integers, Sequences, FiniteSets, FiniteSetsExt

CONSTANTS Proc,
          NInode,      \* inodes on the disk; there is always one for create
          Name,        \* names of directory entries, without "." and ".."
          Path,        \* paths used in system calls, <<"/", ...>> from the root
          MaxCalls     \* bound on the number of system calls

Inum == 1 .. NInode
Root == 1
None == 0

ASSUME InodeAssumption ==
  /\ NInode \in Nat \ {0} /\ Path \subseteq Seq(STRING) /\ MaxCalls \in Nat
  /\ IsFiniteSet(Proc) /\ None \notin Proc
  /\ IsFiniteSet(Name) /\ {".", ".."} \cap Name = {}

VARIABLES
  type, nlink,         \* struct dinode
  dents, dotdot,       \* a directory's entries, and its ".."
  ref, valid, lock,    \* the cache entry; lock is the holder or None
  cwd, file,           \* of each process: current directory, open file or None
  th,                  \* what each process is doing
  missed,              \* history: unlinked inodes whose two last iputs overlapped
  panicked,
  calls                \* system calls so far

disk == <<type, nlink, dents, dotdot>>
vars == <<disk, ref, valid, lock, cwd, file, th, missed, panicked, calls>>

\* op: the system call; pc: where it is; ip, tgt: its inode pointers; path:
\* what is left to look up; put: the inode of a call of iput in progress and
\* st how far that is.
Idle == [op |-> "none", pc |-> "idle", ip |-> None, tgt |-> None, path |-> <<>>,
         put |-> None, st |-> "lock"]

NoEntries == [n \in Name |-> None]

Init ==
  /\ type = [i \in Inum |-> IF i = Root THEN "dir" ELSE "free"]
  /\ nlink = [i \in Inum |-> IF i = Root THEN 1 ELSE 0]
  /\ dents = [i \in Inum |-> NoEntries]
  /\ dotdot = [i \in Inum |-> IF i = Root THEN Root ELSE None]
  /\ ref = [i \in Inum |-> IF i = Root THEN Cardinality(Proc) ELSE 0]
  /\ valid = [i \in Inum |-> i = Root]
  /\ lock = [i \in Inum |-> None]
  /\ cwd = [p \in Proc |-> Root] /\ file = [p \in Proc |-> None]
  /\ th = [p \in Proc |-> Idle] /\ missed = {} /\ panicked = FALSE /\ calls = 0

-----------------------------------------------------------------------------
(* fs.c: the pieces.                                                       *)

\* dirlookup, without the iget of what it finds.
Lookup(d, n) == CASE n = "." -> d [] n = ".." -> dotdot[d] [] OTHER -> dents[d][n]

\* The process is at l, with no iput in progress.
At(p, l) == th[p].pc = l /\ th[p].put = None /\ ~panicked

\* p goes on as r, at once or after iput(i).
Go(p, r) == th' = [th EXCEPT ![p] = r]
Put(p, r, i) == th' = [th EXCEPT ![p] = [r EXCEPT !.put = i, !.st = "lock"]]

panic ==
  /\ panicked' = TRUE
  /\ UNCHANGED <<disk, ref, valid, lock, cwd, file, th, missed, calls>>

\* ilock(i) reads an inode that is not valid; it must have a type.
NoType(i) == ~valid[i] /\ type[i] = "free"
Valid(i) == valid' = [valid EXCEPT ![i] = TRUE]

\* iget and idup: an entry with no references left is recycled, and an entry
\* is not valid when it is.  (iput_deref resets valid; nobody looks before.)
iget(i) == ref' = [ref EXCEPT ![i] = @ + 1]

\* Mutant: ip->ref is not tested.
iput_NoRefTest(p) ==
  LET i == th[p].put IN
  /\ ~panicked /\ i # None /\ th[p].st = "lock" /\ lock[i] = None
  /\ IF valid[i] /\ nlink[i] = 0
     THEN /\ type' = [type EXCEPT ![i] = "free"]
          /\ dents' = [dents EXCEPT ![i] = NoEntries]
          /\ dotdot' = [dotdot EXCEPT ![i] = None]
          /\ valid' = [valid EXCEPT ![i] = FALSE]
     ELSE UNCHANGED <<type, dents, dotdot, valid>>
  /\ th' = [th EXCEPT ![p].st = "deref"]
  /\ UNCHANGED <<nlink, ref, lock, cwd, file, missed, panicked, calls>>

\* Nobody but p has yet to test whether its reference to i is the last.
LastTest(p, i) ==
  \A q \in Proc : /\ i \notin {cwd[q], file[q], th[q].ip, th[q].tgt}
                  /\ q # p /\ th[q].put = i => th[q].st = "deref"

\* iput, as far as it holds the inode's lock: the last reference to an inode
\* without links frees it and its contents.
iput(p) ==
  LET i == th[p].put IN
  /\ ~panicked /\ i # None /\ th[p].st = "lock" /\ lock[i] = None
  /\ IF valid[i] /\ nlink[i] = 0 /\ ref[i] = 1
     THEN /\ type' = [type EXCEPT ![i] = "free"]
          /\ dents' = [dents EXCEPT ![i] = NoEntries]
          /\ dotdot' = [dotdot EXCEPT ![i] = None]
          /\ valid' = [valid EXCEPT ![i] = FALSE]
     ELSE UNCHANGED <<type, dents, dotdot, valid>>
  /\ missed' = IF nlink[i] = 0 /\ ref[i] > 1 /\ LastTest(p, i) THEN missed \union {i} ELSE missed
  /\ th' = [th EXCEPT ![p].st = "deref"]
  /\ UNCHANGED <<nlink, ref, lock, cwd, file, panicked, calls>>

\* Its end: ip->ref--, under icache.lock.
iput_deref(p) ==
  LET i == th[p].put IN
  /\ ~panicked /\ i # None /\ th[p].st = "deref"
  /\ ref' = [ref EXCEPT ![i] = @ - 1]
  /\ valid' = [valid EXCEPT ![i] = @ /\ ref[i] > 1]
  /\ th' = [th EXCEPT ![p].put = None, ![p].st = "lock"]
  /\ UNCHANGED <<disk, lock, cwd, file, missed, panicked, calls>>

-----------------------------------------------------------------------------
(* namex.                                                                  *)

\* Calls that look up the parent of the last name.
Parent(op) == op \in {"creat", "mkdir", "unlink", "link2"}

\* Where namex starts, and the elements it looks up.
Start(p, pa) == IF pa # <<>> /\ Head(pa) = "/" THEN Root ELSE cwd[p]
Elems(pa) == IF pa # <<>> /\ Head(pa) = "/" THEN Tail(pa) ELSE pa

ASSUME PathAssumption == \A pa \in Path : Elems(pa) \in Seq(Name \cup {".", ".."})

Begin(p, op, pa, t) ==
  /\ iget(Start(p, pa))
  /\ Go(p, [Idle EXCEPT !.op = op, !.pc = IF Elems(pa) = <<>> THEN op ELSE "walk",
                        !.ip = Start(p, pa), !.path = Elems(pa), !.tgt = t])

syscall(p, op, pa) ==
  /\ At(p, "idle") /\ (Parent(op) => Elems(pa) # <<>>)
  /\ calls < MaxCalls /\ calls' = calls + 1
  /\ Begin(p, op, pa, None)
  /\ UNCHANGED <<disk, valid, lock, cwd, file, missed, panicked>>

\* Mutant: no iput when an element is not a directory.
walk_Leak(p) ==
  LET t == th[p]
      i == t.ip
      next == Lookup(i, Head(t.path))
      failed == IF t.op = "link2" THEN [t EXCEPT !.pc = "linkbad", !.ip = None] ELSE Idle
      rest == Tail(t.path)
  IN
  /\ At(p, "walk") /\ lock[i] = None
  /\ IF NoType(i) THEN panic
     ELSE /\ Valid(i)
          /\ CASE type[i] # "dir" -> Go(p, failed) /\ UNCHANGED ref
               [] type[i] = "dir" /\ Parent(t.op) /\ rest = <<>> ->
                    Go(p, [t EXCEPT !.pc = t.op]) /\ UNCHANGED ref
               [] type[i] = "dir" /\ ~(Parent(t.op) /\ rest = <<>>) /\ next = None ->
                    Put(p, failed, i) /\ UNCHANGED ref
               [] OTHER ->
                    /\ iget(next)
                    /\ Put(p, [t EXCEPT !.ip = next, !.path = rest,
                                        !.pc = IF rest = <<>> THEN t.op ELSE "walk"], i)
          /\ UNCHANGED <<disk, lock, cwd, file, missed, panicked, calls>>

\* One round of namex: lock, look, unlock, iput.
walk(p) ==
  LET t == th[p]
      i == t.ip
      next == Lookup(i, Head(t.path))
      failed == IF t.op = "link2" THEN [t EXCEPT !.pc = "linkbad", !.ip = None] ELSE Idle
      rest == Tail(t.path)
  IN
  /\ At(p, "walk") /\ lock[i] = None
  /\ IF NoType(i) THEN panic
     ELSE /\ Valid(i)
          /\ CASE type[i] # "dir" -> Put(p, failed, i) /\ UNCHANGED ref
               [] type[i] = "dir" /\ Parent(t.op) /\ rest = <<>> ->
                    Go(p, [t EXCEPT !.pc = t.op]) /\ UNCHANGED ref
               [] type[i] = "dir" /\ ~(Parent(t.op) /\ rest = <<>>) /\ next = None ->
                    Put(p, failed, i) /\ UNCHANGED ref
               [] OTHER ->
                    /\ iget(next)
                    /\ Put(p, [t EXCEPT !.ip = next, !.path = rest,
                                        !.pc = IF rest = <<>> THEN t.op ELSE "walk"], i)
          /\ UNCHANGED <<disk, lock, cwd, file, missed, panicked, calls>>

-----------------------------------------------------------------------------
(* sysfile.c.                                                              *)

\* Give inode i, which the caller holds locked or has just used, to a new
\* descriptor of p, or iput it if there is none or the open is refused.
Install(p, i, ok) ==
  IF ok /\ file[p] = None
  THEN file' = [file EXCEPT ![p] = i] /\ Go(p, Idle)
  ELSE Put(p, Idle, i) /\ UNCHANGED file

\* open() without O_CREATE; a directory must be opened read-only.
open(p, rdonly) ==
  LET i == th[p].ip IN
  /\ At(p, "open") /\ lock[i] = None
  /\ IF NoType(i) THEN panic
     ELSE /\ Valid(i) /\ Install(p, i, type[i] = "dir" => rdonly)
          /\ UNCHANGED <<disk, ref, lock, cwd, missed, panicked, calls>>

\* close(), the last reference to the open file: iput.
close(p) ==
  /\ At(p, "idle") /\ file[p] # None
  /\ file' = [file EXCEPT ![p] = None] /\ Put(p, Idle, file[p])
  /\ UNCHANGED <<disk, ref, valid, lock, cwd, missed, panicked, calls>>

\* create(), with dp locked.  The name exists:
create_found(p) ==
  LET t == th[p]
      dp == t.ip
      ip == Lookup(dp, Head(t.path))
  IN
  /\ At(p, t.op) /\ t.op \in {"creat", "mkdir"} /\ lock[dp] = None /\ ip # None
  /\ Valid(dp) /\ iget(ip)
  /\ Put(p, [t EXCEPT !.ip = ip, !.pc = "found"], dp)
  /\ UNCHANGED <<disk, lock, cwd, file, missed, panicked, calls>>

\* or ialloc gives an inode, which is filled in and linked; it stays locked
\* during iunlockput(dp).
create(p) ==
  LET t == th[p]
      dp == t.ip
      n == Head(t.path)
      free == {i \in Inum : type[i] = "free"}
      ip == Min(free)
      dir == t.op = "mkdir"
  IN
  /\ At(p, t.op) /\ t.op \in {"creat", "mkdir"} /\ lock[dp] = None
  /\ Lookup(dp, n) = None /\ free # {} /\ lock[ip] = None
  /\ type' = [type EXCEPT ![ip] = IF dir THEN "dir" ELSE "file"]
  /\ nlink' = [nlink EXCEPT ![ip] = 1, ![dp] = IF dir THEN @ + 1 ELSE @]
  /\ dents' = [dents EXCEPT ![dp][n] = ip]
  /\ dotdot' = [dotdot EXCEPT ![ip] = IF dir THEN dp ELSE None]
  /\ iget(ip) /\ valid' = [valid EXCEPT ![ip] = TRUE, ![dp] = TRUE]
  /\ lock' = [lock EXCEPT ![ip] = p]
  /\ Put(p, [t EXCEPT !.ip = ip, !.pc = "made"], dp)
  /\ UNCHANGED <<cwd, file, missed, panicked, calls>>

\* The rest of sys_open or sys_mkdir after create, with ip locked.
created(p) ==
  LET i == th[p].ip IN
  /\ At(p, "made")
  /\ lock' = [lock EXCEPT ![i] = None]
  /\ Install(p, i, th[p].op = "creat")
  /\ UNCHANGED <<disk, ref, valid, cwd, missed, panicked, calls>>

found(p) ==
  LET i == th[p].ip IN
  /\ At(p, "found") /\ lock[i] = None
  /\ IF NoType(i) THEN panic
     ELSE /\ Valid(i) /\ Install(p, i, th[p].op = "creat" /\ type[i] = "file")
          /\ UNCHANGED <<disk, ref, lock, cwd, missed, panicked, calls>>

\* unlink(), with dp locked: no such name, or "." or "..".
unlink_none(p) ==
  LET dp == th[p].ip
      n == Head(th[p].path)
  IN
  /\ At(p, "unlink") /\ lock[dp] = None
  /\ n \in {".", ".."} \/ Lookup(dp, n) = None
  /\ Valid(dp) /\ Put(p, Idle, dp)
  /\ UNCHANGED <<disk, ref, lock, cwd, file, missed, panicked, calls>>

\* Otherwise it goes on with dp still locked.
unlink(p) ==
  LET t == th[p]
      dp == t.ip
      n == Head(t.path)
  IN
  /\ At(p, "unlink") /\ lock[dp] = None
  /\ n \notin {".", ".."} /\ Lookup(dp, n) # None
  /\ Valid(dp) /\ iget(Lookup(dp, n)) /\ lock' = [lock EXCEPT ![dp] = p]
  /\ Go(p, [t EXCEPT !.tgt = dp, !.ip = Lookup(dp, n), !.pc = "unlink2"])
  /\ UNCHANGED <<disk, cwd, file, missed, panicked, calls>>

\* ip locked too: erase the entry, unless it is a directory that is not
\* empty; ip stays locked during iunlockput(dp).
unlink_entry(p) ==
  LET t == th[p]
      ip == t.ip
      dp == t.tgt
      dir == type[ip] = "dir"
  IN
  /\ At(p, "unlink2") /\ lock[ip] = None
  /\ IF NoType(ip) \/ nlink[ip] < 1 THEN panic
     ELSE /\ Valid(ip)
          /\ IF dir /\ dents[ip] # NoEntries
             THEN /\ Put(p, [t EXCEPT !.pc = "unlockdp", !.ip = None], ip)
                  /\ UNCHANGED <<dents, nlink, lock>>
             ELSE /\ dents' = [dents EXCEPT ![dp][Head(t.path)] = None]
                  /\ nlink' = [nlink EXCEPT ![dp] = IF dir THEN @ - 1 ELSE @]
                  /\ lock' = [lock EXCEPT ![dp] = None, ![ip] = p]
                  /\ Put(p, [t EXCEPT !.pc = "unlink3", !.tgt = None], dp)
          /\ UNCHANGED <<type, dotdot, ref, cwd, file, missed, panicked, calls>>

unlink_link(p) ==
  LET ip == th[p].ip IN
  /\ At(p, "unlink3")
  /\ nlink' = [nlink EXCEPT ![ip] = @ - 1] /\ lock' = [lock EXCEPT ![ip] = None]
  /\ Put(p, Idle, ip)
  /\ UNCHANGED <<type, dents, dotdot, ref, valid, cwd, file, missed, panicked, calls>>

\* unlink's bad: and dirlink's failure in link: iunlockput(dp).
unlockdp(p) ==
  LET t == th[p]
      dp == IF t.op = "link2" THEN t.ip ELSE t.tgt
  IN
  /\ At(p, "unlockdp")
  /\ lock' = [lock EXCEPT ![dp] = None]
  /\ Put(p, IF t.op = "link2" THEN [t EXCEPT !.pc = "linkbad", !.ip = None] ELSE Idle, dp)
  /\ UNCHANGED <<disk, ref, valid, cwd, file, missed, panicked, calls>>

\* Mutant: the new link is not counted.
link_NoCount(p, new) ==
  LET i == th[p].ip IN
  /\ At(p, "link") /\ lock[i] = None /\ Elems(new) # <<>>
  /\ IF NoType(i) THEN panic
     ELSE /\ Valid(i)
          /\ IF type[i] = "dir"
             THEN Put(p, Idle, i) /\ UNCHANGED <<nlink, ref>>
             ELSE UNCHANGED nlink /\ Begin(p, "link2", new, i)
          /\ UNCHANGED <<type, dents, dotdot, lock, cwd, file, missed, panicked, calls>>

\* link(), the old name found: count the new link, then look up its parent.
link(p, new) ==
  LET i == th[p].ip IN
  /\ At(p, "link") /\ lock[i] = None /\ Elems(new) # <<>>
  /\ IF NoType(i) THEN panic
     ELSE /\ Valid(i)
          /\ IF type[i] = "dir"
             THEN Put(p, Idle, i) /\ UNCHANGED <<nlink, ref>>
             ELSE nlink' = [nlink EXCEPT ![i] = @ + 1] /\ Begin(p, "link2", new, i)
          /\ UNCHANGED <<type, dents, dotdot, lock, cwd, file, missed, panicked, calls>>

\* dirlink: iput of an entry that exists, with dp locked.
link_entry(p) ==
  LET t == th[p]
      dp == t.ip
      n == Head(t.path)
      e == Lookup(dp, n)
  IN
  /\ At(p, "link2") /\ lock[dp] = None /\ Valid(dp)
  /\ IF e # None
     THEN /\ iget(e) /\ lock' = [lock EXCEPT ![dp] = p]
          /\ Put(p, [t EXCEPT !.pc = "unlockdp"], e) /\ UNCHANGED dents
     ELSE /\ dents' = [dents EXCEPT ![dp][n] = t.tgt]
          /\ Put(p, [t EXCEPT !.pc = "linked", !.ip = None], dp) /\ UNCHANGED <<ref, lock>>
  /\ UNCHANGED <<type, nlink, dotdot, cwd, file, missed, panicked, calls>>

linked(p) ==
  /\ At(p, "linked") /\ Put(p, Idle, th[p].tgt)
  /\ UNCHANGED <<disk, ref, valid, lock, cwd, file, missed, panicked, calls>>

\* bad: take the link back.
link_bad(p) ==
  LET i == th[p].tgt IN
  /\ At(p, "linkbad") /\ lock[i] = None
  /\ nlink' = [nlink EXCEPT ![i] = @ - 1] /\ Valid(i)
  /\ Put(p, Idle, i)
  /\ UNCHANGED <<type, dents, dotdot, ref, lock, cwd, file, missed, panicked, calls>>

chdir(p) ==
  LET i == th[p].ip IN
  /\ At(p, "chdir") /\ lock[i] = None
  /\ IF NoType(i) THEN panic
     ELSE /\ Valid(i)
          /\ IF type[i] = "dir"
             THEN cwd' = [cwd EXCEPT ![p] = i] /\ Put(p, Idle, cwd[p])
             ELSE Put(p, Idle, i) /\ UNCHANGED cwd
          /\ UNCHANGED <<disk, ref, lock, file, missed, panicked, calls>>

-----------------------------------------------------------------------------

Step(p) ==
  \/ iput(p) \/ iput_deref(p) \/ walk(p)
  \/ \E rdonly \in BOOLEAN : open(p, rdonly)
  \/ create_found(p) \/ create(p) \/ created(p) \/ found(p)
  \/ unlink_none(p) \/ unlink(p) \/ unlink_entry(p) \/ unlink_link(p) \/ unlockdp(p)
  \/ \E new \in Path : link(p, new)
  \/ link_entry(p) \/ linked(p) \/ link_bad(p) \/ chdir(p)

Call(p) ==
  \/ \E op \in {"open", "creat", "mkdir", "unlink", "link", "chdir"}, pa \in Path :
       syscall(p, op, pa)
  \/ close(p)

Next == \E p \in Proc : Step(p) \/ Call(p)

Spec == Init /\ [][Next]_vars

-----------------------------------------------------------------------------
(* Properties.                                                             *)

\* Pointers to inode i: current directories, open files, pointers of system
\* calls and of iput calls in progress.
Pointers(i) ==
  Cardinality({p \in Proc : cwd[p] = i}) + Cardinality({p \in Proc : file[p] = i})
  + Cardinality({p \in Proc : th[p].ip = i}) + Cardinality({p \in Proc : th[p].tgt = i})
  + Cardinality({p \in Proc : th[p].put = i})

Entries(i) == Cardinality({x \in Inum \X Name : type[x[1]] = "dir" /\ dents[x[1]][x[2]] = i})

\* ip->ref counts the pointers to the inode ("tracks the number of in-memory
\* pointers to the entry", fs.c:123), in every state of every system call.
RefsArePointers == \A i \in Inum : ref[i] = Pointers(i)

\* No entry of a directory leads to a freed inode, or to one that its link
\* count does not protect.
EntriesAreLinks == \A i \in Inum : Entries(i) > 0 => type[i] # "free" /\ nlink[i] >= Entries(i)

\* An inode is freed exactly when it is unused.  An open file, a current
\* directory or an inode that a call is about to lock is not freed, whatever
\* is unlinked meanwhile (ilock would panic); and an inode without links that
\* is not freed has somebody left to do it, unless the tests of its last two
\* iputs overlapped, when each saw the other's reference (fs.c:336).
FreedWhenUnused ==
  /\ ~panicked
  /\ \A p \in Proc : type[cwd[p]] = "dir" /\ (file[p] # None => type[file[p]] # "free")
  /\ \A i \in Inum \ missed :
       type[i] # "free" /\ nlink[i] = 0 =>
         \E p \in Proc : \/ i \in {cwd[p], file[p], th[p].ip, th[p].tgt}
                         \/ th[p].put = i /\ th[p].st = "lock"

\* The lock that p's next step takes.
Wants(p) ==
  LET t == th[p] IN
  CASE t.put # None -> IF t.st = "lock" THEN t.put ELSE None
    [] t.put = None /\ t.pc \in {"idle", "made", "unlink3", "unlockdp", "linked"} -> None
    [] t.put = None /\ t.pc = "linkbad" -> t.tgt
    [] OTHER -> t.ip

\* Processes do not wait for each other's inode locks in a circle (usertests
\* runs concurrent calls "to look for deadlocks"; the locking discipline
\* "helps avoid deadlock", fs.c:149).
NoDeadlock ==
  ~ \E S \in SUBSET Proc \ {{}} :
      \A p \in S : Wants(p) # None /\ lock[Wants(p)] \in S
=============================================================================
