------------------------------- MODULE Files --------------------------------
(***************************************************************************)
(* What is on the disk and what files hold: the block bitmap, inodes with  *)
(* direct and indirect blocks, readi, writei and itrunc (kernel/fs.c), and *)
(* fileread, filewrite and fileclose (kernel/file.c) under them, by        *)
(* several processes with shared or separate open files, with crashes.     *)
(*                                                                         *)
(* The log is taken at its word (module Log): what the operations between  *)
(* two moments with none outstanding write reaches the disk at once or not *)
(* at all.  A byte of a directory stands for one struct dirent, whose      *)
(* value is the inode number; names are module Inode's business.           *)
(***************************************************************************)
EXTENDS Integers, FiniteSets, FiniteSetsExt, Sequences

CONSTANTS Proc, File, NINODES, IPB, FSSIZE, Meta, BSIZE, NDIRECT, NINDIRECT,
          MAXOPBLOCKS, Dirino,
          Disks,       \* disk images the system may boot from
          Sizes, MaxCalls, MaxCrashes

Inum == 1..NINODES - 1
Block == 0..FSSIZE - 1
MAXFILE == NDIRECT + NINDIRECT
ROOTINO == 1
None == 0

\* A disk: the used bits of the bitmap, the inodes, and the blocks, read as
\* bytes (data) or as block numbers (ind).
VARIABLES
  d,          \* the disk as the running system sees it, through the cache
  durable,    \* the disk after a crash now and recovery from the log
  ip,         \* in-memory inodes: size and addrs, of inodes in use
  file,       \* struct file: inode and offset, inode None when unused
  ofile,      \* per process, its open file
  lock,       \* ip->lock
  th,         \* per process: where its system call is
  ops,        \* processes between begin_op and end_op
  logged,     \* per process: blocks given to log_write in this operation
  hist, savedhist,   \* what was written to each inode, and is durable of it
  panicked, calls, crashes

memory == <<ip, file, ofile, lock, th, ops, logged>>
ghosts == <<hist, savedhist, calls, crashes>>
vars == <<d, durable, memory, ghosts, panicked>>

\* i, off, n: writei's inode, offset and bytes still to write; val: the byte;
\* left: bytes of filewrite's next chunks; slot: an inode to free or unlink.
Idle == [pc |-> "idle", op |-> "none", i |-> None, off |-> 0, n |-> 0,
         n1 |-> 0, val |-> 0, left |-> 0, slot |-> None]

NoAddrs == [k \in 0..NDIRECT |-> 0]
Zero == [k \in 0..BSIZE - 1 |-> 0]
NoBlocks == [k \in 0..NINDIRECT - 1 |-> 0]
FreeInode == [type |-> "free", nlink |-> 0, size |-> 0, addrs |-> NoAddrs]

\* The address of block bn of an inode with these addrs, 0 if none.
Addr(disk, addrs, bn) ==
    IF bn < NDIRECT THEN addrs[bn]
    ELSE IF addrs[NDIRECT] = 0 THEN 0
    ELSE disk.ind[addrs[NDIRECT]][bn - NDIRECT]

\* The bytes of a file.
Contents(disk, node) ==
    [k \in 1..node.size |->
        disk.data[Addr(disk, node.addrs, (k - 1) \div BSIZE)][(k - 1) % BSIZE]]

HistOf(disk) == [i \in Inum |-> Contents(disk, disk.inode[i])]

Boot(disk) ==
    /\ d = disk /\ durable = disk
    /\ ip = disk.inode
    /\ file = [f \in File |-> [ip |-> None, off |-> 0]]
    /\ ofile = [p \in Proc |-> None]
    /\ lock = [i \in Inum |-> None]
    /\ th = [p \in Proc |-> Idle]
    /\ ops = {} /\ logged = [p \in Proc |-> {}]

Init ==
    /\ \E disk \in Disks : Boot(disk) /\ hist = HistOf(disk)
    /\ savedhist = hist
    /\ panicked = "no" /\ calls = 0 /\ crashes = 0
-----------------------------------------------------------------------------
(* fs.c: blocks *)

\* Blocks that log_write may be given: data and indirect blocks by number,
\* the bitmap block, and the block that holds inode i.
BBLOCK == <<"bitmap", 0>>
IBLOCK(i) == <<"inode", i \div IPB>>
Data(b) == <<"block", b>>

\* balloc: the first free block, marked and zeroed.
Full(disk) == Block \subseteq disk.bitmap
FirstFree(disk) == Min(Block \ disk.bitmap)
balloc(disk) ==
    LET b == FirstFree(disk)
    IN [disk EXCEPT !.bitmap = @ \union {b}, !.data[b] = Zero, !.ind[b] = NoBlocks]

\* bmap(ip, bn): disk and addrs after it, and the blocks it logs.
bmap(disk, addrs, bn) ==
    IF Addr(disk, addrs, bn) # 0 THEN [disk |-> disk, addrs |-> addrs, log |-> {}]
    ELSE IF bn < NDIRECT
    THEN [disk |-> balloc(disk),
          addrs |-> [addrs EXCEPT ![bn] = FirstFree(disk)],
          log |-> {BBLOCK, Data(FirstFree(disk))}]
    ELSE LET needs == addrs[NDIRECT] = 0
             d1 == IF needs THEN balloc(disk) ELSE disk
             at == IF needs THEN FirstFree(disk) ELSE addrs[NDIRECT]
             b == FirstFree(d1)
         IN [disk |-> [balloc(d1) EXCEPT !.ind[at][bn - NDIRECT] = b],
             addrs |-> [addrs EXCEPT ![NDIRECT] = at],
             log |-> {BBLOCK, Data(at), Data(b)}]

\* Would bmap meet "balloc: out of blocks"?
bmapPanics(disk, addrs, bn) ==
    /\ Addr(disk, addrs, bn) = 0
    /\ Cardinality(Block \ disk.bitmap) <
         (IF bn >= NDIRECT /\ addrs[NDIRECT] = 0 THEN 2 ELSE 1)

\* iupdate(ip): size and addrs, with type and nlink, to the inode block.
iupdate(disk, i, node) == [disk EXCEPT !.inode[i] = node]
-----------------------------------------------------------------------------
(* Operations: begin_op, ilock, end_op *)

Goto(p, l) == th' = [th EXCEPT ![p].pc = l]
At(p, l) == th[p].pc = l /\ panicked = "no"
\* "balloc: out of blocks" and "ialloc: no inodes".
full == panicked' = "full" /\ UNCHANGED <<d, durable, memory, ghosts>>
NewCall(p) == At(p, "idle") /\ calls < MaxCalls /\ calls' = calls + 1

begin_op(p) ==
    /\ At(p, "begin")
    /\ ops' = ops \union {p}
    /\ logged' = [logged EXCEPT ![p] = {}]
    /\ Goto(p, "ilock")
    /\ UNCHANGED <<d, durable, ip, file, ofile, lock, ghosts, panicked>>

\* end_op: the last one out commits what all of them wrote.
end_op(p) ==
    /\ At(p, "end")
    /\ ops' = ops \ {p}
    /\ logged' = [logged EXCEPT ![p] = {}]
    /\ IF ops' = {} THEN durable' = d /\ savedhist' = hist
                    ELSE UNCHANGED <<durable, savedhist>>
    /\ th' = [th EXCEPT ![p] = IF @.left > 0 THEN [@ EXCEPT !.pc = "begin"] ELSE Idle]
    /\ UNCHANGED <<d, ip, file, ofile, lock, hist, calls, crashes, panicked>>
-----------------------------------------------------------------------------
(* writei, for filewrite and for directory entries *)

\* Mutant: no room for the blocks that describe the data.
max_Half == ((MAXOPBLOCKS - 1) \div 2) * BSIZE

\* filewrite(f, n): the call, then one operation per chunk of at most max.
max == ((MAXOPBLOCKS - 1 - 1 - 2) \div 2) * BSIZE

filewrite(p, n) ==
    /\ NewCall(p)
    /\ ofile[p] # None
    /\ th' = [th EXCEPT ![p] = [Idle EXCEPT !.pc = "begin", !.op = "write", !.val = p,
                                            !.i = file[ofile[p]].ip, !.left = n]]
    /\ UNCHANGED <<d, durable, ip, file, ofile, lock, ops, logged, hist, savedhist,
                   crashes, panicked>>

\* ilock, and writei's checks; the offset is read under the lock.
writeStart(p) ==
    LET t == th[p]
        off == file[ofile[p]].off
        n1 == IF t.left > max THEN max ELSE t.left
    IN /\ At(p, "ilock") /\ t.op = "write"
       /\ lock[t.i] = None
       /\ IF off > ip[t.i].size \/ off + n1 > MAXFILE * BSIZE
          THEN /\ th' = [th EXCEPT ![p].pc = "end", ![p].left = 0]
               /\ UNCHANGED lock
          ELSE /\ th' = [th EXCEPT ![p].pc = "writei", ![p].off = off,
                                   ![p].n = n1, ![p].n1 = n1, ![p].left = @ - n1]
               /\ lock' = [lock EXCEPT ![t.i] = p]
       /\ UNCHANGED <<d, durable, ip, file, ofile, ops, logged, ghosts, panicked>>

\* One iteration of writei's loop: bmap, copy, log_write.
writei(p) ==
    LET t == th[p]
        r == bmap(d, ip[t.i].addrs, t.off \div BSIZE)
        b == Addr(r.disk, r.addrs, t.off \div BSIZE)
        m == Min({t.n, BSIZE - (t.off % BSIZE)})
    IN /\ At(p, "writei") /\ t.n > 0
       /\ IF bmapPanics(d, ip[t.i].addrs, t.off \div BSIZE) THEN full
          ELSE /\ d' = [r.disk EXCEPT !.data[b] =
                         [k \in 0..BSIZE - 1 |->
                            IF k >= t.off % BSIZE /\ k < (t.off % BSIZE) + m
                            THEN t.val ELSE @[k]]]
               /\ ip' = [ip EXCEPT ![t.i].addrs = r.addrs]
               /\ logged' = [logged EXCEPT ![p] = @ \union r.log \union {Data(b)}]
               /\ th' = [th EXCEPT ![p].off = @ + m, ![p].n = @ - m]
               /\ UNCHANGED <<durable, file, ofile, lock, ops, ghosts, panicked>>

\* The file holds what a write of n bytes val at off makes of it.
Overwrite(s, off, n, val) ==
    [k \in 1..Max({Len(s), off + n}) |-> IF k > off /\ k <= off + n THEN val ELSE s[k]]

\* Mutant: the new size stays in memory.
writeDone_NoUpdate(p) ==
    LET t == th[p]
        grown == [ip[t.i] EXCEPT !.size = t.off]
    IN /\ At(p, "writei") /\ t.n = 0
       /\ IF t.off > ip[t.i].size
          THEN /\ ip' = [ip EXCEPT ![t.i] = grown]
               /\ UNCHANGED d
               /\ logged' = [logged EXCEPT ![p] = @ \union {IBLOCK(t.i)}]
          ELSE UNCHANGED <<ip, d, logged>>
       /\ hist' = [hist EXCEPT ![t.i] = Overwrite(@, t.off - t.n1, t.n1, t.val)]
       /\ file' = IF t.op = "write" THEN [file EXCEPT ![ofile[p]].off = @ + t.n1]
                                    ELSE file
       /\ lock' = [lock EXCEPT ![t.i] = None]
       /\ Goto(p, IF t.op = "unlink" THEN "unlinked" ELSE "end")
       /\ UNCHANGED <<durable, ofile, ops, savedhist, calls, crashes, panicked>>

\* After the loop: a write past the end sets the size and updates the inode.
writeDone(p) ==
    LET t == th[p]
        grown == [ip[t.i] EXCEPT !.size = t.off]
    IN /\ At(p, "writei") /\ t.n = 0
       /\ IF t.off > ip[t.i].size
          THEN /\ ip' = [ip EXCEPT ![t.i] = grown]
               /\ d' = iupdate(d, t.i, grown)
               /\ logged' = [logged EXCEPT ![p] = @ \union {IBLOCK(t.i)}]
          ELSE UNCHANGED <<ip, d, logged>>
       /\ hist' = [hist EXCEPT ![t.i] = Overwrite(@, t.off - t.n1, t.n1, t.val)]
       /\ file' = IF t.op = "write" THEN [file EXCEPT ![ofile[p]].off = @ + t.n1]
                                    ELSE file
       /\ lock' = [lock EXCEPT ![t.i] = None]
       /\ Goto(p, IF t.op = "unlink" THEN "unlinked" ELSE "end")
       /\ UNCHANGED <<durable, ofile, ops, savedhist, calls, crashes, panicked>>
-----------------------------------------------------------------------------
(* Reading; opening, sharing and closing files *)

\* fileread(f, n): readi under the inode's lock, with no operation begun, so
\* a block that bmap had to allocate would be logged "outside of trans".
\* At the end of the file it changes nothing.
fileread(p, n) ==
    LET f == ofile[p]
        i == file[f].ip
        off == file[f].off
        r == Min({n, ip[i].size - off})
    IN /\ NewCall(p)
       /\ f # None
       /\ lock[i] = None
       /\ off < ip[i].size
       /\ IF \E k \in off..off + r - 1 : Addr(d, ip[i].addrs, k \div BSIZE) = 0
          THEN panicked' = "bad" /\ UNCHANGED file
          ELSE file' = [file EXCEPT ![f].off = @ + r] /\ UNCHANGED panicked
       /\ UNCHANGED <<d, durable, ip, ofile, lock, th, ops, logged, hist, savedhist,
                      crashes>>

\* The entries of the directory, "." and ".." first.
Entries == Contents(d, ip[Dirino])

InUse(i) == \E f \in File : file[f].ip = i

\* sys_open of an existing file; the first reference reads the inode.
open(p, f, i) ==
    /\ NewCall(p)
    /\ ofile[p] = None /\ file[f].ip = None
    /\ \E k \in DOMAIN Entries : Entries[k] = i
    /\ d.inode[i].type = "file"
    /\ lock[i] = None /\ lock[Dirino] = None
    /\ file' = [file EXCEPT ![f] = [ip |-> i, off |-> 0]]
    /\ ofile' = [ofile EXCEPT ![p] = f]
    /\ ip' = IF InUse(i) THEN ip ELSE [ip EXCEPT ![i] = d.inode[i]]
    /\ UNCHANGED <<d, durable, lock, th, ops, logged, hist, savedhist, crashes,
                   panicked>>

\* fork: the child q shares the open file of p, with its offset.
inherit(p, q) ==
    /\ NewCall(p) /\ At(q, "idle")
    /\ ofile[p] # None /\ ofile[q] = None
    /\ ofile' = [ofile EXCEPT ![q] = ofile[p]]
    /\ UNCHANGED <<d, durable, ip, file, lock, th, ops, logged, hist, savedhist,
                   crashes, panicked>>

\* fileclose: the last close of an open file puts its inode, in an operation.
fileclose(p) ==
    LET f == ofile[p]
        last == \A q \in Proc \ {p} : ofile[q] # f
    IN /\ NewCall(p)
       /\ f # None
       /\ ofile' = [ofile EXCEPT ![p] = None]
       /\ IF last
          THEN /\ th' = [th EXCEPT ![p] = [Idle EXCEPT !.pc = "begin", !.op = "close",
                                                       !.slot = file[f].ip]]
               /\ file' = [file EXCEPT ![f] = [ip |-> None, off |-> 0]]
          ELSE UNCHANGED <<th, file>>
       /\ UNCHANGED <<d, durable, ip, lock, ops, logged, hist, savedhist, crashes,
                      panicked>>

\* iput: the last reference to an inode without links truncates and frees it.
Others(p, i) == InUse(i) \/ \E q \in Proc \ {p} : th[q].slot = i
iput(p, l) ==
    LET i == th[p].slot
    IN /\ At(p, l)
       /\ lock[i] = None
       /\ IF ip[i].nlink > 0 \/ Others(p, i)
          THEN /\ th' = [th EXCEPT ![p].pc = "end", ![p].slot = None]
               /\ UNCHANGED lock
          ELSE /\ th' = [th EXCEPT ![p].pc = "itrunc", ![p].n = 0]
               /\ lock' = [lock EXCEPT ![i] = p]
       /\ UNCHANGED <<d, durable, ip, file, ofile, ops, logged, ghosts, panicked>>

\* bfree, which panics with "freeing free block".
bfree(b) == panicked' = IF b \in d.bitmap THEN "no" ELSE "bad"

\* One bfree of itrunc, of file block number n or after; other processes may
\* use the block before the inode is updated.
ToFree(p) ==
    {k \in th[p].n..MAXFILE - 1 : Addr(d, ip[th[p].slot].addrs, k) # 0}
itrunc(p) ==
    LET i == th[p].slot
        k == Min(ToFree(p))
        b == Addr(d, ip[i].addrs, k)
    IN /\ At(p, "itrunc") /\ ToFree(p) # {}
       /\ bfree(b)
       /\ logged' = [logged EXCEPT ![p] = @ \union {BBLOCK}]
       /\ d' = [d EXCEPT !.bitmap = @ \ {b}]
       /\ ip' = IF k < NDIRECT THEN [ip EXCEPT ![i].addrs[k] = 0] ELSE ip
       /\ th' = [th EXCEPT ![p].n = k + 1]
       /\ UNCHANGED <<durable, file, ofile, lock, ops, ghosts>>

\* Mutant: the indirect block is forgotten.
itruncDone_Leak(p) ==
    LET i == th[p].slot
        b == ip[i].addrs[NDIRECT]
    IN /\ At(p, "itrunc") /\ ToFree(p) = {}
       /\ IF b # 0 THEN bfree(b) ELSE UNCHANGED panicked
       /\ logged' = [logged EXCEPT ![p] =
                        @ \union {IBLOCK(i)} \union IF b # 0 THEN {BBLOCK} ELSE {}]
       /\ d' = [d EXCEPT !.inode[i] = FreeInode]
       /\ ip' = [ip EXCEPT ![i] = FreeInode]
       /\ hist' = [hist EXCEPT ![i] = <<>>]
       /\ lock' = [lock EXCEPT ![i] = None]
       /\ th' = [th EXCEPT ![p].pc = "end", ![p].n = 0, ![p].slot = None]
       /\ UNCHANGED <<durable, file, ofile, ops, savedhist, calls, crashes>>

\* The end of itrunc, which frees the indirect block and updates the inode,
\* and of iput, which frees the inode itself.
itruncDone(p) ==
    LET i == th[p].slot
        b == ip[i].addrs[NDIRECT]
    IN /\ At(p, "itrunc") /\ ToFree(p) = {}
       /\ IF b # 0 THEN bfree(b) ELSE UNCHANGED panicked
       /\ logged' = [logged EXCEPT ![p] =
                        @ \union {IBLOCK(i)} \union IF b # 0 THEN {BBLOCK} ELSE {}]
       /\ d' = [d EXCEPT !.bitmap = @ \ ({b} \ {0}), !.inode[i] = FreeInode]
       /\ ip' = [ip EXCEPT ![i] = FreeInode]
       /\ hist' = [hist EXCEPT ![i] = <<>>]
       /\ lock' = [lock EXCEPT ![i] = None]
       /\ th' = [th EXCEPT ![p].pc = "end", ![p].n = 0, ![p].slot = None]
       /\ UNCHANGED <<durable, file, ofile, ops, savedhist, calls, crashes>>

closePut(p) == th[p].op = "close" /\ iput(p, "ilock")
-----------------------------------------------------------------------------
(* create and unlink in the directory *)

\* create as sys_mknod and a sys_open that finds no free struct file use it:
\* the new inode's reference is given up before the operation ends.
create(p) ==
    /\ NewCall(p)
    /\ th' = [th EXCEPT ![p] = [Idle EXCEPT !.pc = "begin", !.op = "create", !.i = Dirino]]
    /\ UNCHANGED <<d, durable, ip, file, ofile, lock, ops, logged, hist, savedhist,
                   crashes, panicked>>

\* create under the directory's lock: ialloc, iupdate with one link, and the
\* first half of dirlink, which finds an empty entry or the end.
createStart(p) ==
    LET FreeInums == {i \in Inum : d.inode[i].type = "free"}
        i == Min(FreeInums)
        node == [FreeInode EXCEPT !.type = "file", !.nlink = 1]
        empty == {k \in DOMAIN Entries : Entries[k] = 0}
        off == IF empty = {} THEN ip[Dirino].size ELSE Min(empty) - 1
    IN /\ At(p, "ilock") /\ th[p].op = "create"
       /\ lock[Dirino] = None
       /\ IF FreeInums = {} THEN full
          ELSE /\ d' = [d EXCEPT !.inode[i] = node]
               /\ ip' = [ip EXCEPT ![i] = node]
               /\ logged' = [logged EXCEPT ![p] = @ \union {IBLOCK(i)}]
               /\ lock' = [lock EXCEPT ![Dirino] = p]
               /\ th' = [th EXCEPT ![p].pc = "writei", ![p].off = off, ![p].n = 1,
                                   ![p].n1 = 1, ![p].val = i]
               /\ UNCHANGED <<durable, file, ofile, ops, ghosts, panicked>>

\* sys_unlink of a name there is; another unlink may be first.
unlink(p, i) ==
    /\ NewCall(p)
    /\ \E k \in 3..Len(Entries) : Entries[k] = i
    /\ th' = [th EXCEPT ![p] = [Idle EXCEPT !.pc = "begin", !.op = "unlink",
                                            !.i = Dirino, !.val = i]]
    /\ UNCHANGED <<d, durable, ip, file, ofile, lock, ops, logged, hist, savedhist,
                   crashes, panicked>>

\* sys_unlink under the directory's lock: the entry is overwritten with 0.
unlinkStart(p) ==
    LET i == th[p].val
        at == {k \in DOMAIN Entries : k > 2 /\ Entries[k] = i}
    IN /\ At(p, "ilock") /\ th[p].op = "unlink"
       /\ lock[Dirino] = None
       /\ IF at = {} THEN /\ Goto(p, "end")
                          /\ UNCHANGED <<ip, lock>>
          ELSE /\ lock' = [lock EXCEPT ![Dirino] = p]
               /\ ip' = IF InUse(i) THEN ip ELSE [ip EXCEPT ![i] = d.inode[i]]
               /\ th' = [th EXCEPT ![p].pc = "writei", ![p].off = Min(at) - 1,
                                   ![p].n = 1, ![p].n1 = 1, ![p].val = 0,
                                   ![p].slot = i]
       /\ UNCHANGED <<d, durable, file, ofile, ops, logged, ghosts, panicked>>

unlinked(p) ==
    LET i == th[p].slot
        node == [ip[i] EXCEPT !.nlink = @ - 1]
    IN /\ At(p, "unlinked")
       /\ lock[i] = None
       /\ ip' = [ip EXCEPT ![i] = node]
       /\ d' = iupdate(d, i, node)
       /\ logged' = [logged EXCEPT ![p] = @ \union {IBLOCK(i)}]
       /\ Goto(p, "put")
       /\ UNCHANGED <<durable, file, ofile, lock, ops, ghosts, panicked>>

unlinkPut(p) == iput(p, "put")
-----------------------------------------------------------------------------
\* A crash, and the boot that follows it.
crash ==
    /\ crashes < MaxCrashes
    /\ crashes' = crashes + 1
    /\ panicked' = "no"
    /\ d' = durable /\ ip' = durable.inode /\ hist' = savedhist
    /\ file' = [f \in File |-> [ip |-> None, off |-> 0]]
    /\ ofile' = [p \in Proc |-> None]
    /\ lock' = [i \in Inum |-> None]
    /\ th' = [p \in Proc |-> Idle]
    /\ ops' = {} /\ logged' = [p \in Proc |-> {}]
    /\ UNCHANGED <<durable, savedhist, calls>>

Next ==
    \/ crash
    \/ \E p \in Proc :
         \/ begin_op(p) \/ end_op(p)
         \/ \E n \in Sizes : filewrite(p, n) \/ fileread(p, n)
         \/ writeStart(p) \/ writei(p) \/ writeDone(p)
         \/ \E f \in File, i \in Inum : open(p, f, i)
         \/ \E q \in Proc : inherit(p, q)
         \/ fileclose(p) \/ closePut(p) \/ itrunc(p) \/ itruncDone(p)
         \/ create(p) \/ createStart(p)
         \/ \E i \in Inum : unlink(p, i)
         \/ unlinkStart(p) \/ unlinked(p) \/ unlinkPut(p)

Spec == Init /\ [][Next]_vars
-----------------------------------------------------------------------------
\* What an inode uses: places of addrs (0 to NDIRECT) and of its indirect
\* block (NDIRECT + 1 on; from is the first file block not yet freed).
Places(disk, addrs, from) ==
    {k \in 0..NDIRECT : addrs[k] # 0}
    \union (IF addrs[NDIRECT] = 0 THEN {}
            ELSE {k \in NDIRECT + 1..MAXFILE :
                    k - 1 >= from /\ disk.ind[addrs[NDIRECT]][k - 1 - NDIRECT] # 0})
BlockAt(disk, addrs, k) ==
    IF k <= NDIRECT THEN addrs[k] ELSE disk.ind[addrs[NDIRECT]][k - 1 - NDIRECT]

\* The bitmap marks the blocks of the file system's own areas and those some
\* inode uses, none of which is used twice.
Sound(disk, inode, from) ==
    LET uses == {<<i, k>> \in Inum \X (0..MAXFILE) :
                    k \in Places(disk, inode[i].addrs, from[i])}
        used == {BlockAt(disk, inode[u[1]].addrs, u[2]) : u \in uses}
    IN /\ disk.bitmap = 0..Meta - 1 \union used
       /\ used \intersect 0..Meta - 1 = {}
       /\ Cardinality(used) = Cardinality(uses)

Whole == [i \in Inum |-> 0]
Truncated ==
    [i \in Inum |-> IF lock[i] \in Proc /\ th[lock[i]].pc = "itrunc"
                    THEN th[lock[i]].n ELSE 0]

\* At every moment, with any number of writes, truncations and removals in
\* progress, the blocks of the running system are accounted for; and so are
\* those of what a crash at that moment leaves, where besides the directories
\* hold one entry for every linked inode and none for another.  Hence no
\* block is freed twice, and reading, which is outside any operation, never
\* has to allocate one.
DiskIsSound ==
    /\ panicked # "bad"
    /\ Sound(d, ip, Truncated)
    /\ Sound(durable, durable.inode, Whole)
    /\ LET Names(i) == LET c == Contents(durable, durable.inode[i])
                       IN {c[k] : k \in 3..Len(c)} \ {0}
           dirs == {i \in Inum : durable.inode[i].type = "dir"}
       IN UNION {Names(i) : i \in dirs} =
          {i \in Inum : durable.inode[i].nlink = 1 /\ i # ROOTINO}

\* A file holds exactly what was written to it: bmap, writei, balloc's
\* zeroing and itrunc's reuse of blocks implement an array of bytes, and a
\* crash takes it back to what it held at a moment with no operation open.
ContentsAreWritten ==
    /\ \A i \in Inum : lock[i] = None => Contents(d, ip[i]) = hist[i]
    /\ \A i \in Inum : Contents(durable, durable.inode[i]) = savedhist[i]

\* No operation logs more blocks than begin_op may count on: one less than
\* MAXOPBLOCKS, since the header takes a block of the log (log.c:218).
\* filewrite's max is chosen for this.
FitsReservation == \A p \in Proc : Cardinality(logged[p]) <= MAXOPBLOCKS - 1
=============================================================================
