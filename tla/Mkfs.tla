-------------------------------- MODULE Mkfs --------------------------------
(***************************************************************************)
(* tools/mkfs.c: the layout of a new disk and the image built on it.       *)
(* An image under construction is a disk of module Files with the counters *)
(* freeinode and freeblock.                                                *)
(***************************************************************************)
EXTENDS Files

CONSTANTS LOGSIZE, BPB

\* The areas: boot block, super block, log, inode blocks, bitmap, data.
nbitmap(fssize, bpb) == fssize \div bpb + 1
ninodeblocks(ninodes, ipb) == ninodes \div ipb + 1
inodestart(nlog) == 2 + nlog
bmapstart(nlog, ninodes, ipb) == inodestart(nlog) + ninodeblocks(ninodes, ipb)
nmetaOf(nlog, ninodes, ipb, fssize, bpb) ==
    bmapstart(nlog, ninodes, ipb) + nbitmap(fssize, bpb)
nmeta == nmetaOf(LOGSIZE, NINODES, IPB, FSSIZE, BPB)

\* IBLOCK and BBLOCK of fs.h, for every inode and every block of the disk,
\* fall in the areas mkfs lays out for them.
ASSUME LayoutHolds ==
    \A nlog \in 1..2, ninodes \in 2..9, ipb \in 1..4, fssize \in 1..12, bpb \in 1..5 :
        LET istart == inodestart(nlog)
            bstart == bmapstart(nlog, ninodes, ipb)
        IN /\ \A i \in 1..ninodes - 1 : i \div ipb + istart \in istart..bstart - 1
           /\ \A b \in 0..fssize - 1 :
                b \div bpb + bstart \in bstart..nmetaOf(nlog, ninodes, ipb, fssize, bpb) - 1

Blank == [bitmap |-> {}, inode |-> [i \in Inum |-> FreeInode],
          data |-> [b \in Block |-> Zero], ind |-> [b \in Block |-> NoBlocks],
          freeinode |-> 1, freeblock |-> nmeta]

ialloc(im, type) ==
    [im EXCEPT !.inode[im.freeinode] = [FreeInode EXCEPT !.type = type, !.nlink = 1],
               !.freeinode = @ + 1]

\* iappend's block of file block fbn, allocated when there is none.
WithBlock(im, i, fbn) ==
    LET addrs == im.inode[i].addrs
        next == im.freeblock
    IN IF Addr(im, addrs, fbn) # 0 THEN im
       ELSE IF fbn < NDIRECT
       THEN [im EXCEPT !.inode[i].addrs[fbn] = next, !.freeblock = @ + 1]
       ELSE IF addrs[NDIRECT] = 0
       THEN [im EXCEPT !.inode[i].addrs[NDIRECT] = next,
                       !.ind[next][fbn - NDIRECT] = next + 1, !.freeblock = @ + 2]
       ELSE [im EXCEPT !.ind[addrs[NDIRECT]][fbn - NDIRECT] = next, !.freeblock = @ + 1]

\* iappend(inum, bytes): one recursion per iteration of its loop.
RECURSIVE iappend(_, _, _)
iappend(im, i, bytes) ==
    IF bytes = <<>> THEN im
    ELSE LET off == im.inode[i].size
             fbn == off \div BSIZE
             n1 == Min({Len(bytes), (fbn + 1) * BSIZE - off})
             im1 == WithBlock(im, i, fbn)
             x == Addr(im1, im1.inode[i].addrs, fbn)
         IN iappend([im1 EXCEPT
                       !.data[x] = [k \in 0..BSIZE - 1 |->
                           IF k >= off % BSIZE /\ k < (off % BSIZE) + n1
                           THEN bytes[k - (off % BSIZE) + 1] ELSE @[k]],
                       !.inode[i].size = off + n1],
                    i, SubSeq(bytes, n1 + 1, Len(bytes)))

\* makedirs: "/", then "dev", "bin" and "home" in it.
devino == 2
binino == 3
homeino == 4
MakeDir(im, i) ==
    iappend(iappend(ialloc(im, "dir"), i, <<i, ROOTINO>>), ROOTINO, <<i>>)
makedirs(im) ==
    MakeDir(MakeDir(MakeDir(
        iappend(ialloc(im, "dir"), ROOTINO, <<ROOTINO, ROOTINO>>),
        devino), binino), homeino)

\* main: one file after another, each [bin, bytes]: in /bin or in /home.
RECURSIVE copyin(_, _)
copyin(im, files) ==
    IF files = <<>> THEN im
    ELSE LET i == im.freeinode
             named == iappend(ialloc(im, "file"),
                              IF Head(files).bin THEN binino ELSE homeino, <<i>>)
         IN copyin(iappend(named, i, Head(files).bytes), Tail(files))

\* balloc: the first used blocks are marked.
balloc_used(im) == [im EXCEPT !.bitmap = 0..im.freeblock - 1]

mkfs(files) ==
    LET im == balloc_used(copyin(makedirs(Blank), files))
    IN [bitmap |-> im.bitmap, inode |-> im.inode, data |-> im.data, ind |-> im.ind]
=============================================================================
