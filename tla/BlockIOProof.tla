---------------------------- MODULE BlockIOProof ----------------------------
(***************************************************************************)
(* The buffer cache returns the last write, the driver's queue matches the *)
(* disk and nothing panics: for any number of processes, blocks and        *)
(* buffers (at least one buffer per process and per pinned block), and any *)
(* number of disk errors.                                                  *)
(***************************************************************************)
EXTENDS BlockIO, NumberFacts

Labels == {"idle", "lock", "locksleep", "hold", "iderw", "iosleep", "iotest", "brelse"}

TypeInv ==
  /\ lru \in [Buf -> Buf] /\ blockno \in [Buf -> Block \cup {None}]
  /\ valid \in [Buf -> BOOLEAN] /\ dirty \in [Buf -> BOOLEAN]
  /\ refcnt \in [Buf -> Nat] /\ data \in [Buf -> Val \cup {None}]
  /\ owner \in [Buf -> Proc \cup {None}]
  /\ idequeue \in Seq(Buf) /\ irq \in {"none", "ok", "error"}
  /\ disk \in [Block -> Val] /\ latest \in [Block -> Val]
  /\ pc \in [Proc -> Labels] /\ mine \in [Proc -> Buf \cup {None}]

\* The buffer list has every buffer once.
Whole(s) ==
  /\ s \in [Buf -> Buf]
  /\ \A i, j \in Buf : s[i] = s[j] => i = j
  /\ \A b \in Buf : \E i \in Buf : s[i] = b
Listed == Whole(lru)

\* The blocks in the cache, and who refers to them.
Users(m, b) == {p \in Proc : m[p] = b}
Cached ==
  /\ \A a, b \in Buf : blockno[a] = blockno[b] /\ blockno[a] # None => a = b
  /\ \A b \in Buf : refcnt[b] = Cardinality(Users(mine, b))
  /\ \A p \in Proc : pc[p] = "idle" <=> mine[p] = None
  /\ \A p \in Proc : mine[p] # None => blockno[mine[p]] # None

\* The holder of a sleep lock is the one process that uses the buffer.
Locked ==
  /\ \A p \in Proc : Holds(p) => owner[mine[p]] = p
  /\ \A b \in Buf : owner[b] # None => Holds(owner[b]) /\ mine[owner[b]] = b
  /\ SleeperHasHolder

\* What the flags say when a holder is at each point of bread and bwrite.
Flags ==
  /\ \A b \in Buf : /\ valid[b] => blockno[b] # None
                    /\ dirty[b] => valid[b] /\ data[b] \in Val
  /\ \A p \in Proc : /\ pc[p] = "hold" => valid[mine[p]]
                     /\ pc[p] = "iderw" => dirty[mine[p]] \/ ~valid[mine[p]]
                     /\ pc[p] = "iotest" => valid[mine[p]] /\ ~dirty[mine[p]]

\* The requests, and what the disk makes of the first one.
Queue ==
  /\ \A i \in 1 .. Len(idequeue) : \E p \in Proc : pc[p] = "iosleep" /\ mine[p] = idequeue[i]
  /\ \A i, j \in 1 .. Len(idequeue) : idequeue[i] = idequeue[j] => i = j
  /\ \A p \in Proc : pc[p] = "iosleep" => \E i \in 1 .. Len(idequeue) : idequeue[i] = mine[p]
  /\ idequeue = <<>> <=> dev = NoCmd /\ irq = "none"
  /\ dev = NoCmd \/ irq = "none"
  /\ dev # NoCmd => dev = idestart(Head(idequeue))
  /\ irq = "ok" /\ dirty[Head(idequeue)] => disk[blockno[Head(idequeue)]] = data[Head(idequeue)]
  /\ irq = "error" => blockno[Head(idequeue)] \in failed

\* Valid data is the last value, and so is what no dirty buffer covers.
Fresh ==
  /\ \A b \in Buf : valid[b] /\ blockno[b] \notin failed => data[b] = latest[blockno[b]]
  /\ CleanIsOnDisk

\* Buffers that are dirty and not on their way to the disk.
Pinned == {b \in Buf : dirty[b] /\ \A p \in Proc : pc[p] \in {"iderw", "iosleep"} => mine[p] # b}

Inv == TypeInv /\ Listed /\ Cached /\ Locked /\ Flags /\ Queue /\ Fresh
PinInv == Cardinality(Pinned) <= MaxPinned

-----------------------------------------------------------------------------
(* Lists and references *)

\* Moving a buffer to the head keeps every buffer on the list once.
LEMMA MoveKeepsList ==
  ASSUME NEW s, Whole(s), NEW b \in Buf
  PROVE  Whole(MoveToHead(s, b))
<1> DEFINE t == MoveToHead(s, b)
<1>0. /\ s \in [Buf -> Buf]
      /\ \A i, j \in Buf : s[i] = s[j] => i = j
      /\ \A c \in Buf : \E i \in Buf : s[i] = c
  BY Zenon DEF Whole
<1>1. PICK k \in Buf : s[k] = b
  BY <1>0, Zenon
<1>2. NBUF \in Nat /\ Buf \subseteq Int /\ k \in Int /\ 1 <= k /\ k <= NBUF
  BY BlockIOAssumption DEF Buf
<1>3. \A i \in Buf : (\E j \in 1 .. i - 1 : s[j] = b) <=> k < i
  <2> SUFFICES ASSUME NEW i \in Buf PROVE (\E j \in 1 .. i - 1 : s[j] = b) <=> k < i
    BY Zenon
  <2>1. ASSUME NEW j \in 1 .. i - 1, s[j] = b PROVE k < i
    <3>1. j \in Buf
      BY <1>2 DEF Buf
    <3>2. j = k
      BY <1>0, <1>1, <2>1, <3>1, Zenon
    <3> QED BY <1>2, <3>2
  <2>2. k < i => k \in 1 .. i - 1
    BY <1>2 DEF Buf
  <2> QED BY <1>1, <2>1, <2>2, Zenon
<1>4. \A i \in Buf : t[i] = IF i = 1 THEN b ELSE IF k < i THEN s[i] ELSE s[i - 1]
  BY <1>3, Zenon DEF MoveToHead
<1>5. \A i \in Buf : i # 1 => i - 1 \in Buf
  BY <1>2 DEF Buf
<1>6. t = [i \in Buf |-> t[i]]
  BY Zenon DEF MoveToHead
<1> HIDE DEF t
<1>7. t \in [Buf -> Buf]
  <2>1. \A i \in Buf : t[i] \in Buf
    BY <1>0, <1>4, <1>5
  <2> QED BY <1>6, <2>1, Zenon
<1>8. ASSUME NEW i \in Buf, NEW j \in Buf, t[i] = t[j], i < j PROVE FALSE
  <2>1. j # 1 /\ i \in Int /\ j \in Int /\ 1 <= i
    BY <1>2, <1>8 DEF Buf
  <2>2. CASE k < j
    <3>1. t[j] = s[j] /\ j # k
      BY <1>2, <1>4, <2>1, <2>2
    <3>2. i # 1
      BY <1>0, <1>1, <1>4, <1>8, <3>1
    <3>3. CASE k < i
      BY <1>0, <1>4, <1>8, <2>1, <3>1, <3>2, <3>3
    <3>4. CASE ~(k < i)
      <4>1. t[i] = s[i - 1] /\ i - 1 \in Buf
        BY <1>4, <1>5, <3>2, <3>4, Zenon
      <4>2. i - 1 = j
        BY <1>0, <1>8, <3>1, <4>1, Zenon
      <4> QED BY <1>8, <2>1, <4>2
    <3> QED BY <3>3, <3>4, Zenon
  <2>3. CASE ~(k < j)
    <3>1. t[j] = s[j - 1] /\ j - 1 \in Buf /\ j - 1 # k
      BY <1>2, <1>4, <1>5, <2>1, <2>3
    <3>2. i # 1
      BY <1>0, <1>1, <1>4, <1>8, <3>1
    <3>3. t[i] = s[i - 1] /\ i - 1 \in Buf
      BY <1>2, <1>4, <1>5, <1>8, <2>1, <2>3, <3>2
    <3>4. i - 1 = j - 1
      BY <1>0, <1>8, <3>1, <3>3, Zenon
    <3> QED BY <1>8, <2>1, <3>4
  <2> QED BY <2>2, <2>3, Zenon
<1>9. ASSUME NEW c \in Buf PROVE \E i \in Buf : t[i] = c
  <2>1. PICK j \in Buf : s[j] = c
    BY <1>0, Zenon
  <2>2. CASE j < k
    <3>1. j + 1 \in Buf /\ j + 1 # 1 /\ ~(k < j + 1) /\ (j + 1) - 1 = j
      BY <1>2, <2>2 DEF Buf
    <3> QED BY <1>4, <2>1, <3>1, Zenon
  <2>3. CASE j = k
    <3>1. 1 \in Buf
      BY <1>2 DEF Buf
    <3> QED BY <1>1, <1>4, <2>1, <2>3, <3>1, Zenon
  <2>4. CASE k < j
    <3>1. j # 1
      BY <1>2, <2>4
    <3> QED BY <1>4, <2>1, <2>4, <3>1, Zenon
  <2> QED BY <1>2, <2>2, <2>3, <2>4
<1>10. \A i, j \in Buf : t[i] = t[j] => i = j
  <2> SUFFICES ASSUME NEW i \in Buf, NEW j \in Buf, t[i] = t[j] PROVE i = j
    BY Zenon
  <2>1. i \in Int /\ j \in Int
    BY <1>2, Zenon
  <2> QED BY <1>8, <2>1
<1> QED BY <1>7, <1>9, <1>10, Zenon DEF t, Whole

\* The users of a buffer are finitely many.
LEMMA UsersFinite ==
  ASSUME NEW m, NEW b
  PROVE  IsFiniteSet(Users(m, b)) /\ Cardinality(Users(m, b)) \in Nat
<1>1. Users(m, b) \in SUBSET Proc
  BY Zenon DEF Users
<1> QED BY <1>1, BlockIOAssumption, FS_Subset, FS_CardinalityType, Zenon

\* A process starts to use buffer b.
LEMMA UserAdded ==
  ASSUME NEW m \in [Proc -> Buf \cup {None}], NEW p \in Proc, m[p] = None, NEW b \in Buf,
         NEW c \in Buf
  PROVE  Cardinality(Users([m EXCEPT ![p] = b], c))
           = Cardinality(Users(m, c)) + IF c = b THEN 1 ELSE 0
<1> DEFINE U == Users(m, c)
<1>1. IsFiniteSet(U) /\ Cardinality(U) \in Nat
  BY UsersFinite, Zenon
<1>2. c # None
  BY BlockIOAssumption, Zenon
<1>3. CASE c = b
  <2>1. Users([m EXCEPT ![p] = b], c) = U \cup {p} /\ p \notin U
    BY <1>2, <1>3, Zenon DEF Users
  <2> HIDE DEF U
  <2> QED BY <1>1, <1>3, <2>1, FS_AddElement, Zenon DEF U
<1>4. CASE c # b
  <2>1. Users([m EXCEPT ![p] = b], c) = U
    BY <1>2, <1>4, Zenon DEF Users
  <2> QED BY <1>1, <1>4, <2>1
<1> QED BY <1>3, <1>4, Zenon

\* A process stops to use buffer b.
LEMMA UserRemoved ==
  ASSUME NEW m \in [Proc -> Buf \cup {None}], NEW p \in Proc, NEW b \in Buf, m[p] = b,
         NEW c \in Buf
  PROVE  Cardinality(Users([m EXCEPT ![p] = None], c))
           = Cardinality(Users(m, c)) - IF c = b THEN 1 ELSE 0
<1> DEFINE U == Users(m, c)
<1>1. IsFiniteSet(U) /\ Cardinality(U) \in Nat
  BY UsersFinite, Zenon
<1>2. c # None
  BY BlockIOAssumption, Zenon
<1>3. CASE c = b
  <2>1. Users([m EXCEPT ![p] = None], c) = U \ {p} /\ p \in U
    BY <1>2, <1>3, Zenon DEF Users
  <2> HIDE DEF U
  <2> QED BY <1>1, <1>3, <2>1, FS_RemoveElement, ZenonT(60) DEF U
<1>4. CASE c # b
  <2>1. Users([m EXCEPT ![p] = None], c) = U
    BY <1>2, <1>4, Zenon DEF Users
  <2> QED BY <1>1, <1>4, <2>1
<1> QED BY <1>3, <1>4, Zenon

\* A count of zero means that nobody uses the buffer.
LEMMA UnusedBuffer ==
  ASSUME Cached, NEW b \in Buf, refcnt[b] = 0
  PROVE  \A p \in Proc : mine[p] # b
<1>1. Cardinality(Users(mine, b)) = 0
  BY Zenon DEF Cached
<1>2. Users(mine, b) = {}
  BY <1>1, UsersFinite, FS_EmptySet, Zenon
<1> QED BY <1>2, Zenon DEF Users

-----------------------------------------------------------------------------
(* bio.c and sleeplock.c *)

\* bget returns buffer b, which has the block, or which it recycles.
Hit(p, k, b) ==
  /\ blockno[b] = k
  /\ refcnt' = [refcnt EXCEPT ![b] = refcnt[b] + 1]
  /\ mine' = [mine EXCEPT ![p] = b] /\ pc' = [pc EXCEPT ![p] = "lock"]
  /\ UNCHANGED <<blockno, valid, dirty, data, panicked>>

Recycle(p, k, b) ==
  /\ \A c \in Buf : blockno[c] # k
  /\ refcnt[b] = 0 /\ ~dirty[b]
  /\ blockno' = [blockno EXCEPT ![b] = k]
  /\ valid' = [valid EXCEPT ![b] = FALSE]
  /\ refcnt' = [refcnt EXCEPT ![b] = 1]
  /\ mine' = [mine EXCEPT ![p] = b] /\ pc' = [pc EXCEPT ![p] = "lock"]
  /\ UNCHANGED <<dirty, data, panicked>>

\* The three outcomes of bget.
LEMMA BgetCases ==
  ASSUME Inv, NEW p \in Proc, NEW k \in Block, bget(p, k)
  PROVE  /\ pc[p] = "idle" /\ UNCHANGED <<lru, owner, ideVars, disk, ghosts>>
         /\ \/ \E b \in Buf : Hit(p, k, b)
            \/ \E b \in Buf : Recycle(p, k, b)
            \/ /\ \A i \in Buf : ~Recyclable(lru[i])
               /\ UNCHANGED <<bufVars, mine, pc>>
<1> DEFINE hit == {b \in Buf : blockno[b] = k}
           unused == {i \in Buf : Recyclable(lru[i])}
<1>1. pc[p] = "idle" /\ UNCHANGED <<lru, owner, ideVars, disk, ghosts>>
  BY Zenon DEF bget
<1>2. CASE hit # {}
  <2> DEFINE b == CHOOSE b \in hit : TRUE
  <2>1. b \in Buf /\ blockno[b] = k
    BY <1>2, Zenon
  <2>2. /\ refcnt' = [refcnt EXCEPT ![b] = refcnt[b] + 1]
        /\ mine' = [mine EXCEPT ![p] = b] /\ pc' = [pc EXCEPT ![p] = "lock"]
        /\ UNCHANGED <<blockno, valid, dirty, data, panicked>>
    BY <1>2, Zenon DEF bget, Goto
  <2> HIDE DEF b
  <2>3. Hit(p, k, b)
    BY <2>1, <2>2, Zenon DEF Hit
  <2> QED BY <1>1, <2>1, <2>3, Zenon
<1>3. CASE hit = {} /\ unused # {}
  <2> DEFINE b == lru[Max(unused)]
  <2>1. Max(unused) \in unused
    <3>1. unused \in SUBSET (0 .. NBUF)
      BY DEF Buf
    <3> HIDE DEF unused
    <3> QED BY <1>3, <3>1, MaxIsGreatest, BlockIOAssumption, Zenon
  <2>2. b \in Buf /\ refcnt[b] = 0 /\ ~dirty[b]
    BY <2>1, Zenon DEF Inv, TypeInv, Recyclable
  <2>3. /\ blockno' = [blockno EXCEPT ![b] = k]
        /\ valid' = [valid EXCEPT ![b] = FALSE]
        /\ refcnt' = [refcnt EXCEPT ![b] = 1]
        /\ mine' = [mine EXCEPT ![p] = b] /\ pc' = [pc EXCEPT ![p] = "lock"]
        /\ UNCHANGED <<dirty, data, panicked>>
    BY <1>3, Zenon DEF bget, Goto
  <2>4. \A c \in Buf : blockno[c] # k
    BY <1>3, Zenon
  <2> HIDE DEF b
  <2>5. Recycle(p, k, b)
    BY <2>2, <2>3, <2>4, Zenon DEF Recycle
  <2> QED BY <1>1, <2>2, <2>5, Zenon
<1>4. CASE hit = {} /\ unused = {}
  <2>1. UNCHANGED <<bufVars, mine, pc>>
    BY <1>4, Zenon DEF bget
  <2>2. \A i \in Buf : ~Recyclable(lru[i])
    BY <1>4, Zenon
  <2> QED BY <1>1, <2>1, <2>2, Zenon
<1> QED BY <1>2, <1>3, <1>4, Zenon

\* A buffer at the head of the queue belongs to a process that waits for it.
LEMMA HeadWaited ==
  ASSUME Inv, idequeue # <<>>
  PROVE  /\ Head(idequeue) \in Buf /\ Head(idequeue) = idequeue[1] /\ 1 \in 1 .. Len(idequeue)
         /\ \E q \in Proc : pc[q] = "iosleep" /\ mine[q] = Head(idequeue)
<1>1. idequeue \in Seq(Buf) /\ Len(idequeue) \in Nat /\ Len(idequeue) # 0
  BY DEF Inv, TypeInv
<1>2. 1 \in 1 .. Len(idequeue) /\ Head(idequeue) = idequeue[1]
  BY <1>1
<1>3. Head(idequeue) \in Buf
  BY <1>1, <1>2
<1> QED BY <1>2, <1>3 DEF Inv, Queue

\* The queue does not change, the disk neither, and the buffers in it stay as
\* they are: what is said about the first one remains true.
LEMMA QueueUnchanged ==
  ASSUME Inv, UNCHANGED <<idequeue, dev, irq, disk, failed>>,
         \A q \in Proc : (pc'[q] = "iosleep" <=> pc[q] = "iosleep"),
         \A q \in Proc : pc[q] = "iosleep" => mine'[q] = mine[q],
         \A q \in Proc : pc[q] = "iosleep" =>
            /\ dirty'[mine[q]] = dirty[mine[q]] /\ blockno'[mine[q]] = blockno[mine[q]]
            /\ data'[mine[q]] = data[mine[q]]
  PROVE  Queue'
<1>1. CASE idequeue = <<>>
  <2>1. dev = NoCmd /\ irq = "none" /\ Len(idequeue) = 0
    BY <1>1, Zenon DEF Inv, Queue
  <2>2. \A q \in Proc : pc'[q] # "iosleep"
    BY <2>1 DEF Inv, Queue
  <2> QED BY <1>1, <2>1, <2>2 DEF Queue
<1>2. CASE idequeue # <<>>
  <2>1. PICK q \in Proc : pc[q] = "iosleep" /\ mine[q] = Head(idequeue)
    BY <1>2, HeadWaited, Zenon
  <2>2. /\ dirty'[Head(idequeue)] = dirty[Head(idequeue)]
        /\ blockno'[Head(idequeue)] = blockno[Head(idequeue)]
        /\ data'[Head(idequeue)] = data[Head(idequeue)]
    BY <2>1, Zenon
  <2>3. idestart(Head(idequeue))' = idestart(Head(idequeue))
    BY <2>2, Zenon DEF idestart
  <2> QED BY <1>2, <2>2, <2>3 DEF Inv, Queue
<1> QED BY <1>1, <1>2, Zenon

\* bget finds the block in the cache.
LEMMA InvHit ==
  ASSUME Inv, NEW p \in Proc, pc[p] = "idle", NEW b \in Buf, blockno[b] \in Block,
         UNCHANGED <<lru, owner, ideVars, disk, ghosts, blockno, valid, dirty, data>>,
         refcnt' = [refcnt EXCEPT ![b] = refcnt[b] + 1],
         mine' = [mine EXCEPT ![p] = b], pc' = [pc EXCEPT ![p] = "lock"]
  PROVE  Inv'
<1>1. UNCHANGED <<idequeue, dev, irq, latest, failed>>
  BY Zenon DEF ideVars, ghosts
<1>2. /\ pc'[p] = "lock" /\ mine'[p] = b
      /\ \A q \in Proc : q # p => pc'[q] = pc[q] /\ mine'[q] = mine[q]
  BY Zenon DEF Inv, TypeInv
<1>3. b # None /\ mine[p] = None /\ None \notin Block
  BY BlockIOAssumption, Zenon DEF Inv, Cached
<1>4. TypeInv'
  BY <1>1 DEF Inv, TypeInv, Labels
<1>5. Listed'
  BY Zenon DEF Inv, Listed, Whole
<1>6. Cached'
  <2>1. ASSUME NEW c \in Buf PROVE refcnt'[c] = Cardinality(Users(mine', c))
    <3>1. Cardinality(Users(mine', c)) = Cardinality(Users(mine, c)) + IF c = b THEN 1 ELSE 0
      <4>1. mine \in [Proc -> Buf \cup {None}]
        BY Zenon DEF Inv, TypeInv
      <4> QED BY <1>3, <4>1, UserAdded, ZenonT(60)
    <3>2. refcnt[c] = Cardinality(Users(mine, c)) /\ refcnt[c] \in Nat
      BY Zenon DEF Inv, Cached, TypeInv
    <3>3. refcnt'[c] = IF c = b THEN refcnt[c] + 1 ELSE refcnt[c]
      BY Zenon DEF Inv, TypeInv
    <3> QED BY <3>1, <3>2, <3>3
  <2>2. \A a, c \in Buf : blockno'[a] = blockno'[c] /\ blockno'[a] # None => a = c
    BY Zenon DEF Inv, Cached
  <2>3. \A q \in Proc : pc'[q] = "idle" <=> mine'[q] = None
    BY <1>2, <1>3 DEF Inv, Cached
  <2>4. \A q \in Proc : mine'[q] # None => blockno'[mine'[q]] # None
    BY <1>2, <1>3 DEF Inv, Cached
  <2> QED BY <2>1, <2>2, <2>3, <2>4, Zenon DEF Cached
<1>7. Locked'
  BY <1>2 DEF Inv, Locked, Holds, SleeperHasHolder
<1>8. Flags'
  BY <1>2, ZenonT(60) DEF Inv, Flags
<1>9. Queue'
  BY <1>1, <1>2, QueueUnchanged, Zenon
<1>10. Fresh'
  BY <1>1, Zenon DEF Inv, Fresh, CleanIsOnDisk
<1> QED BY <1>4, <1>5, <1>6, <1>7, <1>8, <1>9, <1>10, Zenon DEF Inv

\* bget recycles a buffer nobody uses and that is not dirty.
LEMMA InvRecycle ==
  ASSUME Inv, NEW p \in Proc, pc[p] = "idle", NEW b \in Buf, NEW k \in Block,
         \A c \in Buf : blockno[c] # k, refcnt[b] = 0, ~dirty[b],
         UNCHANGED <<lru, owner, ideVars, disk, ghosts, dirty, data>>,
         blockno' = [blockno EXCEPT ![b] = k], valid' = [valid EXCEPT ![b] = FALSE],
         refcnt' = [refcnt EXCEPT ![b] = 1],
         mine' = [mine EXCEPT ![p] = b], pc' = [pc EXCEPT ![p] = "lock"]
  PROVE  Inv'
<1>1. UNCHANGED <<idequeue, dev, irq, latest, failed>>
  BY Zenon DEF ideVars, ghosts
<1>2. /\ pc'[p] = "lock" /\ mine'[p] = b
      /\ \A q \in Proc : q # p => pc'[q] = pc[q] /\ mine'[q] = mine[q]
  BY Zenon DEF Inv, TypeInv
<1>3. b # None /\ mine[p] = None /\ k # None
  BY BlockIOAssumption, Zenon DEF Inv, Cached
<1>4. \A q \in Proc : mine[q] # b
  BY UnusedBuffer, Zenon DEF Inv
<1>5. /\ blockno'[b] = k /\ valid'[b] = FALSE
      /\ \A c \in Buf : c # b => blockno'[c] = blockno[c] /\ valid'[c] = valid[c]
  BY Zenon DEF Inv, TypeInv
<1>6. \A q \in Proc : mine[q] # None => mine[q] \in Buf
  BY Zenon DEF Inv, TypeInv
<1>7. TypeInv'
  BY <1>1, Zenon DEF Inv, TypeInv, Labels
<1>8. Listed'
  BY Zenon DEF Inv, Listed, Whole
<1>9. Cached'
  <2>1. ASSUME NEW c \in Buf PROVE refcnt'[c] = Cardinality(Users(mine', c))
    <3>1. Cardinality(Users(mine', c)) = Cardinality(Users(mine, c)) + IF c = b THEN 1 ELSE 0
      <4>1. mine \in [Proc -> Buf \cup {None}]
        BY Zenon DEF Inv, TypeInv
      <4> QED BY <1>3, <4>1, UserAdded, ZenonT(60)
    <3>2. refcnt[c] = Cardinality(Users(mine, c)) /\ refcnt[c] \in Nat
      BY Zenon DEF Inv, Cached, TypeInv
    <3>3. refcnt'[c] = IF c = b THEN 1 ELSE refcnt[c]
      BY Zenon DEF Inv, TypeInv
    <3> QED BY <3>1, <3>2, <3>3
  <2>2. \A a, c \in Buf : blockno'[a] = blockno'[c] /\ blockno'[a] # None => a = c
    BY <1>5 DEF Inv, Cached
  <2>3. \A q \in Proc : pc'[q] = "idle" <=> mine'[q] = None
    BY <1>2, <1>3 DEF Inv, Cached
  <2>4. \A q \in Proc : mine'[q] # None => blockno'[mine'[q]] # None
    BY <1>2, <1>3, <1>4, <1>5, <1>6 DEF Inv, Cached
  <2> QED BY <2>1, <2>2, <2>3, <2>4, Zenon DEF Cached
<1>10. Locked'
  BY <1>2 DEF Inv, Locked, Holds, SleeperHasHolder
<1>11. Flags'
  <2>1. \A c \in Buf : /\ valid'[c] => blockno'[c] # None
                       /\ dirty'[c] => valid'[c] /\ data'[c] \in Val
    BY <1>5 DEF Inv, Flags
  <2>2. ASSUME NEW q \in Proc, pc'[q] \in {"hold", "iderw", "iotest"}
        PROVE  /\ pc'[q] = pc[q] /\ mine'[q] = mine[q]
               /\ valid'[mine[q]] = valid[mine[q]] /\ dirty'[mine[q]] = dirty[mine[q]]
    <3>1. q # p /\ pc'[q] = pc[q] /\ mine'[q] = mine[q]
      BY <1>2, <2>2, Zenon
    <3>2. mine[q] \in Buf
      BY <1>6, <2>2, <3>1, Zenon DEF Inv, Cached
    <3> QED BY <1>4, <1>5, <3>1, <3>2, Zenon
  <2>3. ASSUME NEW q \in Proc
        PROVE  /\ pc'[q] = "hold" => valid'[mine'[q]]
               /\ pc'[q] = "iderw" => dirty'[mine'[q]] \/ ~valid'[mine'[q]]
               /\ pc'[q] = "iotest" => valid'[mine'[q]] /\ ~dirty'[mine'[q]]
    <3>1. CASE pc'[q] \notin {"hold", "iderw", "iotest"}
      BY <3>1, Zenon
    <3>2. CASE pc'[q] \in {"hold", "iderw", "iotest"}
      <4>1. /\ pc'[q] = pc[q] /\ mine'[q] = mine[q]
            /\ valid'[mine'[q]] = valid[mine[q]] /\ dirty'[mine'[q]] = dirty[mine[q]]
        BY <2>2, <3>2, Zenon
      <4> QED BY <4>1, Zenon DEF Inv, Flags
    <3> QED BY <3>1, <3>2, Zenon
  <2> QED BY <2>1, <2>3, Zenon DEF Flags
<1>12. Queue'
  <2>1. ASSUME NEW q \in Proc, pc[q] = "iosleep"
        PROVE  q # p /\ blockno'[mine[q]] = blockno[mine[q]]
    <3>1. mine[q] \in Buf
      BY <1>6, <2>1, Zenon DEF Inv, Cached
    <3> QED BY <1>4, <1>5, <2>1, <3>1, Zenon
  <2> QED BY <1>1, <1>2, <2>1, QueueUnchanged, Zenon
<1>13. Fresh'
  <2>1. \A c \in Buf : valid'[c] /\ blockno'[c] \notin failed => data[c] = latest[blockno'[c]]
    BY <1>5, Zenon DEF Inv, Fresh
  <2>2. CleanIsOnDisk'
    <3> SUFFICES ASSUME NEW j \in Block
                 PROVE  \/ disk[j] = latest[j] \/ j \in failed
                        \/ \E c \in Buf : blockno'[c] = j /\ dirty[c]
      BY <1>1, Zenon DEF CleanIsOnDisk
    <3>1. CASE \E c \in Buf : blockno[c] = j /\ dirty[c]
      BY <1>5, <3>1, Zenon
    <3> QED BY <3>1, Zenon DEF Inv, Fresh, CleanIsOnDisk
  <2> QED BY <1>1, <2>1, <2>2, Zenon DEF Fresh
<1> QED BY <1>7, <1>8, <1>9, <1>10, <1>11, <1>12, <1>13, Zenon DEF Inv

\* A panic changes nothing else.
LEMMA InvPanic ==
  ASSUME Inv, UNCHANGED <<lru, bufVars, owner, ideVars, disk, pc, mine, ghosts>>
  PROVE  Inv'
<1>1. UNCHANGED <<blockno, valid, dirty, refcnt, data, idequeue, dev, irq, latest, failed>>
  BY Zenon DEF bufVars, ideVars, ghosts
<1>2. TypeInv' /\ Listed'
  BY <1>1, Zenon DEF Inv, TypeInv, Listed
<1>3. Cached'
  BY <1>1, Zenon DEF Inv, Cached, Users
<1>4. Locked' /\ Flags'
  BY <1>1, Zenon DEF Inv, Locked, Holds, SleeperHasHolder, Flags
<1>5. Queue'
  BY <1>1, QueueUnchanged, Zenon
<1>6. Fresh'
  BY <1>1, Zenon DEF Inv, Fresh, CleanIsOnDisk
<1> QED BY <1>2, <1>3, <1>4, <1>5, <1>6, Zenon DEF Inv

\* bget keeps the invariant.
LEMMA InvBget ==
  ASSUME Inv, NEW p \in Proc, NEW k \in Block, bget(p, k)
  PROVE  Inv'
<1>1. pc[p] = "idle" /\ UNCHANGED <<lru, owner, ideVars, disk, ghosts>>
  BY BgetCases, Zenon
<1>2. ASSUME NEW b \in Buf, Hit(p, k, b) PROVE Inv'
  BY <1>1, <1>2, InvHit, Zenon DEF Hit
<1>3. ASSUME NEW b \in Buf, Recycle(p, k, b) PROVE Inv'
  BY <1>1, <1>3, InvRecycle, Zenon DEF Recycle
<1>4. CASE UNCHANGED <<bufVars, mine, pc>>
  BY <1>1, <1>4, InvPanic, Zenon
<1> QED BY <1>2, <1>3, <1>4, BgetCases, Zenon

\* A process that is not idle has a buffer, with a block.
LEMMA UsesBuffer ==
  ASSUME Inv, NEW p \in Proc, pc[p] # "idle"
  PROVE  mine[p] \in Buf /\ blockno[mine[p]] \in Block
<1>1. mine[p] \in Buf
  BY Zenon DEF Inv, TypeInv, Cached
<1> QED BY <1>1, BlockIOAssumption DEF Inv, TypeInv, Cached

\* Two holders of one lock are the same process.
LEMMA SoleHolder ==
  ASSUME Inv, NEW p \in Proc, Holds(p), NEW q \in Proc, Holds(q), mine[q] = mine[p]
  PROVE  q = p
BY Zenon DEF Inv, Locked

\* The new state's locks, with the holders named.
LEMMA LockedAgain ==
  ASSUME \A q \in Proc : Holds(q)' => owner'[mine'[q]] = q,
         \A c \in Buf : owner'[c] # None => \E q \in Proc : owner'[c] = q /\ Holds(q)' /\ mine'[q] = c,
         SleeperHasHolder'
  PROVE  Locked'
BY Zenon DEF Locked, Holds

\* Steps that leave the cache's table alone.
LEMMA TableKept ==
  ASSUME Inv, UNCHANGED <<lru, blockno, refcnt, mine>>,
         \A q \in Proc : pc'[q] = "idle" <=> pc[q] = "idle"
  PROVE  Listed' /\ Cached'
<1>1. Listed'
  BY Zenon DEF Inv, Listed, Whole
<1>2. Cached'
  BY Zenon DEF Inv, Cached, Users
<1> QED BY <1>1, <1>2, Zenon

\* acquiresleep keeps the invariant: a sleeper has a holder, a new holder is
\* the only one.
LEMMA InvAcquire ==
  ASSUME Inv, NEW p \in Proc, acquiresleep(p)
  PROVE  Inv'
<1> DEFINE b == mine[p]
<1>1. /\ pc[p] = "lock"
      /\ UNCHANGED <<lru, blockno, valid, dirty, refcnt, data, idequeue, dev, irq, disk, mine, latest, failed>>
  BY Zenon DEF acquiresleep, bufVars, ideVars, ghosts
<1>2. b \in Buf
  BY <1>1, UsesBuffer, Zenon
<1>3. PICK l \in {"locksleep", "hold", "iderw"} :
        /\ pc' = [pc EXCEPT ![p] = l]
        /\ l = "locksleep" => owner[b] # None /\ owner' = owner
        /\ l # "locksleep" => owner[b] = None /\ owner' = [owner EXCEPT ![b] = p]
        /\ l = "hold" => valid[b]
        /\ l = "iderw" => ~valid[b]
  <2>1. CASE owner[b] # None
    BY <2>1, Zenon DEF acquiresleep, Goto
  <2>2. CASE owner[b] = None /\ valid[b]
    BY <2>2, Zenon DEF acquiresleep, Goto
  <2>3. CASE owner[b] = None /\ ~valid[b]
    BY <2>3, Zenon DEF acquiresleep, Goto
  <2> QED BY <2>1, <2>2, <2>3, Zenon
<1>4. pc'[p] = l /\ \A q \in Proc : q # p => pc'[q] = pc[q]
  BY <1>3, Zenon DEF Inv, TypeInv
<1>5. \A c \in Buf : owner'[c] = IF c = b /\ l # "locksleep" THEN p ELSE owner[c]
  BY <1>3, Zenon DEF Inv, TypeInv
<1>6. TypeInv'
  BY <1>1, <1>2, <1>3 DEF Inv, TypeInv, Labels
<1>7. Listed' /\ Cached'
  BY <1>1, <1>4, TableKept, Zenon
<1>8. Locked'
  <2>1. \A q \in Proc : Holds(q) => q # p /\ mine[q] \in Buf
    BY <1>1, UsesBuffer, Zenon DEF Holds
  <2>2. ASSUME NEW q \in Proc, Holds(q)' PROVE owner'[mine'[q]] = q
    <3>1. CASE q = p
      BY <1>1, <1>2, <1>4, <1>5, <2>2, <3>1, Zenon DEF Holds
    <3>2. CASE q # p
      <4>1. Holds(q) /\ owner[mine[q]] = q
        BY <1>4, <2>2, <3>2, Zenon DEF Inv, Locked, Holds
      <4>2. q # None
        BY BlockIOAssumption, Zenon
      <4> QED BY <1>1, <1>3, <1>5, <2>1, <4>1, <4>2, Zenon
    <3> QED BY <3>1, <3>2, Zenon
  <2>3. ASSUME NEW c \in Buf, owner'[c] # None
        PROVE  \E q \in Proc : owner'[c] = q /\ Holds(q)' /\ mine'[q] = c
    <3>1. CASE owner'[c] = owner[c]
      <4>1. Holds(owner[c]) /\ mine[owner[c]] = c /\ owner[c] \in Proc
        BY <2>3, <3>1 DEF Inv, Locked, TypeInv
      <4> QED BY <1>1, <1>4, <2>1, <3>1, <4>1, Zenon DEF Holds
    <3>2. CASE owner'[c] # owner[c]
      BY <1>1, <1>3, <1>4, <1>5, <3>2 DEF Holds
    <3> QED BY <3>1, <3>2, Zenon
  <2>4. SleeperHasHolder'
    <3> SUFFICES ASSUME NEW q \in Proc, pc'[q] = "locksleep" PROVE owner'[mine[q]] # None
      BY <1>1, Zenon DEF SleeperHasHolder
    <3>1. mine[q] \in Buf /\ owner[mine[q]] # None
      BY <1>1, <1>2, <1>3, <1>4, UsesBuffer, Zenon DEF Inv, Locked, SleeperHasHolder
    <3>2. p # None
      BY BlockIOAssumption, Zenon
    <3> QED BY <1>5, <3>1, <3>2, Zenon
  <2> QED BY <2>2, <2>3, <2>4, LockedAgain, Zenon
<1>9. Flags'
  <2>1. \A c \in Buf : /\ valid'[c] => blockno'[c] # None
                       /\ dirty'[c] => valid'[c] /\ data'[c] \in Val
    BY <1>1, Zenon DEF Inv, Flags
  <2>2. \A q \in Proc : /\ pc'[q] = "hold" => valid'[mine'[q]]
                        /\ pc'[q] = "iderw" => dirty'[mine'[q]] \/ ~valid'[mine'[q]]
                        /\ pc'[q] = "iotest" => valid'[mine'[q]] /\ ~dirty'[mine'[q]]
    BY <1>1, <1>3, <1>4, Zenon DEF Inv, Flags
  <2> QED BY <2>1, <2>2, Zenon DEF Flags
<1>10. Queue'
  BY <1>1, <1>4, QueueUnchanged, Zenon
<1>11. Fresh'
  BY <1>1, Zenon DEF Inv, Fresh, CleanIsOnDisk
<1> QED BY <1>6, <1>7, <1>8, <1>9, <1>10, <1>11, Zenon DEF Inv

\* The holder gives its buffer a value, and goes on to bwrite's iderw or stays.
LEMMA InvWrite ==
  ASSUME Inv, NEW p \in Proc, pc[p] = "hold", NEW v \in Val,
         data' = [data EXCEPT ![mine[p]] = v],
         latest' = [latest EXCEPT ![blockno[mine[p]]] = v],
         dirty' = [dirty EXCEPT ![mine[p]] = TRUE],
         pc' = pc \/ pc' = [pc EXCEPT ![p] = "iderw"],
         UNCHANGED <<lru, blockno, valid, refcnt, owner, ideVars, disk, mine, failed>>
  PROVE  Inv'
<1> DEFINE b == mine[p]
<1>1. UNCHANGED <<idequeue, dev, irq>>
  BY Zenon DEF ideVars
<1>2. b \in Buf /\ blockno[b] \in Block /\ valid[b] /\ blockno[b] # None
  BY UsesBuffer, BlockIOAssumption, Zenon DEF Inv, Flags
<1>3. pc'[p] \in {"hold", "iderw"} /\ \A q \in Proc : q # p => pc'[q] = pc[q]
  BY Zenon DEF Inv, TypeInv
<1>4. /\ data'[b] = v /\ latest'[blockno[b]] = v /\ dirty'[b] = TRUE
      /\ \A c \in Buf : c # b => data'[c] = data[c] /\ dirty'[c] = dirty[c]
      /\ \A k \in Block : k # blockno[b] => latest'[k] = latest[k]
  BY <1>2, Zenon DEF Inv, TypeInv
<1>5. ASSUME NEW q \in Proc, Holds(q), q # p PROVE mine[q] \in Buf /\ mine[q] # b
  BY <1>5, SoleHolder, UsesBuffer, Zenon DEF Holds
<1>6. TypeInv'
  BY <1>1, <1>2, Zenon DEF Inv, TypeInv, Labels
<1>7. Listed' /\ Cached'
  <2>1. \A q \in Proc : pc'[q] = "idle" <=> pc[q] = "idle"
    BY <1>3, Zenon
  <2> QED BY <2>1, TableKept, Zenon
<1>8. Locked'
  <2>1. \A q \in Proc : Holds(q)' <=> Holds(q)
    BY <1>3, Zenon DEF Holds
  <2>2. \A q \in Proc : Holds(q)' => owner'[mine'[q]] = q
    BY <2>1, Zenon DEF Inv, Locked
  <2>3. \A c \in Buf : owner'[c] # None => \E q \in Proc : owner'[c] = q /\ Holds(q)' /\ mine'[q] = c
    BY <2>1 DEF Inv, Locked, TypeInv
  <2>4. SleeperHasHolder'
    BY <1>3, Zenon DEF Inv, Locked, SleeperHasHolder
  <2> QED BY <2>2, <2>3, <2>4, LockedAgain, Zenon
<1>9. Flags'
  <2>1. \A c \in Buf : /\ valid'[c] => blockno'[c] # None
                       /\ dirty'[c] => valid'[c] /\ data'[c] \in Val
    BY <1>2, <1>4 DEF Inv, Flags
  <2>2. ASSUME NEW q \in Proc
        PROVE  /\ pc'[q] = "hold" => valid'[mine'[q]]
               /\ pc'[q] = "iderw" => dirty'[mine'[q]] \/ ~valid'[mine'[q]]
               /\ pc'[q] = "iotest" => valid'[mine'[q]] /\ ~dirty'[mine'[q]]
    <3>1. CASE q = p
      BY <1>2, <1>3, <1>4, <3>1, Zenon
    <3>2. CASE q # p /\ Holds(q)
      <4>1. pc'[q] = pc[q] /\ dirty'[mine[q]] = dirty[mine[q]]
        BY <1>3, <1>4, <1>5, <3>2, Zenon
      <4> QED BY <4>1, Zenon DEF Inv, Flags
    <3>3. CASE q # p /\ ~Holds(q)
      BY <1>3, <3>3, Zenon DEF Holds
    <3> QED BY <3>1, <3>2, <3>3, Zenon
  <2> QED BY <2>1, <2>2, Zenon DEF Flags
<1>10. Queue'
  <2>1. \A q \in Proc : pc[q] = "iosleep" =>
          q # p /\ dirty'[mine[q]] = dirty[mine[q]] /\ data'[mine[q]] = data[mine[q]]
    BY <1>4, <1>5, Zenon DEF Holds
  <2>2. \A q \in Proc : pc'[q] = "iosleep" <=> pc[q] = "iosleep"
    BY <1>3, Zenon
  <2> QED BY <1>1, <2>1, <2>2, QueueUnchanged, Zenon
<1>11. Fresh'
  <2>1. ASSUME NEW c \in Buf, valid[c], blockno[c] \notin failed
        PROVE  data'[c] = latest'[blockno[c]]
    <3>1. CASE c = b
      BY <1>4, <3>1, Zenon
    <3>2. CASE c # b
      <4>1. blockno[c] \in Block /\ blockno[c] # blockno[b]
        BY <1>2, <2>1, <3>2 DEF Inv, Flags, Cached, TypeInv
      <4> QED BY <1>4, <2>1, <3>2, <4>1, Zenon DEF Inv, Fresh
    <3> QED BY <3>1, <3>2, Zenon
  <2>2. CleanIsOnDisk'
    <3> SUFFICES ASSUME NEW k \in Block
                 PROVE  \/ disk[k] = latest'[k] \/ k \in failed
                        \/ \E c \in Buf : blockno[c] = k /\ dirty'[c]
      BY Zenon DEF CleanIsOnDisk
    <3>1. CASE k = blockno[b]
      BY <1>2, <1>4, <3>1, Zenon
    <3>2. CASE k # blockno[b]
      BY <1>4, <3>2 DEF Inv, Fresh, CleanIsOnDisk
    <3> QED BY <3>1, <3>2, Zenon
  <2> QED BY <2>1, <2>2, Zenon DEF Fresh
<1> QED BY <1>6, <1>7, <1>8, <1>9, <1>10, <1>11, Zenon DEF Inv

\* releasesleep keeps the invariant: every process asleep on the lock is woken.
LEMMA InvRelease ==
  ASSUME Inv, NEW p \in Proc, releasesleep(p)
  PROVE  Inv' /\ UNCHANGED panicked
<1> DEFINE b == mine[p]
<1>1. pc[p] = "hold" /\ b \in Buf /\ owner[b] = p
  BY UsesBuffer, Zenon DEF releasesleep, Inv, Locked, Holds
<1>2. /\ owner' = [owner EXCEPT ![b] = None]
      /\ pc' = [Wakeup(b, "locksleep", "lock") EXCEPT ![p] = "brelse"]
      /\ UNCHANGED <<lru, blockno, valid, dirty, refcnt, data, idequeue, dev, irq, disk, mine, latest, failed, panicked>>
  BY <1>1, Zenon DEF releasesleep, bufVars, ideVars, ghosts
<1>3. /\ pc'[p] = "brelse"
      /\ \A q \in Proc : q # p => pc'[q] = IF pc[q] = "locksleep" /\ mine[q] = b THEN "lock" ELSE pc[q]
  BY <1>2, Zenon DEF Wakeup
<1>4. owner'[b] = None /\ \A c \in Buf : c # b => owner'[c] = owner[c]
  BY <1>1, <1>2, Zenon DEF Inv, TypeInv
<1>5. ASSUME NEW q \in Proc PROVE Holds(q)' <=> q # p /\ Holds(q)
  BY <1>1, <1>3, Zenon DEF Holds
<1>6. TypeInv'
  <2>1. pc' \in [Proc -> Labels]
    BY <1>2, Zenon DEF Inv, TypeInv, Labels, Wakeup
  <2> QED BY <1>1, <1>2, <2>1, Zenon DEF Inv, TypeInv
<1>7. Listed' /\ Cached'
  <2>1. \A q \in Proc : pc'[q] = "idle" <=> pc[q] = "idle"
    BY <1>1, <1>3, Zenon
  <2> QED BY <1>2, <2>1, TableKept, Zenon
<1>8. Locked'
  <2>1. ASSUME NEW q \in Proc, Holds(q)' PROVE owner'[mine'[q]] = q
    <3>1. q # p /\ Holds(q) /\ owner[mine[q]] = q
      BY <1>5, <2>1, Zenon DEF Inv, Locked
    <3>2. mine[q] \in Buf /\ mine[q] # b
      BY <1>1, <3>1, UsesBuffer, Zenon DEF Holds
    <3> QED BY <1>2, <1>4, <3>1, <3>2, Zenon
  <2>2. ASSUME NEW c \in Buf, owner'[c] # None
        PROVE  \E q \in Proc : owner'[c] = q /\ Holds(q)' /\ mine'[q] = c
    <3>1. c # b /\ owner'[c] = owner[c]
      BY <1>4, <2>2, Zenon
    <3>2. owner[c] \in Proc /\ Holds(owner[c]) /\ mine[owner[c]] = c
      BY <2>2, <3>1 DEF Inv, Locked, TypeInv
    <3> QED BY <1>2, <1>5, <3>1, <3>2, Zenon
  <2>3. SleeperHasHolder'
    <3> SUFFICES ASSUME NEW q \in Proc, pc'[q] = "locksleep" PROVE owner'[mine[q]] # None
      BY <1>2, Zenon DEF SleeperHasHolder
    <3>1. pc[q] = "locksleep" /\ mine[q] # b
      BY <1>3, Zenon
    <3>2. mine[q] \in Buf /\ owner[mine[q]] # None
      BY <3>1, UsesBuffer, Zenon DEF Inv, Locked, SleeperHasHolder
    <3> QED BY <1>4, <3>1, <3>2, Zenon
  <2> QED BY <2>1, <2>2, <2>3, LockedAgain, Zenon
<1>9. Flags'
  <2>1. \A q \in Proc : pc'[q] \in {"hold", "iderw", "iotest"} => pc'[q] = pc[q]
    BY <1>3, Zenon
  <2> QED BY <1>2, <2>1, Zenon DEF Inv, Flags
<1>10. Queue'
  <2>1. \A q \in Proc : pc'[q] = "iosleep" <=> pc[q] = "iosleep"
    BY <1>1, <1>3, Zenon
  <2> QED BY <1>2, <2>1, QueueUnchanged, Zenon
<1>11. Fresh'
  BY <1>2, Zenon DEF Inv, Fresh, CleanIsOnDisk
<1> QED BY <1>2, <1>6, <1>7, <1>8, <1>9, <1>10, <1>11, Zenon DEF Inv

\* brelse keeps the invariant: one reference less, and the list stays whole.
LEMMA InvBrelse ==
  ASSUME Inv, NEW p \in Proc, brelse(p)
  PROVE  Inv'
<1> DEFINE b == mine[p]
<1>1. /\ pc[p] = "brelse" /\ b \in Buf
      /\ UNCHANGED <<blockno, valid, dirty, data, owner, idequeue, dev, irq, disk, latest, failed>>
  BY UsesBuffer, Zenon DEF brelse, ideVars, ghosts
<1>2. /\ refcnt' = [refcnt EXCEPT ![b] = refcnt[b] - 1]
      /\ lru' = lru \/ lru' = MoveToHead(lru, b)
      /\ mine' = [mine EXCEPT ![p] = None] /\ pc' = [pc EXCEPT ![p] = "idle"]
  BY Zenon DEF brelse, Goto
<1>3. /\ pc'[p] = "idle" /\ mine'[p] = None
      /\ \A q \in Proc : q # p => pc'[q] = pc[q] /\ mine'[q] = mine[q]
  BY <1>2, Zenon DEF Inv, TypeInv
<1>4. lru' \in [Buf -> Buf] /\ Listed'
  <2>1. Whole(lru)
    BY Zenon DEF Inv, Listed
  <2>2. Whole(lru')
    BY <1>1, <1>2, <2>1, MoveKeepsList, Zenon
  <2> QED BY <2>2, Zenon DEF Listed, Whole
<1>5. ASSUME NEW c \in Buf PROVE refcnt'[c] = Cardinality(Users(mine', c)) /\ refcnt'[c] \in Nat
  <2>1. Cardinality(Users(mine', c)) = Cardinality(Users(mine, c)) - IF c = b THEN 1 ELSE 0
    <3>1. mine \in [Proc -> Buf \cup {None}]
      BY Zenon DEF Inv, TypeInv
    <3> QED BY <1>1, <1>2, <3>1, UserRemoved, Zenon
  <2>2. refcnt[c] = Cardinality(Users(mine, c)) /\ refcnt[c] \in Nat
    BY Zenon DEF Inv, Cached, TypeInv
  <2>3. refcnt'[c] = IF c = b THEN refcnt[c] - 1 ELSE refcnt[c]
    BY <1>2, Zenon DEF Inv, TypeInv
  <2>4. Cardinality(Users(mine', c)) \in Nat
    BY UsersFinite, Zenon
  <2> QED BY <2>1, <2>2, <2>3, <2>4
<1>6. TypeInv'
  <2>1. refcnt' = [c \in Buf |-> refcnt'[c]]
    BY <1>2, Zenon DEF Inv, TypeInv
  <2>2. refcnt' \in [Buf -> Nat]
    BY <1>5, <2>1, Zenon
  <2> QED BY <1>1, <1>2, <1>4, <2>2, Zenon DEF Inv, TypeInv, Labels
<1>7. Cached'
  <2>1. \A a, c \in Buf : blockno'[a] = blockno'[c] /\ blockno'[a] # None => a = c
    BY <1>1, Zenon DEF Inv, Cached
  <2>2. \A q \in Proc : pc'[q] = "idle" <=> mine'[q] = None
    BY <1>3, Zenon DEF Inv, Cached
  <2>3. \A q \in Proc : mine'[q] # None => blockno'[mine'[q]] # None
    BY <1>1, <1>3, Zenon DEF Inv, Cached
  <2> QED BY <1>5, <2>1, <2>2, <2>3, Zenon DEF Cached
<1>8. Locked'
  <2>1. \A q \in Proc : Holds(q)' <=> Holds(q)
    BY <1>1, <1>3, Zenon DEF Holds
  <2>2. \A q \in Proc : Holds(q) => q # p
    BY <1>1, Zenon DEF Holds
  <2>3. \A q \in Proc : Holds(q)' => owner'[mine'[q]] = q
    BY <1>1, <1>3, <2>1, <2>2 DEF Inv, Locked
  <2>4. ASSUME NEW c \in Buf, owner'[c] # None
        PROVE  \E q \in Proc : owner'[c] = q /\ Holds(q)' /\ mine'[q] = c
    <3>1. owner[c] \in Proc /\ Holds(owner[c]) /\ mine[owner[c]] = c
      BY <1>1, <2>4 DEF Inv, Locked, TypeInv
    <3> QED BY <1>1, <1>3, <2>1, <2>2, <3>1, Zenon
  <2>5. SleeperHasHolder'
    BY <1>1, <1>3 DEF Inv, Locked, SleeperHasHolder
  <2> QED BY <2>3, <2>4, <2>5, LockedAgain, Zenon
<1>9. Flags'
  BY <1>1, <1>3 DEF Inv, Flags
<1>10. Queue'
  <2>1. \A q \in Proc : pc'[q] = "iosleep" <=> pc[q] = "iosleep"
    BY <1>1, <1>3, Zenon
  <2>2. \A q \in Proc : pc[q] = "iosleep" => mine'[q] = mine[q]
    BY <1>1, <1>3, Zenon
  <2> QED BY <1>1, <2>1, <2>2, QueueUnchanged, Zenon
<1>11. Fresh'
  BY <1>1, Zenon DEF Inv, Fresh, CleanIsOnDisk
<1> QED BY <1>4, <1>6, <1>7, <1>8, <1>9, <1>10, <1>11, Zenon DEF Inv

-----------------------------------------------------------------------------
(* ide.c *)

\* iderw keeps the invariant: the new request is not in the queue already, and
\* the disk works on the first one.
LEMMA InvIderw ==
  ASSUME Inv, NEW p \in Proc, iderw(p)
  PROVE  Inv' /\ UNCHANGED panicked
<1> DEFINE b == mine[p]
           n == Len(idequeue)
<1>1. /\ pc[p] = "iderw" /\ Holds(p) /\ b \in Buf /\ owner[b] = p
      /\ dirty[b] \/ ~valid[b]
  BY UsesBuffer, Zenon DEF iderw, Inv, Locked, Holds, Flags
<1>2. /\ idequeue' = Append(idequeue, b)
      /\ dev' = IF idequeue = <<>> THEN idestart(b) ELSE dev
      /\ pc' = [pc EXCEPT ![p] = "iosleep"]
      /\ UNCHANGED <<lru, blockno, valid, dirty, refcnt, data, owner, irq, disk, mine, latest, failed, panicked>>
  BY <1>1, Zenon DEF iderw, Goto, bufVars, ghosts
<1>3. pc'[p] = "iosleep" /\ \A q \in Proc : q # p => pc'[q] = pc[q]
  BY <1>2, Zenon DEF Inv, TypeInv
<1>4. /\ idequeue \in Seq(Buf) /\ n \in Nat /\ idequeue' \in Seq(Buf) /\ Len(idequeue') = n + 1
      /\ idequeue'[n + 1] = b /\ \A i \in 1 .. n : idequeue'[i] = idequeue[i]
  <2>1. idequeue \in Seq(Buf)
    BY Zenon DEF Inv, TypeInv
  <2> QED BY <1>1, <1>2, <2>1
<1>5. TypeInv'
  BY <1>2, <1>4, Zenon DEF Inv, TypeInv, Labels
<1>6. Listed' /\ Cached'
  <2>1. \A q \in Proc : pc'[q] = "idle" <=> pc[q] = "idle"
    BY <1>1, <1>3, Zenon
  <2> QED BY <1>2, <2>1, TableKept, Zenon
<1>7. Locked'
  <2>1. \A q \in Proc : Holds(q)' <=> Holds(q)
    BY <1>1, <1>3, Zenon DEF Holds
  <2>2. \A q \in Proc : Holds(q)' => owner'[mine'[q]] = q
    BY <1>2, <2>1, Zenon DEF Inv, Locked
  <2>3. \A c \in Buf : owner'[c] # None => \E q \in Proc : owner'[c] = q /\ Holds(q)' /\ mine'[q] = c
    BY <1>2, <2>1 DEF Inv, Locked, TypeInv
  <2>4. SleeperHasHolder'
    BY <1>2, <1>3, Zenon DEF Inv, Locked, SleeperHasHolder
  <2> QED BY <2>2, <2>3, <2>4, LockedAgain, Zenon
<1>8. Flags'
  <2>1. \A q \in Proc : pc'[q] \in {"hold", "iderw", "iotest"} => pc'[q] = pc[q]
    BY <1>3, Zenon
  <2> QED BY <1>2, <2>1, Zenon DEF Inv, Flags
<1>9. \A i \in 1 .. n : idequeue[i] # b
  <2> SUFFICES ASSUME NEW i \in 1 .. n, idequeue[i] = b PROVE FALSE
    BY Zenon
  <2>1. PICK q \in Proc : pc[q] = "iosleep" /\ mine[q] = b
    BY DEF Inv, Queue
  <2> QED BY <1>1, <2>1, SoleHolder, Zenon DEF Holds
<1>10. Queue'
  <2>1. \A i \in 1 .. n + 1 : i \in 1 .. n \/ i = n + 1
    BY <1>4
  <2>2. 1 .. n \subseteq 1 .. n + 1 /\ n + 1 \in 1 .. n + 1
    BY <1>4
  <2>3. \A i \in 1 .. Len(idequeue') : \E q \in Proc : pc'[q] = "iosleep" /\ mine'[q] = idequeue'[i]
    <3> SUFFICES ASSUME NEW i \in 1 .. n + 1
                 PROVE  \E q \in Proc : pc'[q] = "iosleep" /\ mine[q] = idequeue'[i]
      BY <1>2, <1>4, Zenon
    <3>1. CASE i \in 1 .. n
      <4>1. PICK q \in Proc : pc[q] = "iosleep" /\ mine[q] = idequeue[i]
        BY <3>1, Zenon DEF Inv, Queue
      <4> QED BY <1>1, <1>3, <1>4, <3>1, <4>1, Zenon
    <3>2. CASE i = n + 1
      BY <1>3, <1>4, <3>2, Zenon
    <3> QED BY <2>1, <3>1, <3>2, Zenon
  <2>4. \A i, j \in 1 .. Len(idequeue') : idequeue'[i] = idequeue'[j] => i = j
    <3>1. \A i, j \in 1 .. n : idequeue[i] = idequeue[j] => i = j
      BY Zenon DEF Inv, Queue
    <3> HIDE DEF n, b
    <3> QED BY <1>4, <1>9, <2>1, <3>1, Zenon
  <2>5. \A q \in Proc : pc'[q] = "iosleep" => \E i \in 1 .. Len(idequeue') : idequeue'[i] = mine'[q]
    <3> SUFFICES ASSUME NEW q \in Proc, pc'[q] = "iosleep"
                 PROVE  \E i \in 1 .. n + 1 : idequeue'[i] = mine[q]
      BY <1>2, <1>4, Zenon
    <3>1. CASE q = p
      BY <1>4, <2>2, <3>1, Zenon
    <3>2. CASE q # p
      <4>1. PICK i \in 1 .. n : idequeue[i] = mine[q]
        BY <1>3, <3>2, Zenon DEF Inv, Queue
      <4> QED BY <1>4, <2>2, <4>1, Zenon
    <3> QED BY <3>1, <3>2, Zenon
  <2>6. idequeue' # <<>> /\ Head(idequeue') = idequeue'[1]
    BY <1>4
  <2>8. CASE idequeue = <<>>
    <3>1. dev = NoCmd /\ irq = "none" /\ n = 0
      BY <2>8, Zenon DEF Inv, Queue
    <3>2. dev' = idestart(b) /\ Head(idequeue') = b /\ irq' = "none"
      BY <1>2, <1>4, <2>6, <2>8, <3>1
    <3>3. dev' # NoCmd
      BY <3>2, Zenon DEF idestart, NoCmd
    <3>4. dev' = [cmd |-> IF dirty'[Head(idequeue')] THEN "write" ELSE "read",
                  block |-> blockno'[Head(idequeue')], val |-> data'[Head(idequeue')]]
      BY <1>2, <3>2, Zenon DEF idestart
    <3> QED BY <2>3, <2>4, <2>5, <2>6, <3>2, <3>3, <3>4, Zenon DEF Queue, idestart
  <2>9. CASE idequeue # <<>>
    <3>1. Head(idequeue') = Head(idequeue) /\ Head(idequeue) = idequeue[1]
      BY <1>4, <2>6, <2>9, HeadWaited, Zenon
    <3>2. dev' = dev /\ irq' = irq
      BY <1>2, <2>9, Zenon
    <3>4. /\ ~(dev = NoCmd /\ irq = "none") /\ (dev = NoCmd \/ irq = "none")
          /\ dev # NoCmd => dev = idestart(Head(idequeue))
          /\ irq = "ok" /\ dirty[Head(idequeue)] => disk[blockno[Head(idequeue)]] = data[Head(idequeue)]
          /\ irq = "error" => blockno[Head(idequeue)] \in failed
      BY <2>9, Zenon DEF Inv, Queue
    <3>5. dev' # NoCmd => dev' = [cmd |-> IF dirty'[Head(idequeue')] THEN "write" ELSE "read",
                                  block |-> blockno'[Head(idequeue')], val |-> data'[Head(idequeue')]]
      BY <1>2, <3>1, <3>2, <3>4, Zenon DEF idestart
    <3>6. /\ irq' = "ok" /\ dirty'[Head(idequeue')] => disk'[blockno'[Head(idequeue')]] = data'[Head(idequeue')]
          /\ irq' = "error" => blockno'[Head(idequeue')] \in failed'
      BY <1>2, <3>1, <3>4, Zenon
    <3> QED BY <2>3, <2>4, <2>5, <2>6, <3>2, <3>4, <3>5, <3>6, Zenon DEF Queue, idestart
  <2> QED BY <2>8, <2>9, Zenon
<1>11. Fresh'
  BY <1>2, Zenon DEF Inv, Fresh, CleanIsOnDisk
<1> QED BY <1>2, <1>5, <1>6, <1>7, <1>8, <1>10, <1>11, Zenon DEF Inv

\* iderw_test keeps the invariant: a woken process finds its request done.
LEMMA InvIderwTest ==
  ASSUME Inv, NEW p \in Proc, iderw_test(p)
  PROVE  Inv'
<1>1. /\ pc[p] = "iotest" /\ valid[mine[p]] /\ ~dirty[mine[p]]
      /\ UNCHANGED <<lru, blockno, valid, dirty, refcnt, data, owner, idequeue, dev, irq, disk, mine, latest, failed>>
  BY Zenon DEF iderw_test, Inv, Flags, bufVars, ideVars, ghosts
<1>2. pc' = [pc EXCEPT ![p] = "hold"]
  BY <1>1, Zenon DEF iderw_test, Goto
<1>3. pc'[p] = "hold" /\ \A q \in Proc : q # p => pc'[q] = pc[q]
  BY <1>2, Zenon DEF Inv, TypeInv
<1>4. TypeInv'
  BY <1>1, <1>2, Zenon DEF Inv, TypeInv, Labels
<1>5. Listed' /\ Cached'
  <2>1. \A q \in Proc : pc'[q] = "idle" <=> pc[q] = "idle"
    BY <1>1, <1>3, Zenon
  <2> QED BY <1>1, <2>1, TableKept, Zenon
<1>6. Locked'
  <2>1. \A q \in Proc : Holds(q)' <=> Holds(q)
    BY <1>1, <1>3, Zenon DEF Holds
  <2>2. \A q \in Proc : Holds(q)' => owner'[mine'[q]] = q
    BY <1>1, <2>1, Zenon DEF Inv, Locked
  <2>3. \A c \in Buf : owner'[c] # None => \E q \in Proc : owner'[c] = q /\ Holds(q)' /\ mine'[q] = c
    BY <1>1, <2>1 DEF Inv, Locked, TypeInv
  <2>4. SleeperHasHolder'
    BY <1>1, <1>3, Zenon DEF Inv, Locked, SleeperHasHolder
  <2> QED BY <2>2, <2>3, <2>4, LockedAgain, Zenon
<1>7. Flags'
  BY <1>1, <1>3, Zenon DEF Inv, Flags
<1>8. Queue'
  <2>1. \A q \in Proc : pc'[q] = "iosleep" <=> pc[q] = "iosleep"
    BY <1>1, <1>3, Zenon
  <2> QED BY <1>1, <2>1, QueueUnchanged, Zenon
<1>9. Fresh'
  BY <1>1, Zenon DEF Inv, Fresh, CleanIsOnDisk
<1> QED BY <1>4, <1>5, <1>6, <1>7, <1>8, <1>9, Zenon DEF Inv

\* disk_done keeps the invariant: a write brings the data of the first request
\* to the disk, an error is remembered for its block.
LEMMA InvDone ==
  ASSUME Inv, disk_done
  PROVE  Inv'
<1> DEFINE h == Head(idequeue)
<1>1. /\ dev # NoCmd /\ dev' = NoCmd /\ irq' # "none"
      /\ UNCHANGED <<lru, blockno, valid, dirty, refcnt, data, owner, idequeue, pc, mine, latest>>
  BY Zenon DEF disk_done, bufVars
<1>2. idequeue # <<>> /\ dev = idestart(h)
  BY <1>1, Zenon DEF Inv, Queue
<1>3. h \in Buf /\ blockno[h] \in Block /\ blockno[h] # None
  <2>1. PICK q \in Proc : pc[q] = "iosleep" /\ mine[q] = h
    BY <1>2, HeadWaited, Zenon
  <2>2. h \in Buf /\ blockno[h] \in Block
    BY <2>1, UsesBuffer, Zenon
  <2> QED BY <2>2, BlockIOAssumption, Zenon
<1>4. /\ dev.block = blockno[h] /\ dev.val = data[h] /\ (dev.cmd = "write" <=> dirty[h])
  BY <1>2, Zenon DEF idestart
<1>5. \/ /\ irq' = "ok" /\ failed' = failed
         /\ disk' = IF dirty[h] THEN [disk EXCEPT ![blockno[h]] = data[h]] ELSE disk
      \/ irq' = "error" /\ failed' = failed \cup {blockno[h]} /\ disk' = disk
  BY <1>4, Zenon DEF disk_done
<1>6. dirty[h] => data[h] \in Val
  BY <1>3, Zenon DEF Inv, Flags
<1>7. TypeInv'
  <2>1. disk' \in [Block -> Val] /\ irq' \in {"none", "ok", "error"}
    BY <1>3, <1>5, <1>6, Zenon DEF Inv, TypeInv
  <2> QED BY <1>1, <2>1, Zenon DEF Inv, TypeInv
<1>8. Listed' /\ Cached'
  BY <1>1, TableKept, Zenon
<1>9. Locked' /\ Flags'
  BY <1>1, Zenon DEF Inv, Locked, Holds, SleeperHasHolder, Flags
<1>10. Queue'
  <2>1. irq' = "ok" /\ dirty[h] => disk'[blockno[h]] = data[h]
    BY <1>3, <1>5, Zenon DEF Inv, TypeInv
  <2>2. irq' = "error" => blockno[h] \in failed'
    BY <1>5, Zenon
  <2> QED BY <1>1, <1>2, <2>1, <2>2, Zenon DEF Inv, Queue
<1>11. Fresh'
  <2>1. \A c \in Buf : valid[c] /\ blockno[c] \notin failed' => data[c] = latest[blockno[c]]
    BY <1>5, Zenon DEF Inv, Fresh
  <2>2. CleanIsOnDisk'
    <3> SUFFICES ASSUME NEW k \in Block
                 PROVE  \/ disk'[k] = latest[k] \/ k \in failed'
                        \/ \E c \in Buf : blockno[c] = k /\ dirty[c]
      BY <1>1, Zenon DEF CleanIsOnDisk
    <3>1. CASE dirty[h] /\ k = blockno[h]
      BY <1>3, <3>1, Zenon
    <3>2. CASE ~(dirty[h] /\ k = blockno[h])
      <4>1. disk'[k] = disk[k]
        BY <1>3, <1>5, <3>2, Zenon DEF Inv, TypeInv
      <4>2. k \in failed => k \in failed'
        BY <1>5, Zenon
      <4> QED BY <4>1, <4>2, Zenon DEF Inv, Fresh, CleanIsOnDisk
    <3> QED BY <3>1, <3>2, Zenon
  <2> QED BY <1>1, <2>1, <2>2, Zenon DEF Fresh
<1> QED BY <1>7, <1>8, <1>9, <1>10, <1>11, Zenon DEF Inv

\* ideintr keeps the invariant: the first request is done, its buffer is valid
\* and clean, its process is woken, and the disk starts on the next request.
LEMMA InvIntr ==
  ASSUME Inv, ideintr
  PROVE  Inv'
<1> DEFINE h == Head(idequeue)
           n == Len(idequeue)
<1>1. /\ irq # "none" /\ irq' = "none"
      /\ UNCHANGED <<lru, blockno, refcnt, owner, disk, mine, latest, failed>>
      /\ valid' = [valid EXCEPT ![h] = TRUE] /\ dirty' = [dirty EXCEPT ![h] = FALSE]
      /\ data' = IF ~dirty[h] /\ irq = "ok" THEN [data EXCEPT ![h] = disk[blockno[h]]] ELSE data
      /\ pc' = Wakeup(h, "iosleep", "iotest")
      /\ idequeue' = Tail(idequeue)
      /\ dev' = IF n > 1 THEN idestart(idequeue[2]) ELSE dev
  BY Zenon DEF ideintr, ghosts
<1>2. dev = NoCmd /\ idequeue # <<>>
  BY <1>1, Zenon DEF Inv, Queue
<1>3. PICK w \in Proc : pc[w] = "iosleep" /\ mine[w] = h
  BY <1>2, HeadWaited, Zenon
<1>4. h \in Buf /\ blockno[h] \in Block /\ blockno[h] # None
  <2>1. h \in Buf /\ blockno[h] \in Block
    BY <1>3, UsesBuffer, Zenon
  <2> QED BY <2>1, BlockIOAssumption, Zenon
<1>5. /\ valid'[h] = TRUE /\ dirty'[h] = FALSE
      /\ \A c \in Buf : c # h => valid'[c] = valid[c] /\ dirty'[c] = dirty[c] /\ data'[c] = data[c]
      /\ data'[h] = IF ~dirty[h] /\ irq = "ok" THEN disk[blockno[h]] ELSE data[h]
  BY <1>1, <1>4, Zenon DEF Inv, TypeInv
<1>6. \A q \in Proc : pc'[q] = IF pc[q] = "iosleep" /\ mine[q] = h THEN "iotest" ELSE pc[q]
  BY <1>1, Zenon DEF Wakeup
<1>7. ASSUME NEW q \in Proc, Holds(q), q # w PROVE mine[q] \in Buf /\ mine[q] # h
  BY <1>3, <1>7, SoleHolder, UsesBuffer, Zenon DEF Holds
<1>8. /\ idequeue \in Seq(Buf) /\ n \in Nat /\ n >= 1 /\ h = idequeue[1]
      /\ idequeue' \in Seq(Buf) /\ Len(idequeue') = n - 1
      /\ \A i \in 1 .. n - 1 : idequeue'[i] = idequeue[i + 1] /\ i + 1 \in 1 .. n
  <2>1. idequeue \in Seq(Buf)
    BY Zenon DEF Inv, TypeInv
  <2> QED BY <1>1, <1>2, <2>1
<1>9. TypeInv'
  <2>1. pc' \in [Proc -> Labels]
    BY <1>1, Zenon DEF Inv, TypeInv, Labels, Wakeup
  <2>2. disk[blockno[h]] \in Val
    BY <1>4, Zenon DEF Inv, TypeInv
  <2>3. data' \in [Buf -> Val \cup {None}]
    BY <1>1, <2>2, Zenon DEF Inv, TypeInv
  <2>4. valid' \in [Buf -> BOOLEAN] /\ dirty' \in [Buf -> BOOLEAN]
    BY <1>1, Zenon DEF Inv, TypeInv
  <2> QED BY <1>1, <1>8, <2>1, <2>3, <2>4, Zenon DEF Inv, TypeInv
<1>10. Listed' /\ Cached'
  <2>1. \A q \in Proc : pc'[q] = "idle" <=> pc[q] = "idle"
    BY <1>6, Zenon
  <2> QED BY <1>1, <2>1, TableKept, Zenon
<1>11. Locked'
  <2>1. \A q \in Proc : Holds(q)' <=> Holds(q)
    BY <1>6, Zenon DEF Holds
  <2>2. \A q \in Proc : Holds(q)' => owner'[mine'[q]] = q
    BY <1>1, <2>1, Zenon DEF Inv, Locked
  <2>3. \A c \in Buf : owner'[c] # None => \E q \in Proc : owner'[c] = q /\ Holds(q)' /\ mine'[q] = c
    BY <1>1, <2>1 DEF Inv, Locked, TypeInv
  <2>4. SleeperHasHolder'
    BY <1>1, <1>6, Zenon DEF Inv, Locked, SleeperHasHolder
  <2> QED BY <2>2, <2>3, <2>4, LockedAgain, Zenon
<1>12. Flags'
  <2>1. \A c \in Buf : /\ valid'[c] => blockno'[c] # None
                       /\ dirty'[c] => valid'[c] /\ data'[c] \in Val
    BY <1>1, <1>4, <1>5, Zenon DEF Inv, Flags
  <2>2. ASSUME NEW q \in Proc
        PROVE  /\ pc'[q] = "hold" => valid'[mine'[q]]
               /\ pc'[q] = "iderw" => dirty'[mine'[q]] \/ ~valid'[mine'[q]]
               /\ pc'[q] = "iotest" => valid'[mine'[q]] /\ ~dirty'[mine'[q]]
    <3>1. CASE q = w
      BY <1>1, <1>3, <1>5, <1>6, <3>1, Zenon
    <3>2. CASE q # w /\ Holds(q)
      <4>1. /\ pc'[q] = pc[q] /\ mine'[q] = mine[q]
            /\ dirty'[mine[q]] = dirty[mine[q]] /\ valid'[mine[q]] = valid[mine[q]]
        BY <1>1, <1>5, <1>6, <1>7, <3>2, Zenon
      <4> QED BY <4>1, Zenon DEF Inv, Flags
    <3>3. CASE q # w /\ ~Holds(q)
      BY <1>6, <3>3, Zenon DEF Holds
    <3> QED BY <3>1, <3>2, <3>3, Zenon
  <2> QED BY <2>1, <2>2, Zenon DEF Flags
<1>13. Queue'
  <2>1. \A i, j \in 1 .. n : idequeue[i] = idequeue[j] => i = j
    BY Zenon DEF Inv, Queue
  <2>2. \A i \in 1 .. n : i # 1 => idequeue[i] # h /\ idequeue[i] \in Buf
    BY <1>8, <2>1
  <2>3. \A i \in 1 .. Len(idequeue') : \E q \in Proc : pc'[q] = "iosleep" /\ mine'[q] = idequeue'[i]
    <3> SUFFICES ASSUME NEW i \in 1 .. n - 1
                 PROVE  \E q \in Proc : pc'[q] = "iosleep" /\ mine[q] = idequeue[i + 1]
      BY <1>1, <1>8
    <3>1. i + 1 \in 1 .. n /\ i + 1 # 1
      BY <1>8
    <3>2. PICK q \in Proc : pc[q] = "iosleep" /\ mine[q] = idequeue[i + 1]
      BY <3>1, Zenon DEF Inv, Queue
    <3> QED BY <1>6, <2>2, <3>1, <3>2, Zenon
  <2>4. \A i, j \in 1 .. Len(idequeue') : idequeue'[i] = idequeue'[j] => i = j
    <3> SUFFICES ASSUME NEW i \in 1 .. n - 1, NEW j \in 1 .. n - 1, idequeue[i + 1] = idequeue[j + 1]
                 PROVE  i = j
      BY <1>8, Zenon
    <3>1. i + 1 = j + 1
      BY <1>8, <2>1, Zenon
    <3> QED BY <1>8, <3>1
  <2>5. \A q \in Proc : pc'[q] = "iosleep" => \E i \in 1 .. Len(idequeue') : idequeue'[i] = mine'[q]
    <3> SUFFICES ASSUME NEW q \in Proc, pc'[q] = "iosleep"
                 PROVE  \E i \in 1 .. n - 1 : idequeue'[i] = mine[q]
      BY <1>1, <1>8, Zenon
    <3>1. pc[q] = "iosleep" /\ mine[q] # h
      BY <1>6, Zenon
    <3>2. PICK i \in 1 .. n : idequeue[i] = mine[q]
      BY <3>1, Zenon DEF Inv, Queue
    <3>3. i # 1
      BY <1>8, <3>1, <3>2, Zenon
    <3>4. i - 1 \in 1 .. n - 1 /\ (i - 1) + 1 = i
      BY <1>8, <3>3
    <3> QED BY <1>8, <3>2, <3>4, Zenon
  <2>6. CASE n > 1
    <3> DEFINE g == idequeue[2]
    <3>1. 2 \in 1 .. n /\ 1 \in 1 .. n - 1
      BY <1>8, <2>6
    <3>2. g \in Buf /\ g # h /\ idequeue'[1] = g
      BY <1>8, <2>2, <3>1
    <3>3. idequeue' # <<>> /\ Head(idequeue') = g
      BY <1>8, <2>6, <3>2
    <3>4. dev' = [cmd |-> IF dirty[g] THEN "write" ELSE "read", block |-> blockno[g], val |-> data[g]]
      BY <1>1, <2>6, Zenon DEF idestart
    <3>5. dirty'[g] = dirty[g] /\ blockno'[g] = blockno[g] /\ data'[g] = data[g]
      BY <1>1, <1>5, <3>2, Zenon
    <3> HIDE DEF g
    <3>6. dev' = [cmd |-> IF dirty'[g] THEN "write" ELSE "read", block |-> blockno'[g], val |-> data'[g]]
      BY <3>4, <3>5, Zenon
    <3>7. dev' # NoCmd
      BY <3>4, Zenon DEF NoCmd
    <3> QED BY <1>1, <2>3, <2>4, <2>5, <3>3, <3>6, <3>7 DEF Queue, idestart
  <2>7. CASE ~(n > 1)
    <3>1. idequeue' = <<>> /\ dev' = NoCmd
      BY <1>1, <1>2, <1>8, <2>7
    <3> QED BY <1>1, <2>3, <2>4, <2>5, <3>1, Zenon DEF Queue
  <2> QED BY <2>6, <2>7, Zenon
<1>14. Fresh'
  <2>1. valid[h] /\ blockno[h] \notin failed => data[h] = latest[blockno[h]]
    BY <1>4, Zenon DEF Inv, Fresh
  <2>2. \A c \in Buf : c # h => blockno[c] # blockno[h]
    BY <1>4, Zenon DEF Inv, Cached
  <2>3. blockno[h] \notin failed => irq = "ok"
    BY <1>1, Zenon DEF Inv, Queue, TypeInv
  <2>4. CleanIsOnDisk
    BY Zenon DEF Inv, Fresh
  <2>5. ASSUME NEW c \in Buf, valid'[c], blockno[c] \notin failed PROVE data'[c] = latest[blockno[c]]
    <3>1. CASE c # h
      BY <1>5, <2>5, <3>1, Zenon DEF Inv, Fresh
    <3>2. CASE c = h /\ dirty[h]
      BY <1>4, <1>5, <2>1, <2>5, <3>2, Zenon DEF Inv, Flags
    <3>3. CASE c = h /\ ~dirty[h]
      <4>1. data'[h] = disk[blockno[h]]
        BY <1>5, <2>3, <2>5, <3>3, Zenon
      <4>2. disk[blockno[h]] = latest[blockno[h]]
        BY <1>4, <2>2, <2>4, <2>5, <3>3, Zenon DEF CleanIsOnDisk
      <4> QED BY <3>3, <4>1, <4>2, Zenon
    <3> QED BY <3>1, <3>2, <3>3, Zenon
  <2>6. CleanIsOnDisk'
    <3> SUFFICES ASSUME NEW k \in Block, k \notin failed
                 PROVE  disk[k] = latest[k] \/ \E c \in Buf : blockno[c] = k /\ dirty'[c]
      BY <1>1, Zenon DEF CleanIsOnDisk
    <3>1. CASE k = blockno[h] /\ dirty[h]
      <4>1. valid[h] /\ data[h] = latest[k]
        BY <1>4, <2>1, <3>1, Zenon DEF Inv, Flags
      <4>2. disk[k] = data[h]
        BY <2>3, <3>1, Zenon DEF Inv, Queue
      <4> QED BY <4>1, <4>2, Zenon
    <3>2. CASE ~(k = blockno[h] /\ dirty[h])
      BY <1>5, <2>4, <3>2, Zenon DEF CleanIsOnDisk
    <3> QED BY <3>1, <3>2, Zenon
  <2> QED BY <1>1, <2>5, <2>6, Zenon DEF Fresh
<1> QED BY <1>9, <1>10, <1>11, <1>12, <1>13, <1>14, Zenon DEF Inv

-----------------------------------------------------------------------------
(* The cache never runs out of buffers *)

\* A process that asks for a buffer finds one: the others hold at most one
\* each, and the log pins at most MaxPinned.
LEMMA BufferLeft ==
  ASSUME Inv, PinInv, NEW p \in Proc, pc[p] = "idle"
  PROVE  \E b \in Buf : Recyclable(b)
<1> SUFFICES ASSUME \A b \in Buf : ~Recyclable(b) PROVE FALSE
  BY Zenon
<1> DEFINE S == {q \in Proc : mine[q] \in Buf}
           T == {b \in Buf : refcnt[b] # 0}
           f == [q \in S |-> mine[q]]
<1>1. \A b \in T : \E q \in S : mine[q] = b
  <2> SUFFICES ASSUME NEW b \in Buf, refcnt[b] # 0 PROVE \E q \in Proc : mine[q] = b
    BY Zenon
  <2>1. Cardinality(Users(mine, b)) # 0
    BY Zenon DEF Inv, Cached
  <2>2. Users(mine, b) # {}
    BY <2>1, FS_EmptySet, Zenon
  <2> QED BY <2>2, Zenon DEF Users
<1>2. \A q \in S : mine[q] \in T
  BY UnusedBuffer, Zenon DEF Inv
<1>3. f \in Surjection(S, T)
  BY <1>1, <1>2, Zenon DEF Surjection
<1>4. S \in SUBSET (Proc \ {p})
  <2>1. mine[p] = None
    BY Zenon DEF Inv, Cached
  <2> QED BY <2>1, BlockIOAssumption, Zenon
<1>5. Buf \subseteq T \cup Pinned
  <2>1. ASSUME NEW b \in Buf, refcnt[b] = 0 PROVE b \in Pinned
    <3>1. dirty[b]
      BY <2>1, Zenon DEF Recyclable
    <3>2. \A q \in Proc : mine[q] # b
      BY <2>1, UnusedBuffer, Zenon DEF Inv
    <3> QED BY <3>1, <3>2, Zenon DEF Pinned
  <2> QED BY <2>1, Zenon
<1>6. T \subseteq Buf /\ Pinned \subseteq Buf
  BY Zenon DEF Pinned
<1> HIDE DEF S, T, f
<1>7. /\ IsFiniteSet(Proc \ {p}) /\ Cardinality(Proc \ {p}) = Cardinality(Proc) - 1
      /\ Cardinality(Proc) \in Nat
  BY BlockIOAssumption, FS_RemoveElement, FS_CardinalityType, Zenon
<1>8. IsFiniteSet(S) /\ Cardinality(S) <= Cardinality(Proc \ {p})
  BY <1>4, <1>7, FS_Subset, Zenon
<1>9. IsFiniteSet(T) /\ Cardinality(T) <= Cardinality(S)
  BY <1>3, <1>8, FS_Surjection, Zenon
<1>10. IsFiniteSet(Buf) /\ Cardinality(Buf) = NBUF
  <2>1. NBUF \in Nat
    BY BlockIOAssumption, Zenon
  <2>2. IsFiniteSet(1 .. NBUF) /\ Cardinality(1 .. NBUF) = IF 1 > NBUF THEN 0 ELSE NBUF - 1 + 1
    BY <2>1, FS_Interval
  <2> QED BY <2>1, <2>2 DEF Buf
<1>11. IsFiniteSet(Pinned)
  BY <1>6, <1>10, FS_Subset, Zenon
<1>12. /\ IsFiniteSet(T \cup Pinned)
       /\ Cardinality(T \cup Pinned) = Cardinality(T) + Cardinality(Pinned) - Cardinality(T \cap Pinned)
  BY <1>9, <1>11, FS_Union, Zenon
<1>13. Cardinality(Buf) <= Cardinality(T \cup Pinned)
  BY <1>5, <1>12, FS_Subset, Zenon
<1>14. /\ Cardinality(S) \in Nat /\ Cardinality(T) \in Nat /\ Cardinality(Pinned) \in Nat
       /\ Cardinality(T \cap Pinned) \in Nat
  <2>1. T \cap Pinned \in SUBSET Pinned
    BY Zenon
  <2>2. IsFiniteSet(T \cap Pinned)
    BY <1>11, <2>1, FS_Subset, Zenon
  <2> QED BY <1>8, <1>9, <1>11, <2>2, FS_CardinalityType, Zenon
<1>15. NBUF \in Nat /\ MaxPinned \in Nat /\ Cardinality(Proc) + MaxPinned <= NBUF
  BY BlockIOAssumption, Zenon
<1>16. Cardinality(Pinned) <= MaxPinned
  BY Zenon DEF PinInv
<1> QED BY <1>7, <1>8, <1>9, <1>10, <1>12, <1>13, <1>14, <1>15, <1>16

\* Steps after which no other buffer is pinned.
LEMMA PinKept ==
  ASSUME PinInv,
         \A c \in Buf : dirty'[c] => dirty[c] \/ \E q \in Proc : pc'[q] = "iderw" /\ mine'[q] = c,
         \A q \in Proc : pc[q] \in {"iderw", "iosleep"} /\ dirty'[mine[q]] =>
                           pc'[q] \in {"iderw", "iosleep"} /\ mine'[q] = mine[q]
  PROVE  PinInv'
<1>1. Pinned' \in SUBSET Pinned
  BY Zenon DEF Pinned
<1>2. Pinned \in SUBSET (1 .. NBUF)
  BY Zenon DEF Pinned, Buf
<1>3. IsFiniteSet(1 .. NBUF)
  BY BlockIOAssumption, FS_Interval
<1>4. IsFiniteSet(Pinned)
  BY <1>2, <1>3, FS_Subset, Zenon
<1>5. IsFiniteSet(Pinned') /\ Cardinality(Pinned') <= Cardinality(Pinned)
  BY <1>1, <1>4, FS_Subset, Zenon
<1>6. Cardinality(Pinned) \in Nat /\ Cardinality(Pinned') \in Nat
  BY <1>4, <1>5, FS_CardinalityType, Zenon
<1> QED BY <1>5, <1>6, BlockIOAssumption DEF PinInv

\* log_write pins one more buffer, within the bound.
LEMMA PinLogWrite ==
  ASSUME Inv, PinInv, NEW p \in Proc, NEW v \in Val, log_write(p, v)
  PROVE  PinInv'
<1> DEFINE D == {d \in Buf : dirty[d]} \cup {mine[p]}
<1>1. pc[p] = "hold" /\ Cardinality(D) <= MaxPinned /\ dirty' = [dirty EXCEPT ![mine[p]] = TRUE]
  BY Zenon DEF log_write
<1>2. mine[p] \in Buf
  BY <1>1, UsesBuffer, Zenon
<1>3. Pinned' \in SUBSET D
  BY <1>1, Zenon DEF Pinned, Inv, TypeInv
<1>4. D \in SUBSET (1 .. NBUF)
  BY <1>2, Zenon DEF Buf
<1> HIDE DEF D
<1>5. IsFiniteSet(1 .. NBUF)
  BY BlockIOAssumption, FS_Interval
<1>6. IsFiniteSet(D)
  BY <1>4, <1>5, FS_Subset, Zenon
<1>7. IsFiniteSet(Pinned') /\ Cardinality(Pinned') <= Cardinality(D)
  BY <1>3, <1>6, FS_Subset, Zenon
<1>8. Cardinality(D) \in Nat /\ Cardinality(Pinned') \in Nat
  BY <1>6, <1>7, FS_CardinalityType, Zenon
<1> QED BY <1>1, <1>7, <1>8, BlockIOAssumption DEF PinInv

-----------------------------------------------------------------------------
(* The theorems *)

\* bwrite keeps the invariant, and does not panic.
LEMMA InvBwrite ==
  ASSUME Inv, PinInv, NEW p \in Proc, NEW v \in Val, bwrite(p, v)
  PROVE  Inv' /\ PinInv' /\ UNCHANGED panicked
<1>1. pc[p] = "hold" /\ owner[mine[p]] = p
  BY Zenon DEF bwrite, Inv, Locked, Holds
<1>2. /\ data' = [data EXCEPT ![mine[p]] = v]
      /\ latest' = [latest EXCEPT ![blockno[mine[p]]] = v]
      /\ dirty' = [dirty EXCEPT ![mine[p]] = TRUE]
      /\ pc' = [pc EXCEPT ![p] = "iderw"]
      /\ UNCHANGED <<lru, blockno, valid, refcnt, owner, ideVars, disk, mine, failed, panicked>>
  BY <1>1, Zenon DEF bwrite, Goto
<1>3. Inv'
  BY <1>1, <1>2, InvWrite, Zenon
<1>4. PinInv'
  <2>1. pc'[p] = "iderw" /\ \A q \in Proc : q # p => pc'[q] = pc[q]
    BY <1>2, Zenon DEF Inv, TypeInv
  <2>2. \A c \in Buf : dirty'[c] => dirty[c] \/ c = mine[p]
    BY <1>2, Zenon DEF Inv, TypeInv
  <2>3. \A c \in Buf : dirty'[c] => dirty[c] \/ \E q \in Proc : pc'[q] = "iderw" /\ mine'[q] = c
    BY <1>2, <2>1, <2>2, Zenon
  <2>4. \A q \in Proc : pc[q] \in {"iderw", "iosleep"} /\ dirty'[mine[q]] =>
                          pc'[q] \in {"iderw", "iosleep"} /\ mine'[q] = mine[q]
    BY <1>2, <2>1, Zenon
  <2> QED BY <2>3, <2>4, PinKept, Zenon
<1> QED BY <1>2, <1>3, <1>4, Zenon

\* log_write keeps the invariant.
LEMMA InvLogWrite ==
  ASSUME Inv, PinInv, NEW p \in Proc, NEW v \in Val, log_write(p, v)
  PROVE  Inv' /\ PinInv' /\ UNCHANGED panicked
<1>1. /\ pc[p] = "hold"
      /\ data' = [data EXCEPT ![mine[p]] = v]
      /\ latest' = [latest EXCEPT ![blockno[mine[p]]] = v]
      /\ dirty' = [dirty EXCEPT ![mine[p]] = TRUE]
      /\ pc' = pc
      /\ UNCHANGED <<lru, blockno, valid, refcnt, owner, ideVars, disk, mine, failed, panicked>>
  BY Zenon DEF log_write
<1>2. Inv'
  BY <1>1, InvWrite, Zenon
<1> QED BY <1>1, <1>2, PinLogWrite, Zenon

\* bget pins nothing, and always finds a buffer.
LEMMA BgetFinds ==
  ASSUME Inv, PinInv, NEW p \in Proc, NEW k \in Block, bget(p, k)
  PROVE  PinInv' /\ UNCHANGED panicked
<1>1. pc[p] = "idle"
  BY BgetCases, Zenon
<1>2. PICK b \in Buf : Hit(p, k, b) \/ Recycle(p, k, b)
  <2>1. PICK b \in Buf : Recyclable(b)
    BY <1>1, BufferLeft, Zenon
  <2>2. PICK i \in Buf : lru[i] = b
    BY Zenon DEF Inv, Listed, Whole
  <2>3. ~(\A j \in Buf : ~Recyclable(lru[j]))
    BY <2>1, <2>2, Zenon
  <2> QED BY <2>3, BgetCases, Zenon
<1>3. /\ UNCHANGED <<dirty, panicked>>
      /\ mine' = [mine EXCEPT ![p] = b] /\ pc' = [pc EXCEPT ![p] = "lock"]
  BY <1>2, Zenon DEF Hit, Recycle
<1>4. \A q \in Proc : q # p => pc'[q] = pc[q] /\ mine'[q] = mine[q]
  BY <1>3, Zenon DEF Inv, TypeInv
<1>5. \A q \in Proc : pc[q] \in {"iderw", "iosleep"} => pc'[q] = pc[q] /\ mine'[q] = mine[q]
  BY <1>1, <1>4, Zenon
<1>6. PinInv'
  BY <1>3, <1>5, PinKept, Zenon
<1> QED BY <1>3, <1>6, Zenon

\* The other steps of a process pin nothing either.
LEMMA PinClient ==
  ASSUME Inv, PinInv, NEW p \in Proc, Client(p)
  PROVE  PinInv'
<1>1. dirty' = dirty
  BY Zenon DEF Client, acquiresleep, iderw, iderw_test, releasesleep, brelse, panic, bufVars
<1>2. ASSUME NEW q \in Proc, pc[q] \in {"iderw", "iosleep"}
      PROVE  pc'[q] \in {"iderw", "iosleep"} /\ mine'[q] = mine[q]
  <2>1. CASE acquiresleep(p)
    <3>1. pc[p] = "lock" /\ mine' = mine /\ \E l \in Labels : pc' = [pc EXCEPT ![p] = l]
      BY <2>1, Zenon DEF acquiresleep, Goto, Labels
    <3> QED BY <1>2, <3>1, Zenon DEF Inv, TypeInv
  <2>2. CASE iderw(p)
    <3>1. mine' = mine /\ (pc' = pc \/ pc' = [pc EXCEPT ![p] = "iosleep"])
      BY <2>2, Zenon DEF iderw, Goto, panic
    <3> QED BY <1>2, <3>1, Zenon DEF Inv, TypeInv
  <2>3. CASE iderw_test(p)
    <3>1. pc[p] = "iotest" /\ mine' = mine /\ \E l \in Labels : pc' = [pc EXCEPT ![p] = l]
      BY <2>3, Zenon DEF iderw_test, Goto, Labels
    <3> QED BY <1>2, <3>1, Zenon DEF Inv, TypeInv
  <2>4. CASE releasesleep(p)
    <3>1. pc[p] = "hold" /\ mine' = mine
          /\ (pc' = pc \/ pc' = [Wakeup(mine[p], "locksleep", "lock") EXCEPT ![p] = "brelse"])
      BY <2>4, Zenon DEF releasesleep, panic
    <3> QED BY <1>2, <3>1, Zenon DEF Inv, TypeInv, Wakeup
  <2>5. CASE brelse(p)
    <3>1. pc[p] = "brelse" /\ mine' = [mine EXCEPT ![p] = None] /\ pc' = [pc EXCEPT ![p] = "idle"]
      BY <2>5, Zenon DEF brelse, Goto
    <3> QED BY <1>2, <3>1, Zenon DEF Inv, TypeInv
  <2> QED BY <2>1, <2>2, <2>3, <2>4, <2>5, Zenon DEF Client
<1> QED BY <1>1, <1>2, PinKept, Zenon

\* Nor do the disk and its interrupt.
LEMMA PinDisk ==
  ASSUME Inv, PinInv, disk_done \/ ideintr
  PROVE  PinInv'
<1>1. CASE disk_done
  <2>1. UNCHANGED <<dirty, pc, mine>>
    BY <1>1, Zenon DEF disk_done, bufVars
  <2> QED BY <2>1, PinKept, Zenon
<1>2. CASE ideintr
  <2> DEFINE h == Head(idequeue)
  <2>1. irq # "none" /\ dirty' = [dirty EXCEPT ![h] = FALSE]
        /\ mine' = mine /\ pc' = Wakeup(h, "iosleep", "iotest")
    BY <1>2, Zenon DEF ideintr
  <2>2. h \in Buf
    BY <2>1, HeadWaited, Zenon DEF Inv, Queue
  <2>3. ~dirty'[h] /\ \A c \in Buf : dirty'[c] => dirty[c]
    BY <2>1, <2>2, Zenon DEF Inv, TypeInv
  <2>4. \A q \in Proc : pc[q] \in {"iderw", "iosleep"} /\ dirty'[mine[q]] =>
                          pc'[q] \in {"iderw", "iosleep"} /\ mine'[q] = mine[q]
    BY <2>1, <2>3, Zenon DEF Wakeup
  <2> QED BY <2>3, <2>4, PinKept, Zenon
<1> QED BY <1>1, <1>2, Zenon

\* The invariant holds in the initial states.
LEMMA InvInit ==
  ASSUME Init
  PROVE  Inv /\ PinInv
<1> USE DEF Init
<1>1. TypeInv
  <2>1. NBUF \in Nat
    BY BlockIOAssumption, Zenon
  <2>2. lru \in [Buf -> Buf]
    BY <2>1 DEF Buf
  <2> QED BY <2>2 DEF TypeInv, Labels
<1>2. Listed
  <2>1. NBUF \in Nat
    BY BlockIOAssumption, Zenon
  <2>2. \A i \in Buf : NBUF + 1 - i \in Buf /\ NBUF + 1 - (NBUF + 1 - i) = i
    BY <2>1 DEF Buf
  <2>3. \A i, j \in Buf : lru[i] = lru[j] => i = j
    <3> SUFFICES ASSUME NEW i \in Buf, NEW j \in Buf, NBUF + 1 - i = NBUF + 1 - j PROVE i = j
      BY Zenon
    <3> QED BY <2>2, Zenon
  <2>4. \A b \in Buf : \E i \in Buf : lru[i] = b
    BY <2>2, Zenon
  <2>5. lru \in [Buf -> Buf]
    BY <2>2, Zenon
  <2> QED BY <2>3, <2>4, <2>5, Zenon DEF Listed, Whole
<1>3. Cached
  <2>1. \A b \in Buf : b # None
    BY BlockIOAssumption, Zenon
  <2>2. \A b \in Buf : Users(mine, b) = {}
    BY <2>1, Zenon DEF Users
  <2>3. Cardinality({}) = 0
    BY FS_EmptySet, Zenon
  <2> QED BY <2>2, <2>3, Zenon DEF Cached
<1>4. Locked /\ Flags
  BY Zenon DEF Locked, Flags, Holds, SleeperHasHolder
<1>5. Queue
  BY DEF Queue
<1>6. Fresh
  BY Zenon DEF Fresh, CleanIsOnDisk
<1>7. PinInv
  <2>1. Pinned = {}
    BY Zenon DEF Pinned
  <2>2. Cardinality({}) = 0
    BY FS_EmptySet, Zenon
  <2> QED BY <2>1, <2>2, BlockIOAssumption DEF PinInv
<1> QED BY <1>1, <1>2, <1>3, <1>4, <1>5, <1>6, <1>7, Zenon DEF Inv

\* Every step keeps the invariant, and none panics.
LEMMA Inductive ==
  ASSUME Inv, PinInv, ~panicked, [Next]_vars
  PROVE  Inv' /\ PinInv' /\ ~panicked'
<1>1. ASSUME NEW p \in Proc, Client(p) PROVE Inv' /\ PinInv' /\ ~panicked'
  <2>1. CASE acquiresleep(p)
    <3>1. UNCHANGED panicked
      BY <2>1, Zenon DEF acquiresleep
    <3> QED BY <1>1, <2>1, <3>1, InvAcquire, PinClient, Zenon
  <2>2. CASE iderw(p)
    BY <1>1, <2>2, InvIderw, PinClient, Zenon
  <2>3. CASE iderw_test(p)
    <3>1. UNCHANGED panicked
      BY <2>3, Zenon DEF iderw_test
    <3> QED BY <1>1, <2>3, <3>1, InvIderwTest, PinClient, Zenon
  <2>4. CASE releasesleep(p)
    BY <1>1, <2>4, InvRelease, PinClient, Zenon
  <2>5. CASE brelse(p)
    <3>1. UNCHANGED panicked
      BY <2>5, Zenon DEF brelse
    <3> QED BY <1>1, <2>5, <3>1, InvBrelse, PinClient, Zenon
  <2> QED BY <1>1, <2>1, <2>2, <2>3, <2>4, <2>5, Zenon DEF Client
<1>2. ASSUME NEW p \in Proc, NEW k \in Block, bget(p, k) PROVE Inv' /\ PinInv' /\ ~panicked'
  BY <1>2, InvBget, BgetFinds, Zenon
<1>3. ASSUME NEW p \in Proc, NEW v \in Val, bwrite(p, v) \/ log_write(p, v)
      PROVE  Inv' /\ PinInv' /\ ~panicked'
  BY <1>3, InvBwrite, InvLogWrite, Zenon
<1>4. CASE disk_done
  <2>1. UNCHANGED panicked
    BY <1>4, Zenon DEF disk_done
  <2> QED BY <1>4, <2>1, InvDone, PinDisk, Zenon
<1>5. CASE ideintr
  <2>1. UNCHANGED panicked
    BY <1>5, Zenon DEF ideintr
  <2> QED BY <1>5, <2>1, InvIntr, PinDisk, Zenon
<1>6. CASE UNCHANGED vars
  <2>1. UNCHANGED <<lru, bufVars, owner, ideVars, disk, pc, mine, ghosts, panicked>>
    BY <1>6, Zenon DEF vars
  <2>2. Inv'
    BY <2>1, InvPanic, Zenon
  <2>3. UNCHANGED <<dirty, pc, mine>>
    BY <2>1, Zenon DEF bufVars
  <2>4. PinInv'
    BY <2>3, PinKept, Zenon
  <2> QED BY <2>1, <2>2, <2>4, Zenon
<1> QED BY <1>1, <1>2, <1>3, <1>4, <1>5, <1>6, Zenon DEF Next

\* In every reachable state.
LEMMA Invariance == Spec => [](Inv /\ PinInv /\ ~panicked)
<1>1. Init => Inv /\ PinInv /\ ~panicked
  <2>1. Init => ~panicked
    BY Zenon DEF Init
  <2> QED BY <2>1, InvInit, Zenon
<1>2. Inv /\ PinInv /\ ~panicked /\ [Next]_vars => (Inv /\ PinInv /\ ~panicked)'
  BY Inductive, Zenon
<1> QED BY <1>1, <1>2, PTL DEF Spec

\* However bget, brelse and the sleep locks interleave, no block is in two
\* buffers, every reference is counted and only the lock's holder uses a buffer.
THEOREM BlockHasOneBuffer == Spec => []OneBufferPerBlock
<1>1. Inv => OneBufferPerBlock
  BY Zenon DEF Inv, Cached, Locked, OneBufferPerBlock, Users
<1> QED BY <1>1, Invariance, PTL

\* bread returns the last value any process gave to the block, unless a command
\* for the block has failed: neither recycling a buffer, nor the order of the
\* requests, nor a wakeup can lose a write.
THEOREM BreadReadsLastWrite == Spec => []ReadsLastWrite
<1>1. Inv => ReadsLastWrite
  <2> SUFFICES ASSUME Inv, NEW p \in Proc, pc[p] = "hold", blockno[mine[p]] \notin failed
               PROVE  data[mine[p]] = latest[blockno[mine[p]]]
    BY Zenon DEF ReadsLastWrite
  <2>1. mine[p] \in Buf /\ valid[mine[p]]
    BY UsesBuffer, Zenon DEF Inv, Flags
  <2> QED BY <2>1, Zenon DEF Inv, Fresh
<1> QED BY <1>1, Invariance, PTL

\* What bget forgets when it recycles a clean buffer is on the disk.
THEOREM RecycledIsOnDisk == Spec => []CleanIsOnDisk
<1>1. Inv => CleanIsOnDisk
  BY Zenon DEF Inv, Fresh
<1> QED BY <1>1, Invariance, PTL

\* The driver's queue and the disk agree: iderw and ideintr neither lose nor
\* repeat a request, and the command that runs is the first one's.
THEOREM DriverServesQueue == Spec => []QueueMatchesDisk
<1>1. Inv => QueueMatchesDisk
  <2> SUFFICES ASSUME Inv PROVE QueueMatchesDisk
    BY Zenon
  <2>1. idequeue \in Seq(Buf)
    BY Zenon DEF Inv, TypeInv
  <2>2. IsInjective(idequeue)
    BY <2>1 DEF Inv, Queue, IsInjective
  <2>3. dev # NoCmd => dev.block = blockno[Head(idequeue)]
    BY DEF Inv, Queue, idestart
  <2> QED BY <2>2, <2>3, Zenon DEF Inv, Queue, QueueMatchesDisk
<1> QED BY <1>1, Invariance, PTL

\* A process asleep in acquiresleep has a holder that will wake it.
THEOREM LockSleeperHasHolder == Spec => []SleeperHasHolder
<1>1. Inv => SleeperHasHolder
  BY Zenon DEF Inv, Locked
<1> QED BY <1>1, Invariance, PTL

\* With a buffer for every process and every pinned block, none of the panics
\* of bget, bwrite, brelse and iderw is reached.
THEOREM CacheNeverPanics == Spec => []NoPanic
<1>1. ~panicked => NoPanic
  BY Zenon DEF NoPanic
<1> QED BY <1>1, Invariance, PTL

=============================================================================
