------------------------------ MODULE LogProof ------------------------------
(***************************************************************************)
(* Proofs about Log, for every number of blocks, values and processes and  *)
(* every log geometry allowed by LogAssumption.                            *)
(***************************************************************************)
EXTENDS Log, FiniteSetTheorems, TLAPS

CommitStages == {"write_log", "write_head", "install", "clear_head", "finish"}
OpProcs == {p \in Proc : pc[p] = "op"}

\* log.committing is set exactly while commit() runs, and outstanding counts
\* the processes between begin_op and end_op; none is there during a commit.
CountInv ==
  /\ outstanding = Cardinality(OpProcs)
  /\ committing <=> stage \in CommitStages
  /\ committing \/ Booting => OpProcs = {}

\* The log never names a block twice (log_write absorbs).
DistinctInv ==
  /\ \A i, j \in 1 .. Len(lh) : lh[i] = lh[j] => i = j
  /\ \A i, j \in 1 .. Len(hd) : hd[i] = hd[j] => i = j

\* The on-disk header is empty up to the commit point, and then equals the
\* in-memory one until it is cleared.
HeaderInv ==
  /\ stage \in {"none", "write_log", "write_head", "finish"} => hd = <<>>
  /\ stage \in {"install", "clear_head", "recover", "recover_clear"} => hd = lh
  /\ stage = "finish" => lh = <<>>

\* Blocks not pinned are clean, and only blocks still to be installed are
\* pinned.
PinInv ==
  /\ ~panicked /\ ~Booting => \A b \in Block : b \notin dirty => cache[b] = disk[b]
  /\ Booting => cache = disk /\ dirty = {}
  /\ \A b \in dirty : \E i \in 1 .. Len(lh) :
       lh[i] = b /\ (stage = "install" => i > tail)
  /\ stage = "clear_head" => dirty = {}

\* What the loops of write_log() and install_trans() have copied so far.
CopyInv ==
  /\ stage = "write_log" => \A i \in 1 .. tail : logd[i] = cache[lh[i]]
  /\ stage \in {"write_head", "install", "clear_head"} =>
       \A i \in 1 .. Len(lh) : logd[i] = cache[lh[i]]
  /\ stage = "recover" => \A i \in 1 .. tail : disk[lh[i]] = logd[i]
  /\ stage = "recover_clear" => \A i \in 1 .. Len(lh) : disk[lh[i]] = logd[i]
  /\ stage = "read_head" => tail = 0
  /\ stage = "write_head" => Len(lh) > 0

\* Only log_write panics, with no commit in progress.
PanicInv == panicked => stage = "none"

IInv == TypeOK /\ CountInv /\ DistinctInv /\ HeaderInv /\ PinInv /\ CopyInv
          /\ PanicInv
-----------------------------------------------------------------------------

\* The invariant holds when the file system has just been made.
LEMMA InitInv == Init => IInv
<1> SUFFICES ASSUME Init PROVE IInv
  BY Zenon
<1>1. OpProcs = {} /\ Cardinality(OpProcs) = 0
  BY FS_EmptySet, Zenon DEF Init, OpProcs
<1>2. TypeOK
  <2>1. logd \in [Slots -> Val]
    BY Zenon DEF Init
  <2>2. /\ hd \in Seq(Block) /\ Len(hd) <= LOGSIZE
        /\ lh \in Seq(Block) /\ Len(lh) <= LOGSIZE
    BY LogAssumption DEF Init
  <2>3. pc \in [Proc -> PCs] /\ used \in [Proc -> SUBSET Block]
    BY Zenon DEF Init, PCs
  <2>4. disk \in [Block -> Val] /\ cache \in [Block -> Val] /\ dirty \in SUBSET Block
    BY Zenon DEF Init
  <2>5. stage \in Stages /\ stage \notin {"write_log", "install", "recover"}
    BY Zenon DEF Init, Stages
  <2>6. outstanding \in Nat /\ tail \in Nat /\ committing \in BOOLEAN /\ panicked \in BOOLEAN
    BY Zenon DEF Init
  <2> QED
    BY <2>1, <2>2, <2>3, <2>4, <2>5, <2>6, Zenon DEF TypeOK
<1>3. CountInv
  BY <1>1, Zenon DEF Init, CountInv, CommitStages
<1>4. DistinctInv /\ HeaderInv /\ PinInv /\ CopyInv /\ PanicInv
  BY DEF Init, DistinctInv, HeaderInv, PinInv, CopyInv, PanicInv, Booting
<1> QED
  BY <1>2, <1>3, <1>4, Zenon DEF IInv

\* While an operation is in progress no commit is, and it is counted.
LEMMA OpFacts ==
  ASSUME IInv, Running, NEW p \in Proc, pc[p] = "op"
  PROVE  /\ ~committing /\ stage = "none" /\ hd = <<>> /\ ~panicked
         /\ outstanding \in Nat /\ outstanding >= 1 /\ IsFiniteSet(OpProcs)
<1>1. p \in OpProcs
  BY Zenon DEF OpProcs
<1>2. ~committing /\ stage = "none" /\ hd = <<>> /\ ~panicked
  BY <1>1, Zenon DEF IInv, CountInv, TypeOK, Stages, CommitStages, Booting, HeaderInv, Running
<1>3. IsFiniteSet(OpProcs)
  BY FS_Subset, LogAssumption, Zenon DEF OpProcs
<1>4. outstanding \in Nat /\ outstanding # 0
  BY <1>1, <1>3, FS_EmptySet, FS_CardinalityType, Zenon DEF IInv, CountInv
<1> QED
  BY <1>2, <1>3, <1>4

\* begin_op, asleep or admitted, preserves the invariant (log.c:124-141).
LEMMA Begin_opInv ==
  ASSUME IInv, NEW p \in Proc, begin_op(p)
  PROVE  IInv'
<1>1. TypeOK'
  BY LogAssumption, SMTT(60) DEF IInv, begin_op, Running, durable, TypeOK, PCs, Stages, Slots, Wakeup, Absorb, TooBig
<1>2. CountInv'
  <2>1. CASE MustWait
    <3>1. OpProcs' = OpProcs
      BY <2>1, Zenon DEF begin_op, OpProcs, IInv, TypeOK
    <3> QED
      BY <2>1, <3>1, Zenon DEF IInv, CountInv, begin_op, Booting, CommitStages
  <2>2. CASE ~MustWait
    <3>1. OpProcs' = OpProcs \cup {p} /\ p \notin OpProcs
      BY <2>2, Zenon DEF begin_op, OpProcs, IInv, TypeOK
    <3>2. Cardinality(OpProcs') = Cardinality(OpProcs) + 1
      BY <3>1, FS_Subset, FS_AddElement, LogAssumption, Zenon DEF OpProcs
    <3> QED
      BY <2>2, <3>2, Zenon
      DEF IInv, CountInv, begin_op, MustWait, Running, Booting, CommitStages
  <2> QED
    BY <2>1, <2>2, Zenon
<1>3. DistinctInv'
  BY LogAssumption, Zenon DEF IInv, begin_op, Running, durable, DistinctInv, TypeOK
<1>4. HeaderInv'
  BY LogAssumption, Zenon DEF IInv, begin_op, Running, durable, HeaderInv, TypeOK, Booting
<1>5. PinInv'
  BY LogAssumption, Zenon DEF IInv, begin_op, Running, durable, PinInv, TypeOK, Booting
<1>6. CopyInv'
  BY LogAssumption, Zenon DEF IInv, begin_op, Running, durable, CopyInv, TypeOK, Booting
<1>7. PanicInv'
  BY LogAssumption, Zenon DEF IInv, begin_op, Running, durable, PanicInv, Booting
<1> QED
  BY <1>1, <1>2, <1>3, <1>4, <1>5, <1>6, <1>7, Zenon DEF IInv

\* log_write preserves the invariant: it writes inside an operation, into a
\* fresh entry or one that holds the same block (log.c:204-233).
LEMMA Log_writeInv ==
  ASSUME IInv, NEW p \in Proc, NEW b \in Block, NEW v \in Val, log_write(p, b, v)
  PROVE  IInv'
<1>1. ~committing /\ stage = "none" /\ hd = <<>> /\ outstanding >= 1
  BY OpFacts, Zenon DEF log_write
<1>2. Len(lh) \in Nat /\ lh \in Seq(Block)
  BY DEF IInv, TypeOK
<1>3. OpProcs' = OpProcs
  BY Zenon DEF log_write, OpProcs
<1>4. CASE TooBig \/ OutsideTrans
  <2>1. TypeOK'
    BY <1>4, Zenon DEF IInv, log_write, durable, TypeOK
  <2>2. CountInv' /\ DistinctInv' /\ HeaderInv' /\ PanicInv'
    BY <1>1, <1>3, <1>4
    DEF IInv, log_write, durable, CountInv, DistinctInv, HeaderInv, PanicInv,
        CommitStages, Booting
  <2>3. PinInv' /\ CopyInv'
    BY <1>1, <1>4, Zenon DEF IInv, log_write, durable, PinInv, CopyInv, Booting
  <2> QED
    BY <2>1, <2>2, <2>3, Zenon DEF IInv
<1>5. CASE ~(TooBig \/ OutsideTrans)
  <2>1. /\ lh' \in Seq(Block) /\ Len(lh') <= LOGSIZE
        /\ b \in Logged(lh')
        /\ Len(lh) <= Len(lh')
        /\ \A i \in 1 .. Len(lh) : lh'[i] = lh[i]
        /\ \A i, j \in 1 .. Len(lh') : lh'[i] = lh'[j] => i = j
    <3>1. CASE b \in Logged(lh)
      BY <1>2, <1>5, <3>1 DEF log_write, Absorb, IInv, TypeOK, DistinctInv
    <3>2. CASE b \notin Logged(lh)
      <4>1. lh' = Append(lh, b)
        BY <1>5, <3>2, Zenon DEF log_write, Absorb
      <4>2. /\ Len(lh') = Len(lh) + 1 /\ lh' \in Seq(Block)
            /\ lh'[Len(lh) + 1] = b
            /\ \A i \in 1 .. Len(lh) : lh'[i] = lh[i]
        BY <1>2, <4>1
      <4>3. \A i \in 1 .. Len(lh) : lh[i] # b
        BY <3>2, Zenon DEF Logged
      <4>4. Len(lh') <= LOGSIZE
        BY <1>2, <1>5, <4>2, LogAssumption DEF TooBig
      <4>5. b \in Logged(lh')
        BY <1>2, <4>2 DEF Logged
      <4>6. \A i, j \in 1 .. Len(lh') : lh'[i] = lh'[j] => i = j
        BY <1>2, <4>2, <4>3 DEF IInv, DistinctInv
      <4> QED
        BY <1>2, <4>2, <4>4, <4>5, <4>6
    <3> QED
      BY <3>1, <3>2, Zenon
  <2>2. TypeOK'
    BY <1>1, <1>5, <2>1 DEF IInv, log_write, durable, TypeOK
  <2>3. CountInv' /\ DistinctInv' /\ HeaderInv' /\ PanicInv'
    BY <1>1, <1>3, <1>5, <2>1
    DEF IInv, log_write, durable, CountInv, DistinctInv, HeaderInv, PanicInv,
        CommitStages, Booting
  <2>4. PinInv'
    <3>1. \A c \in dirty' : \E i \in 1 .. Len(lh') : lh'[i] = c
      <4> SUFFICES ASSUME NEW c \in dirty'
                   PROVE  \E i \in 1 .. Len(lh') : lh'[i] = c
        BY Zenon
      <4>1. CASE c = b
        BY <2>1, <4>1, Zenon DEF Logged
      <4>2. CASE c \in dirty
        <5>1. PICK i \in 1 .. Len(lh) : lh[i] = c
          BY <4>2, Zenon DEF IInv, PinInv
        <5>2. i \in 1 .. Len(lh') /\ lh'[i] = c
          BY <1>2, <2>1, <5>1
        <5> QED
          BY <5>2, Zenon
      <4> QED
        BY <1>5, <4>1, <4>2, Zenon DEF log_write
    <3>2. \A c \in Block : c \notin dirty' => cache'[c] = disk'[c]
      BY <1>1, <1>5, Zenon DEF IInv, PinInv, log_write, durable, TypeOK, Booting, Running
    <3> QED
      BY <1>1, <3>1, <3>2, Zenon DEF log_write, PinInv, Booting
  <2>5. CopyInv'
    BY <1>1, Zenon DEF IInv, log_write, durable, CopyInv
  <2> QED
    BY <2>2, <2>3, <2>4, <2>5, Zenon DEF IInv
<1> QED
  BY <1>4, <1>5, Zenon

\* end_op preserves the invariant; the last one starts the commit
\* (log.c:143-174).
LEMMA End_opInv ==
  ASSUME IInv, NEW p \in Proc, end_op(p)
  PROVE  IInv'
<1>1. /\ ~committing /\ stage = "none" /\ hd = <<>> /\ ~panicked
      /\ outstanding \in Nat /\ outstanding >= 1 /\ IsFiniteSet(OpProcs)
  BY OpFacts, Zenon DEF end_op
<1>2. /\ OpProcs' = OpProcs \ {p} /\ p \in OpProcs
      /\ outstanding' = Cardinality(OpProcs')
  <2>1. OpProcs' = OpProcs \ {p} /\ p \in OpProcs
    BY <1>1, Zenon DEF end_op, OpProcs, IInv, TypeOK, Wakeup
  <2> QED
    BY <1>1, <2>1, FS_RemoveElement, Zenon DEF end_op, IInv, CountInv
<1>3. Len(lh) \in Nat /\ (lh # <<>> => Len(lh) > 0)
  BY DEF IInv, TypeOK
<1>4. CASE outstanding = 1
  <2>1. /\ committing' = TRUE /\ tail' = 0 /\ panicked' = panicked
        /\ pc' = [pc EXCEPT ![p] = "commit"]
        /\ stage' = IF lh = <<>> THEN "finish" ELSE "write_log"
    BY <1>1, <1>4, Zenon DEF end_op
  <2>2. TypeOK'
    BY <1>1, <1>3, <1>4, <2>1 DEF IInv, end_op, durable, TypeOK, PCs, Stages
  <2>3. CountInv'
    <3>1. OpProcs' = {}
      <4>1. IsFiniteSet(OpProcs')
        BY <1>1, <1>2, FS_RemoveElement, Zenon
      <4> QED
        BY <1>2, <1>4, <4>1, FS_EmptySet DEF end_op
    <3> QED
      BY <1>2, <2>1, <3>1, Zenon DEF CountInv, CommitStages
  <2>4. DistinctInv' /\ HeaderInv' /\ PanicInv'
    BY <1>1, <2>1 DEF IInv, end_op, durable, DistinctInv, HeaderInv, PanicInv
  <2>5. PinInv' /\ CopyInv'
    BY <1>1, <2>1 DEF IInv, end_op, durable, PinInv, CopyInv, Booting
  <2> QED
    BY <2>2, <2>3, <2>4, <2>5, Zenon DEF IInv
<1>5. CASE outstanding # 1
  <2>1. /\ pc' = Wakeup([pc EXCEPT ![p] = "idle"])
        /\ UNCHANGED <<committing, stage, tail, panicked>>
    BY <1>1, <1>5, Zenon DEF end_op
  <2>2. TypeOK'
    BY <1>1, <1>5, <2>1 DEF IInv, end_op, durable, TypeOK, PCs, Wakeup
  <2>3. CountInv' /\ DistinctInv' /\ HeaderInv' /\ PanicInv'
    BY <1>1, <1>2, <2>1
    DEF IInv, end_op, durable, CountInv, DistinctInv, HeaderInv, PanicInv,
        CommitStages, Booting
  <2>4. PinInv' /\ CopyInv'
    BY <1>1, <2>1, Zenon DEF IInv, end_op, durable, PinInv, CopyInv, Booting
  <2> QED
    BY <2>2, <2>3, <2>4, Zenon DEF IInv
<1> QED
  BY <1>4, <1>5, Zenon

\* Copying the cached blocks to the log preserves the invariant
\* (log.c:176-190).
LEMMA Write_logInv ==
  ASSUME IInv, write_log
  PROVE  IInv'
<1>1. TypeOK'
  BY LogAssumption DEF IInv, write_log, Running, durable, TypeOK, PCs, Stages, Slots, Wakeup, Absorb, TooBig
<1>2. CountInv'
  BY LogAssumption, Zenon DEF IInv, write_log, Running, durable, CountInv, OpProcs, CommitStages, Booting, TypeOK, Wakeup
<1>3. DistinctInv'
  BY LogAssumption, Zenon DEF IInv, write_log, Running, durable, DistinctInv, TypeOK
<1>4. HeaderInv'
  BY LogAssumption, Zenon DEF IInv, write_log, Running, durable, HeaderInv, TypeOK, Booting
<1>5. PinInv'
  BY LogAssumption, Zenon DEF IInv, write_log, Running, durable, PinInv, TypeOK, Booting
<1>6. CopyInv'
  <2>1. /\ tail \in Nat /\ tail < Len(lh) /\ Len(lh) <= LOGSIZE /\ Len(lh) \in Nat
        /\ logd \in [1 .. LOGSIZE -> Val] /\ LOGSIZE \in Nat
    BY LogAssumption DEF IInv, TypeOK, write_log, Slots
  <2>2. \A i \in 1 .. tail + 1 : logd'[i] = cache[lh[i]]
    BY <2>1 DEF IInv, CopyInv, write_log
  <2> QED
    BY <2>1, <2>2 DEF CopyInv, write_log
<1>7. PanicInv'
  BY LogAssumption, Zenon DEF IInv, write_log, Running, durable, PanicInv, Booting
<1> QED
  BY <1>1, <1>2, <1>3, <1>4, <1>5, <1>6, <1>7, Zenon DEF IInv

\* The commit point preserves the invariant: the log holds the cached blocks
\* (log.c:98-113).
LEMMA Write_headInv ==
  ASSUME IInv, write_head
  PROVE  IInv'
<1>1. TypeOK'
  BY Zenon DEF IInv, write_head, TypeOK, Stages, CopyInv
<1>2. CountInv'
  BY LogAssumption, Zenon DEF IInv, write_head, Running, durable, CountInv, OpProcs, CommitStages, Booting, TypeOK, Wakeup
<1>3. DistinctInv'
  BY LogAssumption, Zenon DEF IInv, write_head, Running, durable, DistinctInv, TypeOK
<1>4. HeaderInv'
  BY LogAssumption, Zenon DEF IInv, write_head, Running, durable, HeaderInv, TypeOK, Booting
<1>5. PinInv'
  BY LogAssumption DEF IInv, write_head, Running, durable, PinInv, TypeOK, Booting
<1>6. CopyInv'
  BY LogAssumption, Zenon DEF IInv, write_head, Running, durable, CopyInv, TypeOK, Booting
<1>7. PanicInv'
  BY LogAssumption, Zenon DEF IInv, write_head, Running, durable, PanicInv, Booting
<1> QED
  BY <1>1, <1>2, <1>3, <1>4, <1>5, <1>6, <1>7, Zenon DEF IInv

\* Installing one block preserves the invariant (log.c:68-82).
LEMMA Install_transInv ==
  ASSUME IInv, install_trans
  PROVE  IInv'
<1>1. TypeOK'
  BY LogAssumption DEF IInv, install_trans, InstallBlock, Running, durable, TypeOK, PCs, Stages, Slots, Wakeup, Absorb, TooBig
<1>2. CountInv'
  BY LogAssumption, Zenon DEF IInv, install_trans, InstallBlock, Running, durable, CountInv, OpProcs, CommitStages, Booting, TypeOK, Wakeup
<1>3. DistinctInv'
  BY LogAssumption, Zenon DEF IInv, install_trans, InstallBlock, Running, durable, DistinctInv, TypeOK
<1>4. HeaderInv'
  BY LogAssumption, Zenon DEF IInv, install_trans, InstallBlock, Running, durable, HeaderInv, TypeOK, Booting
<1>5. PinInv'
  BY LogAssumption DEF IInv, install_trans, InstallBlock, Running, durable, PinInv, TypeOK, Booting
<1>6. CopyInv'
  BY LogAssumption DEF IInv, install_trans, InstallBlock, Running, durable, CopyInv, TypeOK, Booting
<1>7. PanicInv'
  BY LogAssumption, Zenon DEF IInv, install_trans, InstallBlock, Running, durable, PanicInv, Booting
<1> QED
  BY <1>1, <1>2, <1>3, <1>4, <1>5, <1>6, <1>7, Zenon DEF IInv

\* Erasing the transaction preserves the invariant: every block is installed
\* (log.c:199-200).
LEMMA Clear_headInv ==
  ASSUME IInv, clear_head
  PROVE  IInv'
<1>1. TypeOK'
  BY LogAssumption DEF IInv, clear_head, Running, durable, TypeOK, PCs, Stages, Slots, Wakeup, Absorb, TooBig
<1>2. CountInv'
  BY LogAssumption, Zenon DEF IInv, clear_head, Running, durable, CountInv, OpProcs, CommitStages, Booting, TypeOK, Wakeup
<1>3. DistinctInv'
  BY LogAssumption DEF IInv, clear_head, Running, durable, DistinctInv, TypeOK
<1>4. HeaderInv'
  BY LogAssumption, Zenon DEF IInv, clear_head, Running, durable, HeaderInv, TypeOK, Booting
<1>5. PinInv'
  BY LogAssumption, Zenon DEF IInv, clear_head, Running, durable, PinInv, TypeOK, Booting
<1>6. CopyInv'
  BY LogAssumption, Zenon DEF IInv, clear_head, Running, durable, CopyInv, TypeOK, Booting
<1>7. PanicInv'
  BY LogAssumption, Zenon DEF IInv, clear_head, Running, durable, PanicInv, Booting
<1> QED
  BY <1>1, <1>2, <1>3, <1>4, <1>5, <1>6, <1>7, Zenon DEF IInv

\* The end of commit preserves the invariant (log.c:163-173).
LEMMA Commit_doneInv ==
  ASSUME IInv, NEW p \in Proc, commit_done(p)
  PROVE  IInv'
<1>1. TypeOK'
  BY LogAssumption, Zenon DEF IInv, commit_done, Running, durable, TypeOK, PCs, Stages, Slots, Wakeup, Absorb, TooBig
<1>2. CountInv'
  BY LogAssumption, Zenon DEF IInv, commit_done, Running, durable, CountInv, OpProcs, CommitStages, Booting, TypeOK, Wakeup
<1>3. DistinctInv'
  BY LogAssumption, Zenon DEF IInv, commit_done, Running, durable, DistinctInv, TypeOK
<1>4. HeaderInv'
  BY LogAssumption, Zenon DEF IInv, commit_done, Running, durable, HeaderInv, TypeOK, Booting
<1>5. PinInv'
  BY LogAssumption, Zenon DEF IInv, commit_done, Running, durable, PinInv, TypeOK, Booting
<1>6. CopyInv'
  BY LogAssumption, Zenon DEF IInv, commit_done, Running, durable, CopyInv, TypeOK, Booting
<1>7. PanicInv'
  BY LogAssumption, Zenon DEF IInv, commit_done, Running, durable, PanicInv, Booting
<1> QED
  BY <1>1, <1>2, <1>3, <1>4, <1>5, <1>6, <1>7, Zenon DEF IInv

\* Recycling a clean buffer preserves the invariant: what it held is the home
\* block (bio.c:76-90).
LEMMA Bget_recycleInv ==
  ASSUME IInv, NEW b \in Block, bget_recycle(b)
  PROVE  IInv'
<1>1. TypeOK'
  BY LogAssumption, Zenon DEF IInv, bget_recycle, Running, durable, TypeOK, PCs, Stages, Slots, Wakeup, Absorb, TooBig
<1>2. CountInv'
  BY LogAssumption, Zenon DEF IInv, bget_recycle, Running, durable, CountInv, OpProcs, CommitStages, Booting, TypeOK, Wakeup
<1>3. DistinctInv'
  BY LogAssumption, Zenon DEF IInv, bget_recycle, Running, durable, DistinctInv, TypeOK
<1>4. HeaderInv'
  BY LogAssumption, Zenon DEF IInv, bget_recycle, Running, durable, HeaderInv, TypeOK, Booting
<1>5. PinInv'
  BY LogAssumption, Zenon DEF IInv, bget_recycle, Running, durable, PinInv, TypeOK, Booting
<1>6. CopyInv'
  <2>1. cache' = cache
    BY Zenon DEF IInv, bget_recycle, Running, PinInv, TypeOK
  <2> QED
    BY <2>1, Zenon DEF IInv, bget_recycle, durable, CopyInv
<1>7. PanicInv'
  BY LogAssumption, Zenon DEF IInv, bget_recycle, Running, durable, PanicInv, Booting
<1> QED
  BY <1>1, <1>2, <1>3, <1>4, <1>5, <1>6, <1>7, Zenon DEF IInv

\* A crash at any point preserves the invariant: nothing of it is about
\* memory while the machine is down.
LEMMA CrashInv ==
  ASSUME IInv, Crash
  PROVE  IInv'
<1>1. TypeOK'
  <2>1. lh' \in Seq(Block) /\ Len(lh') <= LOGSIZE
    BY LogAssumption DEF Crash
  <2>2. pc' \in [Proc -> PCs] /\ used' \in [Proc -> SUBSET Block]
    BY Zenon DEF Crash, PCs
  <2>3. stage' \in Stages /\ stage' \notin {"write_log", "install", "recover"}
    BY Zenon DEF Crash, Stages
  <2>4. /\ outstanding' \in Nat /\ tail' \in Nat
        /\ committing' \in BOOLEAN /\ panicked' \in BOOLEAN
    BY Zenon DEF Crash
  <2>5. UNCHANGED durable /\ cache' = disk /\ dirty' = {}
    BY Zenon DEF Crash
  <2> QED
    BY <2>1, <2>2, <2>3, <2>4, <2>5, Zenon DEF IInv, durable, TypeOK
<1>2. CountInv'
  <2>1. OpProcs' = {} /\ Cardinality(OpProcs') = 0
    BY FS_EmptySet, Zenon DEF Crash, OpProcs
  <2> QED
    BY <2>1, Zenon DEF Crash, CountInv, CommitStages
<1>3. DistinctInv'
  BY LogAssumption DEF IInv, Crash, durable, DistinctInv, TypeOK
<1>4. HeaderInv'
  BY LogAssumption, Zenon DEF IInv, Crash, durable, HeaderInv, TypeOK, Booting
<1>5. PinInv'
  BY LogAssumption, Zenon DEF IInv, Crash, durable, PinInv, TypeOK, Booting
<1>6. CopyInv'
  BY LogAssumption, Zenon DEF IInv, Crash, durable, CopyInv, TypeOK, Booting
<1>7. PanicInv'
  BY LogAssumption, Zenon DEF IInv, Crash, durable, PanicInv, Booting
<1> QED
  BY <1>1, <1>2, <1>3, <1>4, <1>5, <1>6, <1>7, Zenon DEF IInv

\* Reading the header at boot preserves the invariant (log.c:84-96).
LEMMA Read_headInv ==
  ASSUME IInv, read_head
  PROVE  IInv'
<1>1. TypeOK'
  <2>1. tail = 0 /\ (hd # <<>> => Len(hd) > 0)
    BY DEF IInv, read_head, CopyInv, TypeOK
  <2> QED
    BY <2>1, Zenon DEF IInv, read_head, durable, TypeOK, Stages
<1>2. CountInv'
  BY LogAssumption, Zenon DEF IInv, read_head, durable, CountInv, OpProcs, CommitStages, Booting, TypeOK, Wakeup
<1>3. DistinctInv'
  BY LogAssumption, Zenon DEF IInv, read_head, durable, DistinctInv, TypeOK
<1>4. HeaderInv'
  BY LogAssumption, Zenon DEF IInv, read_head, durable, HeaderInv, TypeOK, Booting
<1>5. PinInv'
  BY LogAssumption, Zenon DEF IInv, read_head, durable, PinInv, TypeOK, Booting
<1>6. CopyInv'
  BY LogAssumption DEF IInv, read_head, durable, CopyInv, TypeOK, Booting
<1>7. PanicInv'
  BY LogAssumption, Zenon DEF IInv, read_head, durable, PanicInv, Booting
<1> QED
  BY <1>1, <1>2, <1>3, <1>4, <1>5, <1>6, <1>7, Zenon DEF IInv

\* Installing during recovery preserves the invariant (log.c:115-122).
LEMMA Recover_installInv ==
  ASSUME IInv, recover_install
  PROVE  IInv'
<1>1. TypeOK'
  BY LogAssumption DEF IInv, recover_install, InstallBlock, durable, TypeOK, PCs, Stages, Slots, Wakeup, Absorb, TooBig
<1>2. CountInv'
  BY LogAssumption, Zenon DEF IInv, recover_install, InstallBlock, durable, CountInv, OpProcs, CommitStages, Booting, TypeOK, Wakeup
<1>3. DistinctInv'
  BY LogAssumption, Zenon DEF IInv, recover_install, InstallBlock, durable, DistinctInv, TypeOK
<1>4. HeaderInv'
  BY LogAssumption, Zenon DEF IInv, recover_install, InstallBlock, durable, HeaderInv, TypeOK, Booting
<1>5. PinInv'
  BY LogAssumption, Zenon DEF IInv, recover_install, InstallBlock, durable, PinInv, TypeOK, Booting
<1>6. CopyInv'
  <2>1. /\ tail \in Nat /\ tail < Len(lh) /\ Len(lh) \in Nat
        /\ \A i \in 1 .. Len(lh) : lh[i] \in Block
    BY DEF IInv, TypeOK, recover_install
  <2>2. \A i \in 1 .. tail + 1 : disk'[lh[i]] = logd[i]
    BY <2>1 DEF IInv, CopyInv, DistinctInv, TypeOK, recover_install, InstallBlock
  <2> QED
    BY <2>1, <2>2, Zenon DEF CopyInv, recover_install, InstallBlock
<1>7. PanicInv'
  BY LogAssumption, Zenon DEF IInv, recover_install, InstallBlock, durable, PanicInv, Booting
<1> QED
  BY <1>1, <1>2, <1>3, <1>4, <1>5, <1>6, <1>7, Zenon DEF IInv

\* The end of recovery preserves the invariant (log.c:120-121).
LEMMA Recover_clearInv ==
  ASSUME IInv, recover_clear
  PROVE  IInv'
<1>1. TypeOK'
  BY LogAssumption DEF IInv, recover_clear, durable, TypeOK, PCs, Stages, Slots, Wakeup, Absorb, TooBig
<1>2. CountInv'
  BY LogAssumption, Zenon DEF IInv, recover_clear, durable, CountInv, OpProcs, CommitStages, Booting, TypeOK, Wakeup
<1>3. DistinctInv'
  BY LogAssumption DEF IInv, recover_clear, durable, DistinctInv, TypeOK
<1>4. HeaderInv'
  BY LogAssumption, Zenon DEF IInv, recover_clear, durable, HeaderInv, TypeOK, Booting
<1>5. PinInv'
  BY LogAssumption, Zenon DEF IInv, recover_clear, durable, PinInv, TypeOK, Booting
<1>6. CopyInv'
  BY LogAssumption, Zenon DEF IInv, recover_clear, durable, CopyInv, TypeOK, Booting
<1>7. PanicInv'
  BY LogAssumption, Zenon DEF IInv, recover_clear, durable, PanicInv, Booting
<1> QED
  BY <1>1, <1>2, <1>3, <1>4, <1>5, <1>6, <1>7, Zenon DEF IInv


\* Every step of log.c preserves the invariant.
LEMMA NextInv == IInv /\ [Next]_vars => IInv'
<1> SUFFICES ASSUME IInv, [Next]_vars PROVE IInv'
  BY Zenon
<1>1. CASE UNCHANGED vars
  BY <1>1
  DEF vars, IInv, TypeOK, CountInv, OpProcs, DistinctInv, HeaderInv, PinInv,
      CopyInv, PanicInv, Booting
<1>2. CASE Next
  BY <1>2, Begin_opInv, Log_writeInv, End_opInv, Write_logInv, Write_headInv,
     Install_transInv, Clear_headInv, Commit_doneInv, Bget_recycleInv, CrashInv,
     Read_headInv, Recover_installInv, Recover_clearInv, Zenon
  DEF Next, commit, recover_from_log
<1> QED
  BY <1>1, <1>2, Zenon

\* The inductive invariant of the logging layer holds in every reachable
\* state, crashes included.
THEOREM Invariance == Spec => []IInv
  BY InitInv, NextInv, PTL DEF Spec

\* The state of struct log and of the disk stays well typed: in particular
\* log.lh.block[] is never indexed past LOGSIZE (log.c:229).
THEOREM TypeCorrect == Spec => []TypeOK
<1>1. IInv => TypeOK
  BY Zenon DEF IInv
<1> QED
  BY <1>1, Invariance, PTL

\* When end_op returns from commit(), all finished system calls are at their
\* home locations and the log on disk is empty (log.c:192-202).
THEOREM DurableWhenCommitReturns == Spec => []DurableAtReturn
<1>1. IInv => DurableAtReturn
  <2> SUFFICES ASSUME IInv, stage = "finish"
               PROVE  disk = cache /\ hd = <<>> /\ dirty = {}
    BY Zenon DEF DurableAtReturn
  <2>1. hd = <<>> /\ lh = <<>> /\ ~panicked /\ ~Booting
    BY Zenon DEF IInv, HeaderInv, PanicInv, Booting
  <2>2. dirty = {}
    BY <2>1 DEF IInv, PinInv, TypeOK
  <2>3. \A b \in Block : cache[b] = disk[b]
    BY <2>1, <2>2, Zenon DEF IInv, PinInv
  <2> QED
    BY <2>1, <2>2, <2>3 DEF IInv, TypeOK
<1> QED
  BY <1>1, Invariance, PTL

-----------------------------------------------------------------------------
(* Refinement.                                                             *)

\* Without log entries the overlay is the home blocks.
LEMMA OverlaidEmpty ==
  ASSUME NEW l, NEW d \in [Block -> Val]
  PROVE  Overlaid(<<>>, l, d) = d
<1>1. Logged(<<>>) = {}
  BY DEF Logged
<1> QED
  BY <1>1, Zenon DEF Overlaid

\* When every log block equals the block it names in f, and f agrees with the
\* home blocks elsewhere, the overlay is f.
LEMMA OverlaidIs ==
  ASSUME NEW h \in Seq(Block), NEW l, NEW d, NEW f \in [Block -> Val],
         \A i \in 1 .. Len(h) : l[i] = f[h[i]],
         \A b \in Block : b \notin Logged(h) => d[b] = f[b]
  PROVE  Overlaid(h, l, d) = f
<1>1. ASSUME NEW b \in Block, b \in Logged(h)
      PROVE  l[CHOOSE i \in 1 .. Len(h) : h[i] = b] = f[b]
  BY <1>1, Zenon DEF Logged
<1> QED
  BY <1>1, ZenonT(60) DEF Overlaid

\* A step of install_trans overwrites a home block that the log overlays, so
\* a crash in the middle of it changes nothing.
LEMMA StableInstall ==
  ASSUME IInv, InstallBlock, hd = lh, tail < Len(lh)
  PROVE  Stable' = Stable
<1>1. lh[tail + 1] \in Logged(hd)
  <2>1. tail + 1 \in 1 .. Len(lh)
    BY DEF IInv, TypeOK
  <2> QED
    BY <2>1, Zenon DEF Logged
<1>2. hd' = hd /\ logd' = logd
  BY Zenon DEF InstallBlock
<1>3. \A b \in Block : b \notin Logged(hd) => disk'[b] = disk[b]
  BY <1>1, Zenon DEF InstallBlock, IInv, TypeOK
<1> QED
  BY <1>2, <1>3 DEF Stable, Overlaid

\* The initial states of Log are initial states of AtomicDisk.
LEMMA InitRefines == Init => AD!ADInit
<1> SUFFICES ASSUME Init PROVE AD!ADInit
  BY Zenon
<1>1. Stable = disk /\ disk \in [Block -> Val]
  BY OverlaidEmpty, Zenon DEF Init, Stable
<1>2. ~Booting /\ Open = {}
  BY Zenon DEF Init, Booting, Open
<1> QED
  BY <1>1, <1>2, Zenon DEF AD!ADInit, Current, Init

\* Every step of Log is a step of AtomicDisk or changes nothing it sees.
LEMMA NextRefines == IInv /\ IInv' /\ [Next]_vars => [AD!ADNext]_AD!adVars
<1> SUFFICES ASSUME IInv, IInv', [Next]_vars
             PROVE  AD!ADNext \/ UNCHANGED <<Stable, Current, Open>>
  BY Zenon DEF AD!adVars
<1> USE DEF AD!adVars
<1>1. ASSUME UNCHANGED durable PROVE Stable' = Stable
  BY <1>1, Zenon DEF durable, Stable
<1>2. CASE UNCHANGED vars
  BY <1>1, <1>2, Zenon DEF vars, durable, Current, Open, Booting
<1>3. ASSUME NEW p \in Proc, begin_op(p)
      PROVE  AD!Begin(p) \/ UNCHANGED <<Stable, Current, Open>>
  <2>1. Stable' = Stable /\ Current' = Current
    BY <1>1, <1>3, Zenon DEF begin_op, Current, Booting
  <2>2. CASE MustWait
    <3>1. Open' = Open
      BY <1>3, <2>2, Zenon DEF begin_op, Open, Booting, IInv, TypeOK
    <3> QED
      BY <2>1, <3>1, Zenon
  <2>3. CASE ~MustWait
    <3>1. Open' = Open \cup {p}
      BY <1>3, <2>3, Zenon DEF begin_op, Open, Booting, Running, IInv, TypeOK
    <3> QED
      BY <2>1, <3>1, Zenon DEF AD!Begin
  <2> QED
    BY <2>2, <2>3, Zenon
<1>4. ASSUME NEW p \in Proc, NEW b \in Block, NEW v \in Val, log_write(p, b, v)
      PROVE  AD!Write(p, b, v)
  <2>1. Stable' = Stable /\ Open' = Open /\ p \in Open
    BY <1>1, <1>4, Zenon DEF log_write, Open, Booting, Running
  <2>2. Current' = [Current EXCEPT ![b] = v]
    BY <1>4, Zenon DEF log_write, Current, Booting, Running
  <2> QED
    BY <2>1, <2>2, Zenon DEF AD!Write
<1>5. ASSUME NEW p \in Proc, end_op(p)
      PROVE  AD!End(p)
  <2>1. ~committing /\ stage = "none"
    BY <1>5, OpFacts, Zenon DEF end_op
  <2>2. ~Booting /\ ~Booting'
    BY <1>5, <2>1, Zenon DEF end_op, Booting
  <2>3. Stable' = Stable /\ Current' = Current
    BY <1>1, <1>5, <2>2, Zenon DEF end_op, Current
  <2>4. p \in Open /\ Open' = Open \ {p}
    BY <1>5, <2>1, <2>2, Zenon DEF end_op, Open, Wakeup, IInv, TypeOK
  <2> QED
    BY <2>3, <2>4, Zenon DEF AD!End
<1>6. ASSUME write_log PROVE UNCHANGED <<Stable, Current, Open>>
  <2>1. hd = <<>> /\ hd' = <<>> /\ disk' = disk /\ ~Booting /\ ~Booting'
    BY <1>6, Zenon DEF write_log, IInv, HeaderInv, Booting
  <2>2. Stable = disk /\ Stable' = disk
    BY <2>1, OverlaidEmpty, Zenon DEF Stable, IInv, TypeOK
  <2> QED
    BY <1>6, <2>1, <2>2, Zenon DEF write_log, Current, Open
<1>7. ASSUME write_head PROVE AD!Commit
  <2>1. ~Booting /\ ~Booting' /\ ~panicked
    BY <1>7, Zenon DEF write_head, Booting, Running
  <2>2. Open = {} /\ Open' = Open /\ Current' = Current
    BY <1>7, <2>1, Zenon
    DEF write_head, Open, IInv, CountInv, OpProcs, CommitStages, Current
  <2>3. /\ lh \in Seq(Block) /\ cache \in [Block -> Val]
        /\ \A i \in 1 .. Len(lh) : logd[i] = cache[lh[i]]
    BY <1>7, Zenon DEF write_head, IInv, TypeOK, CopyInv
  <2>4. \A b \in Block : b \notin Logged(lh) => disk[b] = cache[b]
    BY <2>1, SMTT(30) DEF IInv, PinInv, Logged
  <2>5. Overlaid(lh, logd, disk) = cache
    BY <2>3, <2>4, OverlaidIs
  <2>6. Stable' = Current
    BY <1>7, <2>1, <2>5, Zenon DEF Stable, write_head, Current
  <2> QED
    BY <2>2, <2>6, Zenon DEF AD!Commit
<1>8. ASSUME install_trans PROVE UNCHANGED <<Stable, Current, Open>>
  <2>1. hd = lh /\ tail < Len(lh)
    BY <1>8, Zenon DEF install_trans, IInv, HeaderInv, TypeOK
  <2>2. Stable' = Stable
    BY <1>8, <2>1, StableInstall, Zenon DEF install_trans
  <2>3. cache' = cache
    <3>1. tail + 1 \in 1 .. Len(lh)
      BY <2>1 DEF IInv, TypeOK
    <3>2. logd[tail + 1] = cache[lh[tail + 1]]
      BY <1>8, <3>1, Zenon DEF install_trans, IInv, CopyInv
    <3> QED
      BY <1>8, <3>2, Zenon DEF install_trans, InstallBlock, IInv, TypeOK
  <2> QED
    BY <1>8, <2>2, <2>3, Zenon DEF install_trans, InstallBlock, Current, Open, Booting
<1>9. ASSUME clear_head PROVE UNCHANGED <<Stable, Current, Open>>
  <2>1. hd = lh /\ dirty = {} /\ hd' = <<>> /\ disk' = disk /\ ~Booting /\ ~Booting'
    BY <1>9, Zenon DEF clear_head, IInv, HeaderInv, PinInv, Booting
  <2>2. \A b \in Block : cache[b] = disk[b]
    BY <1>9, <2>1, Zenon DEF clear_head, Running, IInv, PinInv
  <2>3. Stable = disk
    BY <1>9, <2>1, <2>2, OverlaidIs DEF clear_head, Stable, IInv, TypeOK, CopyInv
  <2>4. Stable' = disk
    BY <2>1, OverlaidEmpty, Zenon DEF Stable, IInv, TypeOK
  <2> QED
    BY <1>9, <2>1, <2>3, <2>4, Zenon DEF clear_head, Current, Open
<1>10. ASSUME NEW p \in Proc, commit_done(p)
       PROVE  UNCHANGED <<Stable, Current, Open>>
  <2>1. ~Booting /\ ~Booting'
    BY <1>10, Zenon DEF commit_done, Booting
  <2>2. Open' = Open
    BY <1>10, <2>1, Zenon DEF commit_done, Open, Wakeup, IInv, TypeOK
  <2> QED
    BY <1>1, <1>10, <2>1, <2>2, Zenon DEF commit_done, Current
<1>11. ASSUME NEW b \in Block, bget_recycle(b)
       PROVE  UNCHANGED <<Stable, Current, Open>>
  <2>1. cache' = cache
    BY <1>11 DEF IInv, bget_recycle, Running, PinInv, TypeOK
  <2> QED
    BY <1>1, <1>11, <2>1, Zenon DEF bget_recycle, Current, Open, Booting
<1>12. ASSUME Crash PROVE AD!CrashReboot
  <2>1. Stable' = Stable
    BY <1>1, <1>12, Zenon DEF Crash
  <2>2. Booting'
    BY <1>12, Zenon DEF Crash, Booting
  <2> QED
    BY <2>1, <2>2, Zenon DEF AD!CrashReboot, Current, Open
<1>13. ASSUME read_head PROVE UNCHANGED <<Stable, Current, Open>>
  BY <1>1, <1>13, Zenon DEF read_head, Current, Open, Booting
<1>14. ASSUME recover_install PROVE UNCHANGED <<Stable, Current, Open>>
  <2>1. hd = lh /\ tail < Len(lh)
    BY <1>14, Zenon DEF recover_install, IInv, HeaderInv, TypeOK
  <2>2. Stable' = Stable
    BY <1>14, <2>1, StableInstall, Zenon DEF recover_install
  <2> QED
    BY <1>14, <2>2, Zenon DEF recover_install, Current, Open, Booting
<1>15. ASSUME recover_clear PROVE UNCHANGED <<Stable, Current, Open>>
  <2>1. hd = lh /\ hd' = <<>> /\ disk' = disk /\ cache = disk /\ cache' = cache
    BY <1>15, Zenon DEF recover_clear, IInv, HeaderInv, PinInv, Booting
  <2>2. Stable = disk
    BY <1>15, <2>1, OverlaidIs, SMTT(30) DEF recover_clear, Stable, IInv, TypeOK, CopyInv
  <2>3. Stable' = disk
    BY <2>1, OverlaidEmpty, Zenon DEF Stable, IInv, TypeOK
  <2>4. Booting /\ ~Booting'
    BY <1>15, Zenon DEF recover_clear, Booting
  <2>5. Open = {} /\ Open' = {}
    BY <1>15, <2>4, Zenon
    DEF recover_clear, Open, IInv, CountInv, OpProcs
  <2> QED
    BY <2>1, <2>2, <2>3, <2>4, <2>5, Zenon DEF Current
<1> QED
  BY <1>2, <1>3, <1>4, <1>5, <1>6, <1>7, <1>8, <1>9, <1>10, <1>11, <1>12, <1>13, <1>14, <1>15, Zenon
  DEF Next, commit, recover_from_log, AD!ADNext

\* The write-ahead log implements atomic, durable transactions: log.c:9-15
\* ("there is never any reasoning required about whether a commit might write
\* an uncommitted system call's updates to disk").
THEOREM Refinement == Spec => CrashAtomicity
  BY InitRefines, NextRefines, Invariance, PTL DEF Spec, CrashAtomicity, AD!ADSpec

-----------------------------------------------------------------------------
(* Nobody sleeps in begin_op without someone left to wake it.              *)

WakeInv ==
  /\ SleeperHasWaker
  /\ stage = "none" /\ outstanding = 0 => lh = <<>>

\* No step leaves a process asleep in begin_op with nobody to wake it: an
\* operation in progress or a commit is what it sleeps for (log.c:127-135).
LEMMA WakeStep == IInv /\ IInv' /\ WakeInv /\ [Next]_vars => WakeInv'
<1> SUFFICES ASSUME IInv, IInv', WakeInv, [Next]_vars PROVE WakeInv'
  BY Zenon
<1> USE DEF WakeInv, SleeperHasWaker
<1>1. CASE UNCHANGED vars
  BY <1>1, Zenon DEF vars
<1>2. ASSUME NEW p \in Proc, begin_op(p) PROVE WakeInv'
  <2>1. CASE MustWait
    <3>1. committing \/ outstanding > 0
      <4> SUFFICES ASSUME ~committing, outstanding = 0 PROVE FALSE
        BY DEF IInv, TypeOK
      <4>1. stage = "none"
        BY <1>2, Zenon DEF begin_op, Running, IInv, CountInv, TypeOK, Stages, Booting, CommitStages
      <4>2. lh = <<>>
        BY <4>1, Zenon
      <4>3. Len(lh) = 0
        BY <4>2, Zenon
      <4> QED
        BY <2>1, <4>3, LogAssumption DEF MustWait
    <3> QED
      BY <1>2, <2>1, <3>1, Zenon DEF begin_op
  <2>2. CASE ~MustWait
    <3>1. outstanding' > 0
      BY <1>2, <2>2 DEF begin_op, IInv, TypeOK
    <3> QED
      BY <3>1
  <2> QED
    BY <2>1, <2>2, Zenon
<1>3. ASSUME NEW p \in Proc, NEW b \in Block, NEW v \in Val, log_write(p, b, v)
      PROVE  WakeInv'
  <2>1. outstanding > 0
    BY <1>3, OpFacts DEF log_write
  <2> QED
    BY <1>3, <2>1, SMTT(30) DEF log_write, IInv, TypeOK
<1>4. ASSUME NEW p \in Proc, end_op(p) PROVE WakeInv'
  <2>1. ~committing /\ stage = "none" /\ outstanding \in Nat /\ outstanding >= 1
    BY <1>4, OpFacts, Zenon DEF end_op
  <2>2. CASE outstanding = 1
    BY <1>4, <2>1, <2>2, Zenon DEF end_op
  <2>3. CASE outstanding # 1
    BY <1>4, <2>1, <2>3 DEF end_op
  <2> QED
    BY <2>2, <2>3, Zenon
<1>5. CASE write_log \/ write_head \/ install_trans \/ clear_head
  <2>1. committing /\ committing' = committing /\ stage' # "none"
    BY <1>5, Zenon
    DEF write_log, write_head, install_trans, clear_head, InstallBlock, IInv,
        CountInv, CommitStages
  <2> QED
    BY <2>1, Zenon
<1>6. ASSUME NEW p \in Proc, commit_done(p) PROVE WakeInv'
  <2>1. lh' = <<>>
    BY <1>6, Zenon DEF commit_done, IInv, HeaderInv
  <2>2. \A q \in Proc : pc'[q] # "sleep"
    BY <1>6, Zenon DEF commit_done, Wakeup, IInv, TypeOK
  <2> QED
    BY <2>1, <2>2, Zenon
<1>7. ASSUME NEW b \in Block, bget_recycle(b) PROVE WakeInv'
  BY <1>7, Zenon DEF bget_recycle
<1>8. CASE Crash
  <2>1. stage' # "none" /\ \A q \in Proc : pc'[q] # "sleep"
    BY <1>8, Zenon DEF Crash
  <2> QED
    BY <2>1, Zenon
<1>9. CASE read_head \/ recover_install \/ recover_clear
  BY <1>9, Zenon DEF read_head, recover_install, recover_clear, InstallBlock
<1> QED
  BY <1>1, <1>2, <1>3, <1>4, <1>5, <1>6, <1>7, <1>8, <1>9, Zenon
  DEF Next, commit, recover_from_log

\* No lost wakeup in begin_op: while a process sleeps on &log, an end_op or a
\* commit that will call wakeup(&log) is still to come (log.c:124-174).
THEOREM NoLostWakeup == Spec => []SleeperHasWaker
<1>1. Init => WakeInv
  BY Zenon DEF Init, WakeInv, SleeperHasWaker
<1>2. WakeInv => SleeperHasWaker
  BY Zenon DEF WakeInv
<1> QED
  BY <1>1, <1>2, WakeStep, Invariance, PTL DEF Spec

-----------------------------------------------------------------------------
(* The space that begin_op reserves is enough.                             *)

\* One element per block that an operation in progress may still log within
\* its reservation.
Credit == {c \in Proc \X (1 .. MAXOPBLOCKS) :
             pc[c[1]] = "op" /\ c[2] > Cardinality(used[c[1]])}

\* The blocks an operation has used are counted, and are in the log.
UsedInv ==
  \A p \in Proc :
    /\ IsFiniteSet(used[p]) /\ Cardinality(used[p]) <= OpBlocks
    /\ pc[p] # "op" => used[p] = {}
    /\ used[p] \subseteq Logged(lh)

SpaceInv ==
  /\ UsedInv
  /\ stage = "none" => Len(lh) + Cardinality(Credit) <= LOGSIZE
  /\ NoPanic

\* A set of tagged numbers is bounded by the product of the two sizes.
LEMMA PairsBound ==
  ASSUME NEW S, IsFiniteSet(S), NEW n \in Nat, NEW T \in SUBSET (S \X (1 .. n))
  PROVE  /\ IsFiniteSet(T) /\ Cardinality(T) \in Nat
         /\ Cardinality(T) <= Cardinality(S) * n /\ Cardinality(S) * n \in Nat
<1>1. IsFiniteSet(1 .. n) /\ Cardinality(1 .. n) = n
  BY FS_Interval
<1>2. /\ IsFiniteSet(S \X (1 .. n))
      /\ Cardinality(S \X (1 .. n)) = Cardinality(S) * Cardinality(1 .. n)
  BY <1>1, FS_Product, Zenon
<1>3. /\ Cardinality(S \X (1 .. n)) = Cardinality(S) * n
      /\ Cardinality(S) * n \in Nat
  BY <1>1, <1>2, FS_CardinalityType, Zenon
<1> QED
  BY <1>2, <1>3, FS_Subset, FS_CardinalityType, Zenon

\* Credits are bounded by the reservations of the operations in progress.
LEMMA CreditBound ==
  ASSUME IInv
  PROVE  /\ IsFiniteSet(Credit)
         /\ Cardinality(Credit) \in Nat
         /\ Cardinality(Credit) <= outstanding * MAXOPBLOCKS
<1>1. IsFiniteSet(OpProcs)
  BY FS_Subset, LogAssumption, Zenon DEF OpProcs
<1>2. Credit \in SUBSET (OpProcs \X (1 .. MAXOPBLOCKS))
  BY Zenon DEF Credit, OpProcs
<1>3. outstanding = Cardinality(OpProcs) /\ MAXOPBLOCKS \in Nat
  BY LogAssumption, Zenon DEF IInv, CountInv
<1> QED
  BY <1>1, <1>2, <1>3, PairsBound, Zenon

\* No operation in progress, no credit.
LEMMA CreditNone ==
  ASSUME OpProcs = {}
  PROVE  Credit = {} /\ Cardinality(Credit) = 0
<1>1. Credit = {}
  BY Zenon DEF Credit, OpProcs
<1> QED
  BY <1>1, FS_EmptySet, Zenon

\* An operation that uses two blocks less than it reserved holds two credits.
LEMMA TwoCredits ==
  ASSUME IInv, SpaceInv, Running, OpBlocks + 2 <= MAXOPBLOCKS,
         NEW p \in Proc, pc[p] = "op"
  PROVE  Cardinality(Credit) >= 2 /\ Len(lh) + 2 <= LOGSIZE
<1> DEFINE T == {<<p, MAXOPBLOCKS - 1>>} \cup {<<p, MAXOPBLOCKS>>}
<1>1. Cardinality(used[p]) \in Nat /\ Cardinality(used[p]) <= OpBlocks
  BY FS_CardinalityType, Zenon DEF SpaceInv, UsedInv
<1>2. T \in SUBSET Credit
  BY <1>1, LogAssumption DEF Credit
<1>3. Cardinality(T) = 2
  <2>1. <<p, MAXOPBLOCKS - 1>> # <<p, MAXOPBLOCKS>>
    BY LogAssumption
  <2>2. /\ IsFiniteSet({<<p, MAXOPBLOCKS - 1>>})
        /\ Cardinality({<<p, MAXOPBLOCKS - 1>>}) = 1
    BY FS_Singleton, Zenon
  <2>3. <<p, MAXOPBLOCKS>> \notin {<<p, MAXOPBLOCKS - 1>>}
    BY <2>1, Zenon
  <2>4. Cardinality(T) = 1 + 1
    BY <2>2, <2>3, FS_AddElement, Zenon
  <2> QED
    BY <2>4
<1>4. Cardinality(Credit) >= 2 /\ Cardinality(Credit) \in Nat
  BY <1>2, <1>3, CreditBound, FS_Subset
<1>5. stage = "none"
  BY OpFacts, Zenon
<1> QED
  BY <1>4, <1>5, LogAssumption DEF SpaceInv, IInv, TypeOK

\* Every step keeps the log large enough for what is in it and what the
\* operations in progress may still write (log.c:131, log.c:218).
LEMMA SpaceStep ==
  ASSUME OpBlocks + 2 <= MAXOPBLOCKS, IInv, IInv', SpaceInv, [Next]_vars
  PROVE  SpaceInv'
<1> USE DEF NoPanic
<1>1. CASE UNCHANGED vars
  BY <1>1, Zenon DEF vars, SpaceInv, UsedInv, Credit, Logged
<1>2. ASSUME NEW p \in Proc, begin_op(p) PROVE SpaceInv'
  <2>1. UsedInv' /\ NoPanic'
    BY <1>2, SMTT(30) DEF begin_op, SpaceInv, UsedInv, IInv, TypeOK, Logged
  <2>2. CASE MustWait
    <3>1. Credit' = Credit
      BY <1>2, <2>2, Zenon DEF begin_op, Credit, IInv, TypeOK
    <3> QED
      BY <1>2, <2>1, <3>1, Zenon DEF begin_op, SpaceInv
  <2>3. CASE ~MustWait
    <3>1. /\ Cardinality(Credit') \in Nat /\ outstanding' * MAXOPBLOCKS \in Nat
          /\ Cardinality(Credit') <= outstanding' * MAXOPBLOCKS
      <4>1. IsFiniteSet(OpProcs')
        BY FS_Subset, LogAssumption, Zenon DEF OpProcs
      <4>2. Credit' \in SUBSET (OpProcs' \X (1 .. MAXOPBLOCKS))
        BY Zenon DEF Credit, OpProcs
      <4>3. outstanding' = Cardinality(OpProcs') /\ MAXOPBLOCKS \in Nat
        BY LogAssumption, Zenon DEF IInv, CountInv
      <4> QED
        BY <4>1, <4>2, <4>3, PairsBound, Zenon
    <3>2. Len(lh') + outstanding' * MAXOPBLOCKS <= LOGSIZE
      BY <1>2, <2>3, LogAssumption DEF begin_op, MustWait, IInv, TypeOK
    <3>3. Len(lh') \in Nat
      BY DEF IInv, TypeOK
    <3>4. Len(lh') + Cardinality(Credit') <= LOGSIZE
      BY <3>1, <3>2, <3>3, LogAssumption
    <3> QED
      BY <2>1, <3>4, Zenon DEF SpaceInv
  <2> QED
    BY <2>2, <2>3, Zenon
<1>3. ASSUME NEW p \in Proc, NEW b \in Block, NEW v \in Val, log_write(p, b, v)
      PROVE  SpaceInv'
  <2>1. /\ stage = "none" /\ outstanding \in Nat /\ outstanding >= 1
        /\ Len(lh) + 2 <= LOGSIZE /\ Len(lh) \in Nat
    <3>1. Running /\ pc[p] = "op"
      BY <1>3, Zenon DEF log_write
    <3>2. Len(lh) \in Nat
      BY DEF IInv, TypeOK
    <3> QED
      BY <3>1, <3>2, OpFacts, TwoCredits, Zenon
  <2>2. ~TooBig /\ ~OutsideTrans
    BY <2>1, LogAssumption DEF TooBig, OutsideTrans
  <2>3. /\ lh' = Absorb(b) /\ used' = [used EXCEPT ![p] = @ \cup {b}]
        /\ pc' = pc /\ panicked' = panicked /\ stage' = stage
    BY <1>3, <2>2, Zenon DEF log_write
  <2>4. /\ IsFiniteSet(used[p]) /\ Cardinality(used[p]) \in Nat
        /\ IsFiniteSet(used[p] \cup {b})
        /\ Cardinality(used[p] \cup {b}) =
             IF b \in used[p] THEN Cardinality(used[p]) ELSE Cardinality(used[p]) + 1
    BY FS_AddElement, FS_CardinalityType, Zenon DEF SpaceInv, UsedInv
  <2>5. Logged(lh') = Logged(lh) \cup {b} /\ Len(lh') <= Len(lh) + 1 /\ Len(lh') \in Nat
    <3>1. CASE b \in Logged(lh)
      BY <2>1, <2>3, <3>1 DEF Absorb
    <3>2. CASE b \notin Logged(lh)
      <4>1. lh' = Append(lh, b) /\ lh \in Seq(Block)
        BY <2>3, <3>2, Zenon DEF Absorb, IInv, TypeOK
      <4>2. /\ Len(lh') = Len(lh) + 1
            /\ \A i \in 1 .. Len(lh) : lh'[i] = lh[i]
            /\ lh'[Len(lh) + 1] = b
        BY <4>1
      <4> QED
        BY <2>1, <4>2 DEF Logged
    <3> QED
      BY <3>1, <3>2, Zenon
  <2>6. UsedInv'
    <3> SUFFICES ASSUME NEW q \in Proc
                 PROVE  /\ IsFiniteSet(used'[q]) /\ Cardinality(used'[q]) <= OpBlocks
                        /\ pc'[q] # "op" => used'[q] = {}
                        /\ used'[q] \subseteq Logged(lh')
      BY Zenon DEF UsedInv
    <3>1. CASE q = p
      <4>1. used'[q] = used[p] \cup {b}
        BY <2>3, <3>1, Zenon DEF IInv, TypeOK
      <4> QED
        BY <1>3, <2>3, <2>4, <2>5, <3>1, <4>1, Zenon DEF log_write, SpaceInv, UsedInv
    <3>2. CASE q # p
      <4>1. used'[q] = used[q]
        BY <2>3, <3>2, Zenon DEF IInv, TypeOK
      <4> QED
        BY <2>3, <2>5, <4>1, Zenon DEF SpaceInv, UsedInv
    <3> QED
      BY <3>1, <3>2, Zenon
  <2>7. Len(lh') + Cardinality(Credit') <= LOGSIZE
    <3>1. CASE b \in used[p]
      <4>1. used' = used /\ b \in Logged(lh)
        BY <2>3, <3>1, SMTT(30) DEF SpaceInv, UsedInv, IInv, TypeOK
      <4>2. lh' = lh
        BY <2>3, <4>1, Zenon DEF Absorb
      <4>3. Credit' = Credit
        BY <2>3, <4>1, Zenon DEF Credit
      <4> QED
        BY <2>1, <4>2, <4>3, Zenon DEF SpaceInv
    <3>2. CASE b \notin used[p]
      <4> DEFINE k == Cardinality(used[p]) + 1
      <4>0. k \in Nat /\ k <= OpBlocks
        BY <1>3, <2>4, <3>2 DEF log_write
      <4>1. \A q \in Proc : q # p => used'[q] = used[q]
        BY <2>3, Zenon DEF IInv, TypeOK
      <4>2. Cardinality(used'[p]) = k
        BY <2>3, <2>4, <3>2, Zenon DEF IInv, TypeOK
      <4>3. <<p, k>> \in Credit
        BY <1>3, <2>4, <4>0, LogAssumption, SMTT(30) DEF Credit, log_write
      <4>4. Credit' = Credit \ {<<p, k>>}
        <5> HIDE DEF k
        <5>1. \A m \in 1 .. MAXOPBLOCKS : m > k <=> m > Cardinality(used[p]) /\ m # k
          BY <2>4, LogAssumption DEF k
        <5>2. ASSUME NEW q \in Proc, NEW m \in 1 .. MAXOPBLOCKS
              PROVE  <<q, m>> \in Credit' <=> <<q, m>> \in Credit \ {<<p, k>>}
          <6>1. CASE q = p
            BY <2>3, <4>2, <5>1, <6>1, Zenon DEF Credit
          <6>2. CASE q # p
            BY <2>3, <4>1, <6>2, Zenon DEF Credit
          <6> QED
            BY <6>1, <6>2, Zenon
        <5> QED
          BY <5>2 DEF Credit
      <4>5. Cardinality(Credit') = Cardinality(Credit) - 1 /\ Cardinality(Credit) \in Nat
        BY <4>3, <4>4, CreditBound, FS_RemoveElement, Zenon
      <4> QED
        BY <2>1, <2>5, <4>5, LogAssumption DEF SpaceInv
    <3> QED
      BY <3>1, <3>2, Zenon
  <2> QED
    BY <2>3, <2>6, <2>7, Zenon DEF SpaceInv
<1>4. ASSUME NEW p \in Proc, end_op(p) PROVE SpaceInv'
  <2>1. /\ ~committing /\ stage = "none" /\ outstanding \in Nat /\ outstanding >= 1
        /\ panicked' = panicked /\ lh' = lh
        /\ used' = [used EXCEPT ![p] = {}]
    BY <1>4, OpFacts, Zenon DEF end_op
  <2>2. \A q \in Proc : pc'[q] = "op" <=> pc[q] = "op" /\ q # p
    BY <1>4, <2>1, Zenon DEF end_op, Wakeup, IInv, TypeOK
  <2>3. UsedInv'
    BY <2>1, <2>2, FS_EmptySet, LogAssumption, SMTT(30) DEF SpaceInv, UsedInv, IInv, TypeOK, Logged
  <2>4. Credit' \in SUBSET Credit
    BY <2>1, <2>2, Zenon DEF Credit, IInv, TypeOK
  <2>5. /\ Cardinality(Credit') <= Cardinality(Credit)
        /\ Cardinality(Credit') \in Nat /\ Cardinality(Credit) \in Nat
    BY <2>4, CreditBound, FS_Subset, FS_CardinalityType, Zenon
  <2> QED
    BY <2>1, <2>3, <2>5, LogAssumption DEF SpaceInv, IInv, TypeOK
<1>5. CASE write_log \/ write_head \/ install_trans \/ clear_head
  <2>1. committing /\ stage' # "none" /\ UNCHANGED <<pc, used, panicked>>
    BY <1>5, Zenon
    DEF write_log, write_head, install_trans, clear_head, InstallBlock, IInv,
        CountInv, CommitStages
  <2>2. \A q \in Proc : used[q] = {}
    BY <2>1, Zenon DEF IInv, CountInv, OpProcs, SpaceInv, UsedInv
  <2> QED
    BY <2>1, <2>2, Zenon DEF SpaceInv, UsedInv
<1>6. ASSUME NEW p \in Proc, commit_done(p) PROVE SpaceInv'
  <2>1. lh' = <<>> /\ UNCHANGED <<used, lh, panicked>>
    BY <1>6, Zenon DEF commit_done, IInv, HeaderInv
  <2>2. OpProcs = {} /\ OpProcs' = {}
    BY <1>6, Zenon DEF commit_done, IInv, CountInv, CommitStages, OpProcs, Wakeup, TypeOK
  <2>3. Credit' = {} /\ Cardinality(Credit') = 0
    BY <2>2, FS_EmptySet, Zenon DEF Credit, OpProcs
  <2>4. Len(lh') = 0
    BY <2>1
  <2>5. UsedInv'
    BY <2>1, <2>2, Zenon DEF SpaceInv, UsedInv, OpProcs
  <2> QED
    BY <2>1, <2>3, <2>4, <2>5, LogAssumption DEF SpaceInv
<1>7. ASSUME NEW b \in Block, bget_recycle(b) PROVE SpaceInv'
  BY <1>7, Zenon DEF bget_recycle, SpaceInv, UsedInv, Credit
<1>8. CASE Crash
  <2>1. stage' # "none" /\ ~panicked' /\ \A q \in Proc : used'[q] = {}
    BY <1>8, Zenon DEF Crash
  <2>2. IsFiniteSet({}) /\ Cardinality({}) <= OpBlocks
    BY FS_EmptySet, LogAssumption
  <2> QED
    BY <2>1, <2>2, Zenon DEF SpaceInv, UsedInv
<1>9. CASE read_head \/ recover_install \/ recover_clear
  <2>1. Booting /\ UNCHANGED <<pc, used, panicked>>
    BY <1>9, Zenon DEF read_head, recover_install, recover_clear, InstallBlock, Booting
  <2>2. OpProcs = {} /\ OpProcs' = {}
    BY <2>1, Zenon DEF IInv, CountInv, OpProcs
  <2>3. \A q \in Proc : used[q] = {}
    BY <2>2, Zenon DEF OpProcs, SpaceInv, UsedInv
  <2>4. Cardinality(Credit') = 0
    BY <2>2, FS_EmptySet, Zenon DEF Credit, OpProcs
  <2>5. stage' = "none" => Len(lh') = 0
    BY <1>9, Zenon DEF read_head, recover_install, recover_clear
  <2> QED
    BY <2>1, <2>3, <2>4, <2>5, LogAssumption DEF SpaceInv, UsedInv
<1> QED
  BY <1>1, <1>2, <1>3, <1>4, <1>5, <1>6, <1>7, <1>8, <1>9, Zenon
  DEF Next, commit, recover_from_log

\* No interleaving of system calls makes the logging layer panic (log.c:151,
\* 218-221), provided that a system call logs at least two blocks less than
\* the MAXOPBLOCKS that begin_op reserves for it.
THEOREM ReservationSuffices ==
  ASSUME OpBlocks + 2 <= MAXOPBLOCKS
  PROVE  Spec => []NoPanic
<1>1. Init => SpaceInv
  <2> SUFFICES ASSUME Init PROVE SpaceInv
    BY Zenon
  <2>1. Cardinality(Credit) = 0
    <3>1. OpProcs = {}
      BY Zenon DEF Init, OpProcs
    <3> QED
      BY <3>1, CreditNone, Zenon
  <2>2. Len(lh) = 0 /\ \A q \in Proc : used[q] = {}
    BY Zenon DEF Init
  <2> QED
    BY <2>1, <2>2, FS_EmptySet, LogAssumption DEF Init, SpaceInv, UsedInv, NoPanic
<1>2. IInv /\ IInv' /\ SpaceInv /\ [Next]_vars => SpaceInv'
  BY SpaceStep, Zenon
<1>3. SpaceInv => NoPanic
  BY Zenon DEF SpaceInv
<1> QED
  BY <1>1, <1>2, <1>3, Invariance, PTL DEF Spec
=============================================================================
