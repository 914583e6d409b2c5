----------------------------- MODULE PipeProof ------------------------------
(***************************************************************************)
(* For any number of processes, descriptors and files, any size of the     *)
(* pipe and any range of its counters.                                     *)
(***************************************************************************)
EXTENDS Pipe, NumberFacts, SequenceTheorems

Labels == {"user", "pipe", "exit", "read", "rgosleep", "rsleep", "write", "wgosleep",
           "wsleep", "closer", "closew"}
Reading == {"read", "rgosleep", "rsleep"}
Writing == {"write", "wgosleep", "wsleep"}

FileType ==
  /\ ofile \in [Proc -> [FD -> File \cup {None}]]
  /\ ref \in [File -> Nat] /\ type \in [File -> {"none", "pipe"}]
  /\ writable \in [File -> BOOLEAN]
  /\ page \in BOOLEAN /\ readopen \in BOOLEAN /\ writeopen \in BOOLEAN
  /\ alive \in [Proc -> BOOLEAN]
  /\ pc \in [Proc -> Labels] /\ tmp \in [Proc -> File \cup {None}]

-----------------------------------------------------------------------------
(* Counting references *)

\* The descriptors, and the unfinished pipe() calls, that refer to file f.
Refs(of, f) == {x \in Proc \X FD : of[x[1]][x[2]] = f}
Pending(t, f) == {p \in Proc : t[p] = f}
One(f, g) == IF f = g THEN 1 ELSE 0

\* Both sets are finite.
LEMMA RefsFinite ==
  ASSUME NEW of, NEW t, NEW f
  PROVE  /\ IsFiniteSet(Refs(of, f)) /\ Cardinality(Refs(of, f)) \in Nat
         /\ IsFiniteSet(Pending(t, f)) /\ Cardinality(Pending(t, f)) \in Nat
<1>1. IsFiniteSet(FD)
  BY FS_Interval, PipeAssumption, 1 \in Int, NOFILE \in Int, Zenon DEF FD
<1>2. IsFiniteSet(Proc \X FD)
  BY <1>1, PipeAssumption, FS_Product, Zenon
<1>3. Refs(of, f) \in SUBSET (Proc \X FD) /\ Pending(t, f) \in SUBSET Proc
  BY Zenon DEF Refs, Pending
<1>4. IsFiniteSet(Refs(of, f)) /\ IsFiniteSet(Pending(t, f))
  BY <1>2, <1>3, PipeAssumption, FS_Subset, Zenon
<1> QED BY <1>4, FS_CardinalityType, Zenon

\* new is of with v in descriptor d of p.
Changed(of, new, p, d, v) ==
  \A q \in Proc, b \in FD : new[q][b] = IF q = p /\ b = d THEN v ELSE of[q][b]

\* Changing one descriptor moves one reference.
LEMMA CountSet ==
  ASSUME NEW of \in [Proc -> [FD -> File \cup {None}]], NEW p \in Proc, NEW d \in FD,
         NEW v \in File \cup {None}, v # of[p][d], NEW f \in File, NEW new,
         Changed(of, new, p, d, v)
  PROVE  Cardinality(Refs(new, f))
           = Cardinality(Refs(of, f)) + One(f, v) - One(f, of[p][d])
<1> DEFINE S == Refs(of, f)
           x == <<p, d>>
<1>1. IsFiniteSet(S) /\ Cardinality(S) \in Nat
  BY RefsFinite, Zenon
<1>2. x \in Proc \X FD /\ new[p][d] = v
  BY Zenon DEF Changed
<1>3. \A y \in Proc \X FD : y # x => new[y[1]][y[2]] = of[y[1]][y[2]]
  BY DEF Changed
<1>4. x \in S <=> f = of[p][d]
  BY <1>2, Zenon DEF Refs
<1>5. CASE f = v
  <2>1. Refs(new, f) = S \cup {x}
    BY <1>2, <1>3, <1>5 DEF Refs
  <2>2. x \notin S
    BY <1>4, <1>5, Zenon
  <2> HIDE DEF S, x
  <2>3. Cardinality(Refs(new, f)) = Cardinality(S) + 1
    BY <1>1, <2>1, <2>2, FS_AddElement, Zenon
  <2> QED BY <1>1, <1>4, <1>5, <2>2, <2>3 DEF One, S
<1>6. CASE f # v
  <2>1. Refs(new, f) = S \ {x}
    BY <1>2, <1>3, <1>6 DEF Refs
  <2> HIDE DEF S, x
  <2>2. Cardinality(Refs(new, f)) = IF x \in S THEN Cardinality(S) - 1 ELSE Cardinality(S)
    BY <1>1, <2>1, FS_RemoveElement, Zenon
  <2> QED BY <1>1, <1>4, <1>6, <2>2 DEF One, S
<1> QED BY <1>5, <1>6, Zenon

\* The same for what pipe() holds between its two allocations.
LEMMA PendingSet ==
  ASSUME NEW t \in [Proc -> File \cup {None}], NEW p \in Proc,
         NEW v \in File \cup {None}, v # t[p], NEW f \in File
  PROVE  Cardinality(Pending([t EXCEPT ![p] = v], f))
           = Cardinality(Pending(t, f)) + One(f, v) - One(f, t[p])
<1> DEFINE new == [t EXCEPT ![p] = v]
           S == Pending(t, f)
<1>1. IsFiniteSet(S) /\ Cardinality(S) \in Nat
  BY RefsFinite, Zenon
<1>2. p \in S <=> f = t[p]
  BY Zenon DEF Pending
<1>3. CASE f = v
  <2>1. Pending(new, f) = S \cup {p} /\ p \notin S
    BY <1>3, Zenon DEF Pending
  <2> HIDE DEF S, new
  <2>2. Cardinality(Pending(new, f)) = Cardinality(S) + 1
    BY <1>1, <2>1, FS_AddElement, Zenon
  <2> QED BY <1>1, <1>2, <1>3, <2>1, <2>2 DEF One, S, new
<1>4. CASE f # v
  <2>1. Pending(new, f) = S \ {p}
    BY <1>4, Zenon DEF Pending
  <2> HIDE DEF S, new
  <2>2. Cardinality(Pending(new, f)) = IF p \in S THEN Cardinality(S) - 1 ELSE Cardinality(S)
    BY <1>1, <2>1, FS_RemoveElement, Zenon
  <2> QED BY <1>1, <1>2, <1>4, <2>2 DEF One, S, new
<1> QED BY <1>3, <1>4, Zenon

\* A child takes as many references as its parent has descriptors.
LEMMA CountCopy ==
  ASSUME NEW of \in [Proc -> [FD -> File \cup {None}]], NEW p \in Proc, NEW c \in Proc,
         \A d \in FD : of[c][d] = None, NEW f \in File
  PROVE  Cardinality(Refs([of EXCEPT ![c] = of[p]], f))
           = Cardinality(Refs(of, f)) + Cardinality({d \in FD : of[p][d] = f})
<1> DEFINE new == [of EXCEPT ![c] = of[p]]
           S == Refs(of, f)
           D == {d \in FD : of[p][d] = f}
           T == {c} \X D
<1>1. f # None
  BY DEF File, None
<1>2. Refs(new, f) = S \cup T
  <2>1. ASSUME NEW q \in Proc, NEW d \in FD
        PROVE  <<q, d>> \in Refs(new, f) <=> <<q, d>> \in S \cup T
    <3>1. CASE q = c
      BY <1>1, <3>1 DEF Refs
    <3>2. CASE q # c
      BY <3>2, Zenon DEF Refs
    <3> QED BY <3>1, <3>2, Zenon
  <2>2. Refs(new, f) \subseteq Proc \X FD /\ S \subseteq Proc \X FD /\ T \subseteq Proc \X FD
    BY Zenon DEF Refs
  <2>3. \A y \in Proc \X FD : \E q \in Proc, d \in FD : y = <<q, d>>
    OBVIOUS
  <2> HIDE DEF S, T, new
  <2> QED BY <2>1, <2>2, <2>3
<1>3. S \cap T = {}
  BY <1>1, Zenon DEF Refs
<1>4. IsFiniteSet(D) /\ Cardinality(D) \in Nat
  <2>1. IsFiniteSet(FD)
    BY FS_Interval, PipeAssumption, 1 \in Int, NOFILE \in Int, Zenon DEF FD
  <2>2. D \in SUBSET FD
    BY Zenon
  <2> HIDE DEF D
  <2> QED BY <2>1, <2>2, FS_Subset, FS_CardinalityType, Zenon
<1>5. IsFiniteSet(T) /\ Cardinality(T) = Cardinality(D)
  <2>1. IsFiniteSet({c}) /\ Cardinality({c}) = 1
    BY FS_Singleton, Zenon
  <2> HIDE DEF D
  <2>2. IsFiniteSet({c} \X D) /\ Cardinality({c} \X D) = Cardinality({c}) * Cardinality(D)
    BY <1>4, <2>1, FS_Product, Zenon
  <2> QED BY <1>4, <2>1, <2>2
<1>6. IsFiniteSet(S) /\ Cardinality(S) \in Nat
  BY RefsFinite, Zenon
<1> HIDE DEF S, T, D, new
<1>7. Cardinality(S \cup T) = Cardinality(S) + Cardinality(T) - Cardinality(S \cap T)
  BY <1>5, <1>6, FS_Union, Zenon
<1>8. Cardinality(S \cap T) = 0
  BY <1>3, FS_EmptySet, Zenon
<1>9. Cardinality(Refs(new, f)) = Cardinality(S) + Cardinality(D)
  BY <1>2, <1>4, <1>5, <1>6, <1>7, <1>8
<1> QED BY <1>9, Zenon DEF S, D, new
-----------------------------------------------------------------------------
(* Files and descriptors *)

Counted ==
  \A f \in File : ref[f] = Cardinality(Refs(ofile, f)) + Cardinality(Pending(tmp, f))

\* A file is unused, held by one pipe() call, or an end of a pipe; dead
\* processes have no descriptors.
Holding ==
  /\ \A p \in Proc : tmp[p] # None <=> pc[p] = "pipe"
  /\ \A p \in Proc : tmp[p] # None => type[tmp[p]] = "none"
  /\ \A p, q \in Proc : tmp[p] # None /\ tmp[p] = tmp[q] => p = q
  /\ \A p \in Proc, d \in FD : ofile[p][d] # None => type[ofile[p][d]] = "pipe"
  /\ \A f \in File : ref[f] = 0 => type[f] = "none"
  /\ \A p \in Proc : ~alive[p] => pc[p] = "user" /\ \A d \in FD : ofile[p][d] = None

ReadEnd(f) == type[f] = "pipe" /\ ~writable[f]
WriteEnd(f) == type[f] = "pipe" /\ writable[f]

\* Each end of the pipe is one file, or one process about to close it, and it
\* is marked open.
Ends ==
  /\ \A f \in File : ReadEnd(f) => readopen /\ \A g \in File : ReadEnd(g) => g = f
  /\ \A f \in File : WriteEnd(f) => writeopen /\ \A g \in File : WriteEnd(g) => g = f
  /\ \A p \in Proc : pc[p] = "closer" =>
       /\ readopen /\ \A q \in Proc : pc[q] = "closer" => q = p
       /\ \A f \in File : ~ReadEnd(f)
  /\ \A p \in Proc : pc[p] = "closew" =>
       /\ writeopen /\ \A q \in Proc : pc[q] = "closew" => q = p
       /\ \A f \in File : ~WriteEnd(f)
  /\ page <=> readopen \/ writeopen

\* Whoever is inside a read or write has a descriptor for that end.
Using ==
  \A p \in Proc :
    /\ pc[p] \in Reading => \E d \in FD : ofile[p][d] # None /\ ~writable[ofile[p][d]]
    /\ pc[p] \in Writing => \E d \in FD : ofile[p][d] # None /\ writable[ofile[p][d]]

FileInv == FileType /\ Counted /\ Holding /\ Ends /\ Using

\* At boot there are no files.
LEMMA FileInit == Init => FileInv
<1> SUFFICES ASSUME Init PROVE FileInv
  BY Zenon
<1>1. FileType
  BY Zenon DEF Init, FileType, Labels
<1>2. Counted
  <2> SUFFICES ASSUME NEW f \in File
               PROVE  ref[f] = Cardinality(Refs(ofile, f)) + Cardinality(Pending(tmp, f))
    BY Zenon DEF Counted
  <2>1. f # None
    BY DEF File, None
  <2>2. Refs(ofile, f) = {} /\ Pending(tmp, f) = {}
    BY <2>1, Zenon DEF Init, Refs, Pending
  <2>3. ref[f] = 0
    BY Zenon DEF Init
  <2>4. Cardinality(Refs(ofile, f)) = 0 /\ Cardinality(Pending(tmp, f)) = 0
    BY <2>2, FS_EmptySet, Zenon
  <2> QED BY <2>3, <2>4
<1>3. Holding
  BY Zenon DEF Init, Holding
<1>4. Ends
  BY Zenon DEF Init, Ends, ReadEnd, WriteEnd
<1>5. Using
  BY Zenon DEF Init, Using, Reading, Writing
<1> QED BY <1>1, <1>2, <1>3, <1>4, <1>5, Zenon DEF FileInv

\* The first free file or descriptor is one.
LEMMA FirstFree ==
  /\ FreeFiles # {} => Min(FreeFiles) \in File /\ ref[Min(FreeFiles)] = 0
  /\ \A p : \A S \in SUBSET FreeFDs(p) :
       S # {} => Min(S) \in S /\ Min(S) \in FD /\ ofile[p][Min(S)] = None
<1>1. ASSUME NEW N \in Nat, NEW S \in SUBSET (1 .. N), S # {} PROVE Min(S) \in S
  <2>1. S \in SUBSET (0 .. N)
    OBVIOUS
  <2> QED BY <1>1, <2>1, MinIsLeast, Zenon
<1>2. FreeFiles \in SUBSET (1 .. NFILE) /\ \A p : FreeFDs(p) \in SUBSET (1 .. NOFILE)
  BY Zenon DEF FreeFiles, FreeFDs, File, FD
<1>3. FreeFiles # {} => Min(FreeFiles) \in FreeFiles
  BY <1>1, <1>2, PipeAssumption, Zenon
<1>4. \A p : \A S \in SUBSET FreeFDs(p) : S # {} => Min(S) \in S
  BY <1>1, <1>2, PipeAssumption, Zenon
<1> QED BY <1>3, <1>4, Zenon DEF FreeFiles, FreeFDs

\* A file that somebody refers to has a count, and with a count of one nobody
\* else does.
LEMMA RefsCounted ==
  ASSUME FileInv
  PROVE  /\ \A p \in Proc : tmp[p] # None => ref[tmp[p]] = 1
         /\ \A p \in Proc, d \in FD : ofile[p][d] # None =>
              /\ ref[ofile[p][d]] >= 1
              /\ ref[ofile[p][d]] = 1 =>
                   \A q \in Proc, b \in FD : ofile[q][b] = ofile[p][d] => q = p /\ b = d
<1>1. ASSUME NEW p \in Proc, tmp[p] # None PROVE ref[tmp[p]] = 1
  <2> DEFINE f == tmp[p]
  <2>1. f \in File
    BY <1>1, Zenon DEF FileInv, FileType
  <2>2. Refs(ofile, f) = {}
    <3>1. \A q \in Proc, d \in FD : ofile[q][d] # f
      BY <1>1 DEF FileInv, Holding
    <3> QED BY <3>1, Zenon DEF Refs
  <2>3. Pending(tmp, f) = {p}
    BY <1>1 DEF FileInv, Holding, Pending
  <2> HIDE DEF f
  <2>4. Cardinality(Refs(ofile, f)) = 0 /\ Cardinality(Pending(tmp, f)) = 1
    BY <2>2, <2>3, FS_EmptySet, FS_Singleton, Zenon
  <2> QED BY <2>1, <2>4 DEF FileInv, Counted, f
<1>2. ASSUME NEW p \in Proc, NEW d \in FD, ofile[p][d] # None
      PROVE  /\ ref[ofile[p][d]] >= 1
             /\ ref[ofile[p][d]] = 1 =>
                   \A q \in Proc, b \in FD : ofile[q][b] = ofile[p][d] => q = p /\ b = d
  <2> DEFINE f == ofile[p][d]
             S == Refs(ofile, f)
  <2>1. f \in File
    BY <1>2 DEF FileInv, FileType
  <2>2. <<p, d>> \in S
    BY Zenon DEF Refs
  <2>3. IsFiniteSet(S) /\ Cardinality(S) \in Nat /\ Cardinality(Pending(tmp, f)) \in Nat
    BY RefsFinite, Zenon
  <2>4. ref[f] = Cardinality(S) + Cardinality(Pending(tmp, f))
    BY <2>1, Zenon DEF FileInv, Counted
  <2>5. \A q \in Proc, b \in FD : ofile[q][b] = f => <<q, b>> \in S
    BY Zenon DEF Refs
  <2> HIDE DEF f, S
  <2>6. Cardinality(S) # 0
    BY <2>2, <2>3, FS_EmptySet, Zenon
  <2>7. Cardinality(S) = 1 => S = {<<p, d>>}
    BY <2>2, <2>3, FS_Singleton
  <2>8. ref[f] >= 1 /\ (ref[f] = 1 => S = {<<p, d>>})
    BY <2>3, <2>4, <2>6, <2>7
  <2>9. ref[f] = 1 => \A q \in Proc, b \in FD : ofile[q][b] = f => q = p /\ b = d
    BY <2>5, <2>8, Zenon
  <2> QED BY <2>8, <2>9, Zenon DEF f
<1> QED BY <1>1, <1>2, Zenon

\* Steps that leave the files and both ends of the pipe alone: a process moves
\* between labels outside closing and pipe(), or within its read or write.
LEMMA FileUnchanged ==
  ASSUME FileInv, UNCHANGED <<ofile, ref, type, writable, page, readopen, writeopen,
                              alive, tmp>>,
         pc' \in [Proc -> Labels],
         \A p \in Proc : \/ pc'[p] = pc[p]
                        \/ /\ alive[p] /\ pc[p] \notin {"pipe", "closer", "closew"}
                           /\ pc'[p] \notin {"pipe", "closer", "closew"}
                           /\ pc'[p] \in Reading => \E d \in FD :
                                ofile[p][d] # None /\ ~writable[ofile[p][d]]
                           /\ pc'[p] \in Writing => \E d \in FD :
                                ofile[p][d] # None /\ writable[ofile[p][d]]
  PROVE  FileInv'
<1>1. FileType' /\ Counted'
  BY Zenon DEF FileInv, FileType, Counted
<1>2. Holding'
  BY DEF FileInv, Holding, FileType
<1>3. Ends'
  BY Zenon DEF FileInv, Ends, ReadEnd, WriteEnd
<1>4. Using'
  BY Zenon DEF FileInv, Using
<1> QED BY <1>1, <1>2, <1>3, <1>4, Zenon DEF FileInv

\* pipe() takes a file nobody refers to.
LEMMA FileSysPipe ==
  ASSUME FileInv, NEW p \in Proc, sys_pipe(p)
  PROVE  FileInv'
<1> DEFINE m == Min(FreeFiles)
<1>1. /\ m \in File /\ ref[m] = 0 /\ alive[p] /\ pc[p] = "user" /\ m # None
      /\ ref' = [ref EXCEPT ![m] = 1] /\ tmp' = [tmp EXCEPT ![p] = m]
      /\ pc' = [pc EXCEPT ![p] = "pipe"]
      /\ UNCHANGED <<ofile, type, writable, page, readopen, writeopen, alive>>
  BY FirstFree DEF sys_pipe, Syscall, Goto, pipeVars, procVars, File, None
<1> HIDE DEF m
<1>2. tmp[p] = None /\ type[m] = "none"
  BY <1>1, Zenon DEF FileInv, Holding
<1>3. \A q \in Proc : tmp[q] # m
  BY <1>1, RefsCounted
<1>4. FileType'
  BY <1>1, Zenon DEF FileInv, FileType, Labels
<1>5. Counted'
  <2> SUFFICES ASSUME NEW f \in File
               PROVE  ref'[f] = Cardinality(Refs(ofile', f)) + Cardinality(Pending(tmp', f))
    BY Zenon DEF Counted
  <2>1. tmp \in [Proc -> File \cup {None}] /\ ref \in [File -> Nat] /\ m # tmp[p] /\ f # tmp[p]
    BY <1>1, <1>2 DEF FileInv, FileType, File, None
  <2>2. Cardinality(Pending(tmp', f)) = Cardinality(Pending(tmp, f)) + One(f, m) - One(f, tmp[p])
    BY <1>1, <2>1, PendingSet, Zenon
  <2>3. ref'[f] = ref[f] + One(f, m)
    BY <1>1, <2>1 DEF One
  <2>4. ref[f] = Cardinality(Refs(ofile, f)) + Cardinality(Pending(tmp, f))
    BY Zenon DEF FileInv, Counted
  <2>5. Cardinality(Refs(ofile, f)) \in Nat /\ Cardinality(Pending(tmp, f)) \in Nat
    BY RefsFinite, Zenon
  <2> QED BY <1>1, <2>1, <2>2, <2>3, <2>4, <2>5 DEF One
<1>6. Holding'
  BY <1>1, <1>2, <1>3 DEF FileInv, Holding, FileType
<1>7. Ends'
  BY <1>1, Zenon DEF FileInv, Ends, ReadEnd, WriteEnd, FileType
<1>8. Using'
  BY <1>1, Zenon DEF FileInv, Using, Reading, Writing, FileType
<1> QED BY <1>4, <1>5, <1>6, <1>7, <1>8, Zenon DEF FileInv

\* When pipe() fails its file is free again.
LEMMA FilePipeBad ==
  ASSUME FileInv, NEW p \in Proc, pipealloc_bad(p)
  PROVE  FileInv'
<1> DEFINE m == tmp[p]
<1>1. /\ pc[p] = "pipe"
      /\ ref' = [ref EXCEPT ![m] = 0] /\ tmp' = [tmp EXCEPT ![p] = None]
      /\ pc' = [pc EXCEPT ![p] = "user"]
      /\ UNCHANGED <<ofile, type, writable, page, readopen, writeopen, alive>>
  BY Zenon DEF pipealloc_bad, Goto, pipeVars, procVars
<1>2. m \in File /\ m # None /\ type[m] = "none" /\ ref[m] = 1 /\ alive[p]
  BY <1>1, RefsCounted DEF FileInv, Holding, FileType
<1>3. FileType'
  BY <1>1, <1>2, Zenon DEF FileInv, FileType, Labels
<1>4. Counted'
  <2> SUFFICES ASSUME NEW f \in File
               PROVE  ref'[f] = Cardinality(Refs(ofile', f)) + Cardinality(Pending(tmp', f))
    BY Zenon DEF Counted
  <2>1. tmp \in [Proc -> File \cup {None}] /\ ref \in [File -> Nat] /\ f # None
    BY DEF FileInv, FileType, File, None
  <2>2. Cardinality(Pending(tmp', f)) = Cardinality(Pending(tmp, f)) + One(f, None) - One(f, m)
    BY <1>1, <1>2, <2>1, PendingSet, Zenon
  <2>3. ref'[f] = ref[f] - One(f, m)
    BY <1>1, <1>2, <2>1 DEF One
  <2>4. ref[f] = Cardinality(Refs(ofile, f)) + Cardinality(Pending(tmp, f))
    BY Zenon DEF FileInv, Counted
  <2>5. Cardinality(Refs(ofile, f)) \in Nat /\ Cardinality(Pending(tmp, f)) \in Nat
    BY RefsFinite, Zenon
  <2> HIDE DEF m
  <2> QED BY <1>1, <2>1, <2>2, <2>3, <2>4, <2>5 DEF One
<1>5. Holding'
  BY <1>1, <1>2 DEF FileInv, Holding, FileType
<1>6. Ends'
  BY <1>1, Zenon DEF FileInv, Ends, ReadEnd, WriteEnd, FileType
<1>7. Using'
  BY <1>1, Zenon DEF FileInv, Using, Reading, Writing, FileType
<1> QED BY <1>3, <1>4, <1>5, <1>6, <1>7, Zenon DEF FileInv

\* The rest of pipe(): two files become the ends of a new pipe.
LEMMA FilePipeAlloc ==
  ASSUME FileInv, NEW p \in Proc, pipealloc(p)
  PROVE  FileInv'
<1> DEFINE rf == tmp[p]
           wf == Min(FreeFiles)
           a == Min(FreeFDs(p))
           b == Min(FreeFDs(p) \ {a})
<1>1. /\ pc[p] = "pipe" /\ FreeFiles # {} /\ ~page
      /\ ref' = [ref EXCEPT ![wf] = 1]
      /\ type' = [type EXCEPT ![rf] = "pipe", ![wf] = "pipe"]
      /\ writable' = [writable EXCEPT ![rf] = FALSE, ![wf] = TRUE]
      /\ ofile' = [ofile EXCEPT ![p][a] = rf, ![p][b] = wf]
      /\ page' = TRUE /\ readopen' = TRUE /\ writeopen' = TRUE
      /\ tmp' = [tmp EXCEPT ![p] = None] /\ pc' = [pc EXCEPT ![p] = "user"]
      /\ UNCHANGED alive
  BY Zenon DEF pipealloc, Goto, procVars
<1>2. rf \in File /\ rf # None /\ type[rf] = "none" /\ ref[rf] = 1 /\ alive[p]
  BY <1>1, RefsCounted DEF FileInv, Holding, FileType
<1>3. wf \in File /\ wf # None /\ type[wf] = "none" /\ ref[wf] = 0 /\ wf # rf
  <2>1. wf \in File /\ ref[wf] = 0
    BY <1>1, FirstFree, Zenon
  <2> QED BY <1>2, <2>1 DEF FileInv, Holding, File, None
<1>4. a \in FD /\ b \in FD /\ a # b /\ ofile[p][a] = None /\ ofile[p][b] = None
  <2> DEFINE S == FreeFDs(p)
  <2>1. Cardinality(S) >= 2 /\ S \in SUBSET FreeFDs(p) /\ S \ {a} \in SUBSET FreeFDs(p)
    BY Zenon DEF pipealloc
  <2>2. S # {} /\ S # {a}
    <3>1. Cardinality({}) = 0 /\ Cardinality({a}) = 1
      BY FS_EmptySet, FS_Singleton, Zenon
    <3> HIDE DEF S, a
    <3> QED BY <2>1, <3>1
  <2>3. S \ {a} # {}
    BY <2>2, Zenon
  <2> QED BY <2>1, <2>2, <2>3, FirstFree
<1> HIDE DEF rf, wf, a, b
<1>5. FileType'
  BY <1>1, <1>2, <1>3, <1>4, Zenon DEF FileInv, FileType, Labels
<1>6. Counted'
  <2> SUFFICES ASSUME NEW f \in File
               PROVE  ref'[f] = Cardinality(Refs(ofile', f)) + Cardinality(Pending(tmp', f))
    BY Zenon DEF Counted
  <2> DEFINE mid == [ofile EXCEPT ![p][a] = rf]
  <2>1. /\ tmp \in [Proc -> File \cup {None}] /\ ref \in [File -> Nat] /\ f # None
        /\ ofile \in [Proc -> [FD -> File \cup {None}]]
    BY DEF FileInv, FileType, File, None
  <2>2. Cardinality(Pending(tmp', f)) = Cardinality(Pending(tmp, f)) + One(f, None) - One(f, rf)
    BY <1>1, <1>2, <2>1, PendingSet, Zenon DEF rf
  <2>3. Cardinality(Refs(mid, f)) = Cardinality(Refs(ofile, f)) + One(f, rf) - One(f, None)
    <3>1. Changed(ofile, mid, p, a, rf)
      BY <1>4, <2>1, Zenon DEF Changed
    <3> HIDE DEF mid
    <3>2. rf # ofile[p][a] /\ rf \in File \cup {None}
      BY <1>2, <1>4, Zenon
    <3>3. Cardinality(Refs(mid, f)) = Cardinality(Refs(ofile, f)) + One(f, rf) - One(f, ofile[p][a])
      BY <1>4, <2>1, <3>1, <3>2, CountSet
    <3> QED BY <1>4, <3>3, Zenon
  <2>4. /\ mid \in [Proc -> [FD -> File \cup {None}]] /\ mid[p][b] = None
        /\ Changed(mid, ofile', p, b, wf)
    BY <1>1, <1>2, <1>4, <2>1, Zenon DEF Changed
  <2> HIDE DEF mid
  <2>5. Cardinality(Refs(ofile', f)) = Cardinality(Refs(mid, f)) + One(f, wf) - One(f, None)
    BY <1>3, <1>4, <2>4, CountSet
  <2>6. ref'[f] = ref[f] + One(f, wf)
    BY <1>1, <1>3, <2>1 DEF One
  <2>7. ref[f] = Cardinality(Refs(ofile, f)) + Cardinality(Pending(tmp, f))
    BY Zenon DEF FileInv, Counted
  <2>8. Cardinality(Refs(ofile, f)) \in Nat /\ Cardinality(Pending(tmp, f)) \in Nat
    BY RefsFinite, Zenon
  <2> QED BY <2>1, <2>2, <2>3, <2>5, <2>6, <2>7, <2>8 DEF One
<1>7. Holding'
  <2>1. \A q \in Proc, d \in FD :
          ofile'[q][d] = IF q = p /\ d = a THEN rf ELSE IF q = p /\ d = b THEN wf ELSE ofile[q][d]
    BY <1>1, <1>4, Zenon DEF FileInv, FileType
  <2>2. \A q \in Proc : tmp[q] # wf
    BY <1>3, RefsCounted
  <2>3. \A q \in Proc : q # p => tmp[q] # rf
    BY <1>2 DEF FileInv, Holding, rf
  <2>4. \A q \in Proc : tmp'[q] = IF q = p THEN None ELSE tmp[q]
    BY <1>1, Zenon DEF FileInv, FileType
  <2>5. \A f \in File : type'[f] = IF f = rf \/ f = wf THEN "pipe" ELSE type[f]
    BY <1>1, Zenon DEF FileInv, FileType
  <2>6. \A f \in File : ref'[f] = IF f = wf THEN 1 ELSE ref[f]
    BY <1>1, Zenon DEF FileInv, FileType
  <2>7. \A q \in Proc : pc'[q] = IF q = p THEN "user" ELSE pc[q]
    BY <1>1, Zenon DEF FileInv, FileType
  <2> QED BY <1>1, <1>2, <1>3, <2>1, <2>2, <2>3, <2>4, <2>5, <2>6, <2>7
          DEF FileInv, Holding, FileType
<1>8. Ends'
  <2>1. \A f \in File : type[f] = "none"
    BY <1>1, Zenon DEF FileInv, Ends, ReadEnd, WriteEnd, FileType
  <2>2. \A q \in Proc : pc[q] \notin {"closer", "closew"}
    BY <1>1, Zenon DEF FileInv, Ends
  <2>3. \A f \in File : /\ type'[f] = "pipe" <=> f = rf \/ f = wf
                        /\ f = rf => ~writable'[f]
                        /\ f = wf => writable'[f]
    BY <1>1, <1>2, <1>3, <2>1, Zenon DEF FileInv, FileType
  <2>4. \A q \in Proc : pc'[q] \notin {"closer", "closew"}
    BY <1>1, <2>2, Zenon DEF FileInv, FileType
  <2> QED BY <1>1, <1>3, <2>3, <2>4, Zenon DEF Ends, ReadEnd, WriteEnd
<1>9. Using'
  <2>1. \A q \in Proc, d \in FD : ofile[q][d] = None
    BY <1>1 DEF FileInv, FileType, Ends, Holding, ReadEnd, WriteEnd
  <2>2. \A q \in Proc : pc[q] \notin Reading \cup Writing
    BY <2>1, Zenon DEF FileInv, Using
  <2> QED BY <1>1, <2>2, Zenon DEF Using, FileInv, FileType, Reading, Writing
<1> QED BY <1>5, <1>6, <1>7, <1>8, <1>9, Zenon DEF FileInv

\* dup() adds a descriptor and a reference.
LEMMA FileDup ==
  ASSUME FileInv, NEW p \in Proc, NEW d \in FD, sys_dup(p, d)
  PROVE  FileInv'
<1> DEFINE g == ofile[p][d]
           a == Min(FreeFDs(p))
<1>1. /\ g # None /\ FreeFDs(p) # {} /\ alive[p] /\ pc[p] = "user"
      /\ ofile' = [ofile EXCEPT ![p][a] = g]
      /\ ref' = [ref EXCEPT ![g] = ref[g] + 1]
      /\ UNCHANGED <<type, writable, page, readopen, writeopen, alive, pc, tmp>>
  BY Zenon DEF sys_dup, Syscall, pipeVars, procVars, opVars
<1>2. a \in FD /\ ofile[p][a] = None
  BY <1>1, FirstFree, Zenon
<1>3. g \in File
  BY <1>1 DEF FileInv, FileType
<1> HIDE DEF g, a
<1>4. FileType'
  BY <1>1, <1>2, <1>3 DEF FileInv, FileType
<1>5. Counted'
  <2> SUFFICES ASSUME NEW f \in File
               PROVE  ref'[f] = Cardinality(Refs(ofile', f)) + Cardinality(Pending(tmp', f))
    BY Zenon DEF Counted
  <2>1. /\ ref \in [File -> Nat] /\ f # None
        /\ ofile \in [Proc -> [FD -> File \cup {None}]]
    BY DEF FileInv, FileType, File, None
  <2>2. Cardinality(Refs(ofile', f)) = Cardinality(Refs(ofile, f)) + One(f, g) - One(f, None)
    <3>1. Changed(ofile, ofile', p, a, g)
      BY <1>1, <1>2, <2>1, Zenon DEF Changed
    <3>2. g # ofile[p][a] /\ g \in File \cup {None}
      BY <1>1, <1>2, <1>3, Zenon
    <3>3. Cardinality(Refs(ofile', f))
            = Cardinality(Refs(ofile, f)) + One(f, g) - One(f, ofile[p][a])
      BY <1>2, <2>1, <3>1, <3>2, CountSet
    <3> QED BY <1>2, <3>3, Zenon
  <2>3. ref'[f] = ref[f] + One(f, g)
    BY <1>1, <1>3, <2>1 DEF One
  <2>4. ref[f] = Cardinality(Refs(ofile, f)) + Cardinality(Pending(tmp, f))
    BY Zenon DEF FileInv, Counted
  <2>5. Cardinality(Refs(ofile, f)) \in Nat /\ Cardinality(Pending(tmp, f)) \in Nat
    BY RefsFinite, Zenon
  <2> QED BY <1>1, <2>1, <2>2, <2>3, <2>4, <2>5 DEF One
<1>6. \A q \in Proc, x \in FD : ofile'[q][x] = IF q = p /\ x = a THEN g ELSE ofile[q][x]
  BY <1>1, <1>2, Zenon DEF FileInv, FileType
<1>7. Holding'
  <2>1. type[g] = "pipe"
    BY <1>1, Zenon DEF FileInv, Holding, g
  <2>2. \A f \in File : ref'[f] = 0 => ref[f] = 0
    BY <1>1, <1>3 DEF FileInv, FileType
  <2> QED BY <1>1, <1>6, <2>1, <2>2 DEF FileInv, Holding
<1>8. Ends'
  BY <1>1, Zenon DEF FileInv, Ends, ReadEnd, WriteEnd
<1>9. Using'
  <2>1. \A q \in Proc, x \in FD : ofile[q][x] # None => ofile'[q][x] = ofile[q][x]
    BY <1>2, <1>6, Zenon
  <2> QED BY <1>1, <2>1 DEF FileInv, Using
<1> QED BY <1>4, <1>5, <1>7, <1>8, <1>9, Zenon DEF FileInv

\* fileclose() drops a reference; with the last one the end of the pipe passes
\* from the file to the closing process.
LEMMA FileClose ==
  ASSUME FileInv, NEW p \in Proc, NEW d \in FD, ofile[p][d] # None, alive[p],
         pc[p] \in {"user", "exit"}, fileclose(p, d)
  PROVE  FileInv'
<1> DEFINE g == ofile[p][d]
<1>1. /\ ofile' = [ofile EXCEPT ![p][d] = None]
      /\ ref' = [ref EXCEPT ![g] = ref[g] - 1]
      /\ UNCHANGED <<writable, page, readopen, writeopen, alive, tmp>>
      /\ IF ref[g] > 1 THEN UNCHANGED <<type, pc>>
         ELSE /\ type' = [type EXCEPT ![g] = "none"]
              /\ pc' = [pc EXCEPT ![p] = IF writable[g] THEN "closew" ELSE "closer"]
  BY Zenon DEF fileclose, pipeVars, procVars, opVars, Goto
<1>2. g \in File /\ ref[g] \in Nat /\ ref[g] >= 1 /\ type[g] = "pipe" /\ g # None
  BY RefsCounted DEF FileInv, FileType, Holding
<1>3. ref[g] = 1 => \A q \in Proc, b \in FD : ofile[q][b] = g => q = p /\ b = d
  BY RefsCounted, Zenon
<1> HIDE DEF g
<1>4. FileType'
  <2>1. ref' \in [File -> Nat]
    BY <1>1, <1>2 DEF FileInv, FileType
  <2>2. type' \in [File -> {"none", "pipe"}] /\ pc' \in [Proc -> Labels]
    BY <1>1, Zenon DEF FileInv, FileType, Labels
  <2>3. ofile' \in [Proc -> [FD -> File \cup {None}]]
    BY <1>1, Zenon DEF FileInv, FileType
  <2> QED BY <1>1, <2>1, <2>2, <2>3, Zenon DEF FileInv, FileType
<1>5. \A q \in Proc, x \in FD : ofile'[q][x] = IF q = p /\ x = d THEN None ELSE ofile[q][x]
  BY <1>1, Zenon DEF FileInv, FileType
<1>6. Counted'
  <2> SUFFICES ASSUME NEW f \in File
               PROVE  ref'[f] = Cardinality(Refs(ofile', f)) + Cardinality(Pending(tmp', f))
    BY Zenon DEF Counted
  <2>1. /\ ref \in [File -> Nat] /\ f # None
        /\ ofile \in [Proc -> [FD -> File \cup {None}]]
    BY DEF FileInv, FileType, File, None
  <2>2. Cardinality(Refs(ofile', f)) = Cardinality(Refs(ofile, f)) + One(f, None) - One(f, g)
    <3>1. Changed(ofile, ofile', p, d, None)
      BY <1>5, Zenon DEF Changed
    <3>2. None # ofile[p][d] /\ None \in File \cup {None}
      BY Zenon
    <3>3. Cardinality(Refs(ofile', f))
            = Cardinality(Refs(ofile, f)) + One(f, None) - One(f, ofile[p][d])
      BY <2>1, <3>1, <3>2, CountSet
    <3> QED BY <3>3, Zenon DEF g
  <2>3. ref'[f] = ref[f] - One(f, g)
    BY <1>1, <1>2, <2>1 DEF One
  <2>4. ref[f] = Cardinality(Refs(ofile, f)) + Cardinality(Pending(tmp, f))
    BY Zenon DEF FileInv, Counted
  <2>5. Cardinality(Refs(ofile, f)) \in Nat /\ Cardinality(Pending(tmp, f)) \in Nat
    BY RefsFinite, Zenon
  <2> QED BY <1>1, <2>1, <2>2, <2>3, <2>4, <2>5, SMTT(60) DEF One
<1>7. CASE ref[g] > 1
  <2>1. UNCHANGED <<type, pc>>
    BY <1>1, <1>7, Zenon
  <2>2. Holding'
    <3>1. \A f \in File : ref'[f] = 0 => ref[f] = 0
      BY <1>1, <1>2, <1>7 DEF FileInv, FileType
    <3> QED BY <1>1, <1>5, <2>1, <3>1 DEF FileInv, Holding
  <2>3. Ends'
    BY <1>1, <2>1, Zenon DEF FileInv, Ends, ReadEnd, WriteEnd
  <2>4. Using'
    BY <1>1, <1>5, <2>1 DEF FileInv, Using, Reading, Writing
  <2> QED BY <1>4, <1>6, <2>2, <2>3, <2>4, Zenon DEF FileInv
<1>8. CASE ref[g] = 1
  <2>1. /\ \A f \in File : type'[f] = IF f = g THEN "none" ELSE type[f]
        /\ \A q \in Proc : pc'[q] = IF q = p THEN IF writable[g] THEN "closew" ELSE "closer"
                                           ELSE pc[q]
    BY <1>1, <1>8 DEF FileInv, FileType
  <2>2. Holding'
    <3>1. \A f \in File : ref'[f] = IF f = g THEN 0 ELSE ref[f]
      BY <1>1, <1>2, <1>8 DEF FileInv, FileType
    <3>2. \A q \in Proc : tmp[q] # g
      BY <1>2, Zenon DEF FileInv, Holding
    <3>3. \A q \in Proc, x \in FD : ofile'[q][x] # None => ofile'[q][x] = ofile[q][x] /\ ofile'[q][x] # g
      BY <1>3, <1>5, <1>8
    <3>4. tmp[p] = None
      BY Zenon DEF FileInv, Holding
    <3>5. \A q \in Proc, x \in FD : ofile[q][x] = None => ofile'[q][x] = None
      BY <1>5, Zenon
    <3>6. \A q \in Proc, x \in FD : ofile'[q][x] \in File \cup {None}
      BY <1>4 DEF FileType
    <3>7. \A q \in Proc : tmp[q] \in File \cup {None}
      BY Zenon DEF FileInv, FileType
    <3> QED BY <1>1, <2>1, <3>1, <3>2, <3>3, <3>4, <3>5, <3>6, <3>7 DEF FileInv, Holding
  <2>3. Ends'
    BY <1>1, <1>2, <2>1 DEF FileInv, Ends, ReadEnd, WriteEnd
  <2>4. Using'
    BY <1>1, <1>5, <2>1 DEF FileInv, Using, Reading, Writing
  <2> QED BY <1>4, <1>6, <2>2, <2>3, <2>4, Zenon DEF FileInv
<1> QED BY <1>2, <1>7, <1>8

\* fork() doubles the references of the parent's descriptors.
LEMMA FileFork ==
  ASSUME FileInv, NEW p \in Proc, NEW c \in Proc, fork(p, c)
  PROVE  FileInv'
<1>1. /\ alive[p] /\ pc[p] = "user" /\ ~alive[c]
      /\ ofile' = [ofile EXCEPT ![c] = ofile[p]]
      /\ ref' = [f \in File |-> ref[f] + Cardinality({d \in FD : ofile[p][d] = f})]
      /\ alive' = [alive EXCEPT ![c] = TRUE]
      /\ UNCHANGED <<type, writable, page, readopen, writeopen, pc, tmp>>
  BY Zenon DEF fork, Syscall, pipeVars, opVars
<1>2. pc[c] = "user" /\ \A d \in FD : ofile[c][d] = None
  BY <1>1, Zenon DEF FileInv, Holding
<1>3. \A f \in File : Cardinality({d \in FD : ofile[p][d] = f}) \in Nat
  <2> SUFFICES ASSUME NEW f \in File PROVE Cardinality({d \in FD : ofile[p][d] = f}) \in Nat
    BY Zenon
  <2> DEFINE D == {d \in FD : ofile[p][d] = f}
  <2>1. IsFiniteSet(FD)
    BY FS_Interval, PipeAssumption, 1 \in Int, NOFILE \in Int, Zenon DEF FD
  <2>2. D \in SUBSET FD
    BY Zenon
  <2> HIDE DEF D
  <2>3. Cardinality(D) \in Nat
    BY <2>1, <2>2, FS_Subset, FS_CardinalityType, Zenon
  <2> QED BY <2>3, Zenon DEF D
<1>4. FileType'
  <2>1. ref' \in [File -> Nat]
    BY <1>1, <1>3 DEF FileInv, FileType
  <2> QED BY <1>1, <2>1, Zenon DEF FileInv, FileType
<1>5. Counted'
  <2> SUFFICES ASSUME NEW f \in File
               PROVE  ref'[f] = Cardinality(Refs(ofile', f)) + Cardinality(Pending(tmp', f))
    BY Zenon DEF Counted
  <2>1. /\ ref \in [File -> Nat] /\ ofile \in [Proc -> [FD -> File \cup {None}]]
    BY Zenon DEF FileInv, FileType
  <2> DEFINE n == Cardinality({d \in FD : ofile[p][d] = f})
  <2>2. Cardinality(Refs([ofile EXCEPT ![c] = ofile[p]], f)) = Cardinality(Refs(ofile, f)) + n
    BY <1>2, <2>1, CountCopy, ZenonT(60)
  <2>3. ref'[f] = ref[f] + n /\ n \in Nat
    BY <1>1, <1>3, Zenon
  <2>4. ref[f] = Cardinality(Refs(ofile, f)) + Cardinality(Pending(tmp, f))
    BY Zenon DEF FileInv, Counted
  <2>5. Cardinality(Refs(ofile, f)) \in Nat /\ Cardinality(Pending(tmp, f)) \in Nat
    BY RefsFinite, Zenon
  <2> HIDE DEF n
  <2> QED BY <1>1, <2>2, <2>3, <2>4, <2>5
<1>6. \A q \in Proc, x \in FD : ofile'[q][x] = IF q = c THEN ofile[p][x] ELSE ofile[q][x]
  BY <1>1, Zenon DEF FileInv, FileType
<1>7. Holding'
  <2>1. \A f \in File : ref'[f] = 0 => ref[f] = 0
    BY <1>1, <1>3 DEF FileInv, FileType
  <2>2. \A q \in Proc : alive'[q] <=> alive[q] \/ q = c
    BY <1>1, Zenon DEF FileInv, FileType
  <2> QED BY <1>1, <1>6, <2>1, <2>2 DEF FileInv, Holding
<1>8. Ends'
  BY <1>1, Zenon DEF FileInv, Ends, ReadEnd, WriteEnd
<1>9. Using'
  BY <1>1, <1>2, <1>6 DEF FileInv, Using, Reading, Writing
<1> QED BY <1>4, <1>5, <1>7, <1>8, <1>9, Zenon DEF FileInv

\* pipeclose() ends one end, and with the second the page.
LEMMA FilePipeClose ==
  ASSUME FileInv, NEW p \in Proc, pipeclose(p)
  PROVE  FileInv'
<1>1. /\ UNCHANGED <<ofile, ref, type, writable, alive, tmp>>
      /\ page' = (readopen' \/ writeopen')
      /\ \/ /\ pc[p] = "closew" /\ writeopen' = FALSE /\ readopen' = readopen
            /\ pc' = [Wakeup(pc, "rsleep", "read") EXCEPT
                         ![p] = IF exiting[p] THEN "exit" ELSE "user"]
         \/ /\ pc[p] = "closer" /\ readopen' = FALSE /\ writeopen' = writeopen
            /\ pc' = [Wakeup(pc, "wsleep", "write") EXCEPT
                         ![p] = IF exiting[p] THEN "exit" ELSE "user"]
  BY Zenon DEF pipeclose, fileVars, procVars, opVars
<1>2. /\ pc' \in [Proc -> Labels] /\ pc'[p] \in {"user", "exit"}
      /\ \A q \in Proc : q # p =>
           \/ pc'[q] = pc[q]
           \/ pc[q] = "rsleep" /\ pc'[q] = "read"
           \/ pc[q] = "wsleep" /\ pc'[q] = "write"
  BY <1>1, Zenon DEF FileInv, FileType, Labels, Wakeup
<1>3. FileType'
  BY <1>1, <1>2, Zenon DEF FileInv, FileType
<1>4. Counted'
  BY <1>1, Zenon DEF FileInv, Counted
<1>5. Holding'
  BY <1>1, <1>2 DEF FileInv, Holding
<1>6. Ends'
  <2>1. \A q \in Proc : pc'[q] \in {"closer", "closew"} => q # p /\ pc'[q] = pc[q]
    BY <1>2, Zenon
  <2>2. page' <=> readopen' \/ writeopen'
    BY <1>1, Zenon
  <2>3. CASE pc[p] = "closew" /\ writeopen' = FALSE /\ readopen' = readopen
    <3>1. (\A f \in File : ~WriteEnd(f)) /\ \A q \in Proc : pc'[q] # "closew"
      BY <2>1, <2>3, Zenon DEF FileInv, Ends
    <3> QED BY <1>1, <2>1, <2>2, <2>3, <3>1, Zenon DEF FileInv, Ends, ReadEnd, WriteEnd
  <2>4. CASE pc[p] = "closer" /\ readopen' = FALSE /\ writeopen' = writeopen
    <3>1. (\A f \in File : ~ReadEnd(f)) /\ \A q \in Proc : pc'[q] # "closer"
      BY <2>1, <2>4, Zenon DEF FileInv, Ends
    <3> QED BY <1>1, <2>1, <2>2, <2>4, <3>1, Zenon DEF FileInv, Ends, ReadEnd, WriteEnd
  <2> QED BY <1>1, <2>3, <2>4, Zenon
<1>7. Using'
  BY <1>1, <1>2, Zenon DEF FileInv, Using, Reading, Writing
<1> QED BY <1>3, <1>4, <1>5, <1>6, <1>7, Zenon DEF FileInv

\* Every step keeps the invariant of the files.
LEMMA FileStep ==
  ASSUME FileInv, [Next]_vars
  PROVE  FileInv'
<1>1. CASE UNCHANGED vars
  <2>1. UNCHANGED <<ofile, ref, type, writable, page, readopen, writeopen, alive, tmp, pc>>
    BY <1>1, Zenon DEF vars, fileVars, pipeVars, procVars, opVars
  <2>2. pc' \in [Proc -> Labels]
    BY <2>1, Zenon DEF FileInv, FileType
  <2> QED BY <2>1, <2>2, FileUnchanged, Zenon
<1>2. ASSUME NEW p \in Proc, Step(p) PROVE FileInv'
  <2>1. CASE exit(p)
    <3>1. pc[p] = "exit" /\ alive[p]
      BY <2>1, Zenon DEF exit, FileInv, Holding
    <3> DEFINE H == FD \ FreeFDs(p)
    <3>2. CASE H # {} /\ fileclose(p, Min(H))
      <4>1. Min(H) \in H
        <5>1. H \in SUBSET (0 .. NOFILE)
          BY DEF FD
        <5> HIDE DEF H
        <5> QED BY <3>2, <5>1, MinIsLeast, PipeAssumption, Zenon
      <4>2. Min(H) \in FD /\ ofile[p][Min(H)] # None
        BY <4>1, Zenon DEF FreeFDs
      <4> HIDE DEF H
      <4> QED BY <3>1, <3>2, <4>2, FileClose, Zenon
    <3>3. CASE H = {} /\ ~(H # {} /\ fileclose(p, Min(H)))
      <4>1. /\ alive' = [alive EXCEPT ![p] = FALSE] /\ pc' = [pc EXCEPT ![p] = "user"]
            /\ UNCHANGED <<ofile, ref, type, writable, page, readopen, writeopen, tmp>>
        BY <2>1, <3>3, Zenon DEF exit, Goto, fileVars, pipeVars, opVars
      <4>2. \A d \in FD : ofile[p][d] = None
        BY <3>3, Zenon DEF FreeFDs
      <4>3. FileType'
        BY <4>1, Zenon DEF FileInv, FileType, Labels
      <4>4. Counted'
        BY <4>1, Zenon DEF FileInv, Counted
      <4>5. Holding'
        BY <3>1, <4>1, <4>2 DEF FileInv, Holding, FileType
      <4>6. Ends'
        BY <3>1, <4>1, Zenon DEF FileInv, Ends, ReadEnd, WriteEnd, FileType
      <4>7. Using'
        BY <4>1, Zenon DEF FileInv, Using, FileType, Reading, Writing
      <4> QED BY <4>3, <4>4, <4>5, <4>6, <4>7, Zenon DEF FileInv
    <3> QED BY <2>1, <3>2, <3>3, Zenon DEF exit
  <2>2. CASE pipewrite(p)
    <3>1. /\ UNCHANGED <<ofile, ref, type, writable, page, readopen, writeopen, alive, tmp>>
          /\ pc[p] = "write"
          /\ \/ pc' = [pc EXCEPT ![p] = "user"]
             \/ pc' = [Wakeup(pc, "rsleep", "read") EXCEPT ![p] = "user"]
             \/ pc' = [Wakeup(pc, "rsleep", "read") EXCEPT ![p] = "wgosleep"]
      BY <2>2, Zenon DEF pipewrite, fileVars, procVars, Goto
    <3>2. /\ pc' \in [Proc -> Labels] /\ pc'[p] \in {"user", "wgosleep"}
          /\ \A q \in Proc : q # p => pc'[q] = pc[q] \/ (pc[q] = "rsleep" /\ pc'[q] = "read")
      BY <3>1, Zenon DEF FileInv, FileType, Labels, Wakeup
    <3> QED BY <3>1, <3>2, FileUnchanged, SMTT(60) DEF FileInv, Holding, Using, Reading, Writing
  <2>3. CASE piperead(p)
    <3>1. /\ UNCHANGED <<ofile, ref, type, writable, page, readopen, writeopen, alive, tmp>>
          /\ pc[p] = "read"
          /\ \/ pc' = [pc EXCEPT ![p] = "user"]
             \/ pc' = [pc EXCEPT ![p] = "rgosleep"]
             \/ pc' = [Wakeup(pc, "wsleep", "write") EXCEPT ![p] = "user"]
      BY <2>3, Zenon DEF piperead, fileVars, procVars, Goto
    <3>2. /\ pc' \in [Proc -> Labels] /\ pc'[p] \in {"user", "rgosleep"}
          /\ \A q \in Proc : q # p => pc'[q] = pc[q] \/ (pc[q] = "wsleep" /\ pc'[q] = "write")
      BY <3>1, Zenon DEF FileInv, FileType, Labels, Wakeup
    <3> QED BY <3>1, <3>2, FileUnchanged, SMTT(60) DEF FileInv, Holding, Using, Reading, Writing
  <2>4. CASE sleep(p)
    <3>1. /\ UNCHANGED <<ofile, ref, type, writable, page, readopen, writeopen, alive, tmp>>
          /\ \/ pc[p] = "rgosleep" /\ pc' = [pc EXCEPT ![p] = "rsleep"]
             \/ pc[p] = "wgosleep" /\ pc' = [pc EXCEPT ![p] = "wsleep"]
      BY <2>4, Zenon DEF sleep, fileVars, pipeVars, procVars, opVars, Goto
    <3>2. pc' \in [Proc -> Labels] /\ \A q \in Proc : q # p => pc'[q] = pc[q]
      BY <3>1, Zenon DEF FileInv, FileType, Labels
    <3>3. pc'[p] = "rsleep" \/ pc'[p] = "wsleep"
      BY <3>1, Zenon DEF FileInv, FileType
    <3> QED BY <3>1, <3>2, <3>3, FileUnchanged, SMTT(60)
            DEF FileInv, FileType, Holding, Using, Reading, Writing
  <2> QED BY <1>2, <2>1, <2>2, <2>3, <2>4, FilePipeAlloc, FilePipeBad, FilePipeClose, Zenon DEF Step
<1>3. ASSUME NEW p \in Proc, Call(p) PROVE FileInv'
  <2>1. ASSUME NEW d \in FD, sys_close(p, d) PROVE FileInv'
    BY <2>1, FileClose, Zenon DEF sys_close, Syscall
  <2>2. ASSUME NEW d \in FD, NEW n, sys_read(p, d, n) \/ sys_write(p, d, n) PROVE FileInv'
    <3>1. /\ UNCHANGED <<ofile, ref, type, writable, page, readopen, writeopen, alive, tmp>>
          /\ alive[p] /\ pc[p] = "user" /\ ofile[p][d] # None
          /\ \/ ~writable[ofile[p][d]] /\ pc' = [pc EXCEPT ![p] = "read"]
             \/ writable[ofile[p][d]] /\ pc' = [pc EXCEPT ![p] = "write"]
      BY <2>2, Zenon DEF sys_read, sys_write, Syscall, fileVars, pipeVars, procVars, Goto
    <3>2. pc' \in [Proc -> Labels] /\ \A q \in Proc : q # p => pc'[q] = pc[q]
      BY <3>1, Zenon DEF FileInv, FileType, Labels
    <3>3. \/ pc'[p] = "read" /\ ~writable[ofile[p][d]]
          \/ pc'[p] = "write" /\ writable[ofile[p][d]]
      BY <3>1, Zenon DEF FileInv, FileType
    <3> QED BY <3>1, <3>2, <3>3, FileUnchanged, Zenon DEF Reading, Writing
  <2>3. CASE sys_exit(p)
    <3>1. /\ UNCHANGED <<ofile, ref, type, writable, page, readopen, writeopen, alive, tmp>>
          /\ alive[p] /\ pc[p] = "user" /\ pc' = [pc EXCEPT ![p] = "exit"]
      BY <2>3, Zenon DEF sys_exit, fileVars, pipeVars, opVars, Goto
    <3>2. /\ pc' \in [Proc -> Labels] /\ pc'[p] = "exit"
          /\ \A q \in Proc : q # p => pc'[q] = pc[q]
      BY <3>1, Zenon DEF FileInv, FileType, Labels
    <3> QED BY <3>1, <3>2, FileUnchanged, Zenon DEF Reading, Writing
  <2>4. CASE kill(p)
    <3>1. /\ UNCHANGED <<ofile, ref, type, writable, page, readopen, writeopen, alive, tmp>>
          /\ pc' = [pc EXCEPT ![p] = IF pc[p] = "rsleep" THEN "read"
                                     ELSE IF pc[p] = "wsleep" THEN "write" ELSE pc[p]]
      BY <2>4, Zenon DEF kill, fileVars, pipeVars, opVars
    <3>2. /\ pc' \in [Proc -> Labels] /\ \A q \in Proc : q # p => pc'[q] = pc[q]
          /\ \/ pc'[p] = pc[p]
             \/ pc[p] = "rsleep" /\ pc'[p] = "read"
             \/ pc[p] = "wsleep" /\ pc'[p] = "write"
      BY <3>1, Zenon DEF FileInv, FileType, Labels
    <3>3. pc'[p] # pc[p] =>
            /\ alive[p] /\ pc[p] \notin {"pipe", "closer", "closew"}
            /\ pc'[p] \notin {"pipe", "closer", "closew"}
            /\ pc'[p] \in Reading => pc[p] \in Reading
            /\ pc'[p] \in Writing => pc[p] \in Writing
      BY <3>2 DEF FileInv, Holding, Reading, Writing
    <3>4. /\ pc[p] \in Reading => \E d \in FD : ofile[p][d] # None /\ ~writable[ofile[p][d]]
          /\ pc[p] \in Writing => \E d \in FD : ofile[p][d] # None /\ writable[ofile[p][d]]
      BY Zenon DEF FileInv, Using
    <3> QED BY <3>1, <3>2, <3>3, <3>4, FileUnchanged, Zenon
  <2> QED BY <1>3, <2>1, <2>2, <2>3, <2>4, FileSysPipe, FileDup, FileFork, Zenon DEF Call
<1> QED BY <1>1, <1>2, <1>3, Zenon DEF Next

\* file.c: the reference count of a file is the number of descriptors that
\* refer to it, for any number of processes that fork, dup, close and exit.
THEOREM CountsAreDescriptors == Spec => []RefsAreDescriptors
<1>1. FileInv => RefsAreDescriptors
  BY Zenon DEF FileInv, Counted, RefsAreDescriptors, Refs, Pending
<1> QED BY <1>1, FileInit, FileStep, PTL DEF Spec

\* A process inside the pipe holds an end of it, or is closing the last
\* reference to one; either way the page is there.
LEMMA PageInUse == FileInv => NoUseAfterFree
<1> SUFFICES ASSUME FileInv PROVE NoUseAfterFree
  BY Zenon
<1>1. page <=> readopen \/ writeopen
  BY Zenon DEF FileInv, Ends
<1>2. ASSUME NEW p \in Proc, pc[p] \in InPipe PROVE page
  <2>1. CASE pc[p] \in Reading \cup Writing
    <3>1. PICK d \in FD : ofile[p][d] # None
      BY <2>1, Zenon DEF FileInv, Using
    <3>2. ofile[p][d] \in File /\ type[ofile[p][d]] = "pipe"
      BY <3>1 DEF FileInv, FileType, Holding
    <3> QED BY <1>1, <3>2, Zenon DEF FileInv, FileType, Ends, ReadEnd, WriteEnd
  <2>2. CASE pc[p] \in {"closer", "closew"}
    BY <1>1, <2>2, Zenon DEF FileInv, Ends
  <2> QED BY <1>2, <2>1, <2>2, Zenon DEF InPipe, Reading, Writing
<1> QED BY <1>1, <1>2, Zenon DEF NoUseAfterFree

\* pipe.c: nobody reads, writes, sleeps on or closes a pipe after its page has
\* been freed, and the page lives as long as one of its ends.
THEOREM PageOutlivesUse == Spec => []NoUseAfterFree
BY PageInUse, FileInit, FileStep, PTL DEF Spec

-----------------------------------------------------------------------------
(* The buffer of a pipe: who may sleep on it, and that it is a queue.      *)

Places == 0 .. PIPESIZE - 1
Counter == 0 .. UINT - 1
Falling == {"rgosleep", "wgosleep"}

BufferType ==
  /\ nread \in Counter /\ nwrite \in Counter /\ Used <= PIPESIZE
  /\ plock \in BOOLEAN /\ silent \in BOOLEAN /\ data \in [Places -> Byte]
  /\ count \in [Proc -> Nat] /\ killed \in [Proc -> BOOLEAN]

\* One process at a time is between its test of the buffer and sleep(), and it
\* holds the pipe's lock, so that what it has tested stays true.
Tested ==
  /\ \A p \in Proc : pc[p] \in Falling => plock
  /\ \A p, q \in Proc : pc[p] \in Falling /\ pc[q] \in Falling => p = q
  /\ \A p \in Proc : /\ pc[p] = "rgosleep" => Empty /\ writeopen
                     /\ pc[p] = "wgosleep" => Full /\ readopen

SleepInv == BufferType /\ Tested /\ SleepersWaitForCause

-----------------------------------------------------------------------------
(* Arithmetic of the counters *)

\* The counters in terms of the number of bytes between them.
LEMMA Counters ==
  ASSUME NEW r \in Counter, NEW w \in Counter
  PROVE  /\ (w - r) % UINT \in Counter
         /\ (r = w) = ((w - r) % UINT = 0)
         /\ (w = (r + PIPESIZE) % UINT) = ((w - r) % UINT = PIPESIZE)
<1>1. /\ UINT \in Int /\ UINT > 0 /\ PIPESIZE \in Int /\ PIPESIZE < UINT /\ PIPESIZE > 0
      /\ r \in Int /\ w \in Int
  BY PipeAssumption DEF Counter
<1>2. \A z \in Int : /\ 0 <= z /\ z < UINT => z % UINT = z
                     /\ UINT <= z /\ z < 2 * UINT => z % UINT = z - UINT
                     /\ -UINT <= z /\ z < 0 => z % UINT = z + UINT
  BY <1>1, ModRange, Zenon
<1>3. (w - r) % UINT = IF w >= r THEN w - r ELSE w - r + UINT
  BY <1>1, <1>2 DEF Counter
<1>4. (r + PIPESIZE) % UINT = IF r + PIPESIZE < UINT THEN r + PIPESIZE
                              ELSE r + PIPESIZE - UINT
  BY <1>1, <1>2 DEF Counter
<1> DEFINE d == (w - r) % UINT
           f == (r + PIPESIZE) % UINT
<1> HIDE DEF d, f
<1>5. d \in Counter /\ (r = w) = (d = 0) /\ (w = f) = (d = PIPESIZE)
  BY <1>1, <1>3, <1>4 DEF d, f, Counter
<1> QED BY <1>5, Zenon DEF d, f

\* Moving one of the counters.
LEMMA CountersMove ==
  ASSUME NEW r \in Counter, NEW w \in Counter, NEW m \in Nat, m < UINT
  PROVE  /\ (r + m) % UINT \in Counter
         /\ (r + m) % UINT = IF r + m < UINT THEN r + m ELSE r + m - UINT
         /\ ((w - r) % UINT) + m < UINT =>
              (((w + m) % UINT) - r) % UINT = ((w - r) % UINT) + m
         /\ m <= (w - r) % UINT => (w - ((r + m) % UINT)) % UINT = ((w - r) % UINT) - m
<1>1. UINT \in Int /\ UINT > 0 /\ r \in Int /\ w \in Int /\ m \in Int
  BY PipeAssumption DEF Counter
<1>2. \A z \in Int : /\ z % UINT \in 0 .. UINT - 1
                     /\ 0 <= z /\ z < UINT => z % UINT = z
                     /\ UINT <= z /\ z < 2 * UINT => z % UINT = z - UINT
                     /\ -UINT <= z /\ z < 0 => z % UINT = z + UINT
  BY <1>1, ModRange, Zenon
<1> DEFINE d == (w - r) % UINT
           x == (r + m) % UINT
           y == (w + m) % UINT
<1>3. d = IF w >= r THEN w - r ELSE w - r + UINT
  BY <1>1, <1>2 DEF Counter
<1>4. x = IF r + m < UINT THEN r + m ELSE r + m - UINT
  BY <1>1, <1>2 DEF Counter
<1>5. y = IF w + m < UINT THEN w + m ELSE w + m - UINT
  BY <1>1, <1>2 DEF Counter
<1>6. x \in Counter /\ y \in Counter /\ d \in Counter
  BY <1>1, <1>2 DEF Counter
<1> HIDE DEF d, x, y
<1>7. (y - r) % UINT = IF y >= r THEN y - r ELSE y - r + UINT
  BY <1>1, <1>2, <1>6 DEF Counter
<1>8. (w - x) % UINT = IF w >= x THEN w - x ELSE w - x + UINT
  BY <1>1, <1>2, <1>6 DEF Counter
<1>9. d + m < UINT => (y - r) % UINT = d + m
  BY <1>1, <1>3, <1>5, <1>7 DEF Counter
<1>10. m <= d => (w - x) % UINT = d - m
  BY <1>1, <1>3, <1>4, <1>8 DEF Counter
<1> QED BY <1>4, <1>6, <1>9, <1>10, Zenon DEF d, x, y

-----------------------------------------------------------------------------
(* Sleepers *)

\* Counters that are zero.
LEMMA NoBytes ==
  /\ nread = 0 /\ nwrite = 0 => nread \in Counter /\ nwrite \in Counter /\ Used <= PIPESIZE
  /\ nread' = 0 /\ nwrite' = 0 =>
       nread' \in Counter /\ nwrite' \in Counter /\ Used' <= PIPESIZE
<1>1. 0 \in Counter /\ 0 <= PIPESIZE
  BY PipeAssumption DEF Counter
<1>2. (0 - 0) % UINT = 0
  BY <1>1, Counters, Zenon
<1> QED BY <1>1, <1>2, Zenon DEF Used

\* Every process starts outside the pipe, which is empty.
LEMMA SleepInit == Init => SleepInv
<1> SUFFICES ASSUME Init PROVE SleepInv
  BY Zenon
<1>1. nread \in Counter /\ nwrite \in Counter /\ Used <= PIPESIZE
  BY NoBytes, Zenon DEF Init
<1>2. data \in [Places -> Byte]
  <2>1. (CHOOSE b \in Byte : TRUE) \in Byte
    BY PipeAssumption, Zenon
  <2> QED BY <2>1, Zenon DEF Init, Junk, Places
<1>3. BufferType
  BY <1>1, <1>2, PipeAssumption, Zenon DEF Init, BufferType
<1>4. \A p \in Proc : pc[p] = "user"
  BY Zenon DEF Init
<1> QED BY <1>3, <1>4, Zenon DEF SleepInv, Tested, SleepersWaitForCause, Falling

\* Full and Empty as numbers of bytes.
LEMMA Fill ==
  ASSUME BufferType
  PROVE  /\ Used \in Nat /\ Used < UINT /\ Room \in Nat
         /\ Empty <=> Used = 0
         /\ Full <=> Used = PIPESIZE
<1>1. nread \in Counter /\ nwrite \in Counter /\ Used <= PIPESIZE
  BY Zenon DEF BufferType
<1>2. /\ Used \in Counter /\ (nread = nwrite) = (Used = 0)
      /\ (nwrite = (nread + PIPESIZE) % UINT) = (Used = PIPESIZE)
  BY <1>1, Counters, Zenon DEF Used
<1>3. Used \in Nat /\ Used < UINT /\ PIPESIZE - Used \in Nat
  BY <1>1, <1>2, PipeAssumption DEF Counter
<1> QED BY <1>2, <1>3, Zenon DEF Room, Empty, Full

\* Steps that leave the buffer alone and put nobody to sleep.
LEMMA SleepUnchanged ==
  ASSUME SleepInv, UNCHANGED <<nread, nwrite, data, readopen, writeopen, silent, plock>>,
         count' \in [Proc -> Nat], killed' \in [Proc -> BOOLEAN],
         \A p \in Proc : \/ pc'[p] = pc[p]
                        \/ pc'[p] \notin Falling \cup {"rsleep", "wsleep"}
  PROVE  SleepInv'
<1>1. BufferType'
  BY Zenon DEF SleepInv, BufferType, Used
<1>2. Tested'
  BY Zenon DEF SleepInv, Tested, Falling, Empty, Full
<1>3. SleepersWaitForCause'
  BY Zenon DEF SleepInv, SleepersWaitForCause, Empty, Full
<1> QED BY <1>1, <1>2, <1>3, Zenon DEF SleepInv

\* One process moves to a label where it is not asleep.
LEMMA OneMoves ==
  ASSUME SleepInv, FileInv, NEW p \in Proc,
         UNCHANGED <<nread, nwrite, data, readopen, writeopen, silent, plock, count>>,
         killed' = killed \/ killed' = [killed EXCEPT ![p] = FALSE],
         NEW l, l \notin Falling \cup {"rsleep", "wsleep"}, pc' = [pc EXCEPT ![p] = l]
  PROVE  SleepInv'
<1>1. count' \in [Proc -> Nat] /\ killed' \in [Proc -> BOOLEAN]
  BY Zenon DEF SleepInv, BufferType
<1>2. \A q \in Proc : \/ pc'[q] = pc[q]
                      \/ pc'[q] \notin Falling \cup {"rsleep", "wsleep"}
  BY Zenon DEF FileInv, FileType
<1> QED BY <1>1, <1>2, SleepUnchanged, Zenon

\* Closing a descriptor does not touch the buffer.
LEMMA SleepFileClose ==
  ASSUME SleepInv, FileInv, NEW p \in Proc, NEW d, fileclose(p, d)
  PROVE  SleepInv'
<1>1. /\ UNCHANGED <<nread, nwrite, data, readopen, writeopen, silent, plock, count, killed>>
      /\ \/ pc' = pc
         \/ pc' = [pc EXCEPT ![p] = "closew"]
         \/ pc' = [pc EXCEPT ![p] = "closer"]
  BY Zenon DEF fileclose, pipeVars, procVars, opVars, Goto
<1>2. count' \in [Proc -> Nat] /\ killed' \in [Proc -> BOOLEAN]
  BY <1>1, Zenon DEF SleepInv, BufferType
<1>3. \A q \in Proc : \/ pc'[q] = pc[q]
                      \/ pc'[q] \notin Falling \cup {"rsleep", "wsleep"}
  BY <1>1, Zenon DEF FileInv, FileType, Falling
<1> QED BY <1>1, <1>2, <1>3, SleepUnchanged, Zenon

\* A new pipe: nobody is in the old one.
LEMMA SleepAlloc ==
  ASSUME SleepInv, FileInv, NoUseAfterFree, NEW p \in Proc, pipealloc(p)
  PROVE  SleepInv'
<1>1. /\ ~page /\ nread' = 0 /\ nwrite' = 0 /\ silent' = FALSE
      /\ UNCHANGED <<data, plock, killed, count>> /\ pc' = [pc EXCEPT ![p] = "user"]
  BY Zenon DEF pipealloc, procVars, Goto
<1>2. \A q \in Proc : pc'[q] \notin Falling \cup {"rsleep", "wsleep"}
  BY <1>1, Zenon DEF FileInv, FileType, NoUseAfterFree, InPipe, Falling
<1>3. BufferType'
  <2>1. nread' \in Counter /\ nwrite' \in Counter /\ Used' <= PIPESIZE
    BY <1>1, NoBytes, Zenon
  <2> QED BY <1>1, <2>1, Zenon DEF SleepInv, BufferType
<1> QED BY <1>2, <1>3, Zenon DEF SleepInv, Tested, SleepersWaitForCause, Falling

\* Closing an end wakes those that wait for it; the others wait for the end
\* that is still open, so that the page stays.
LEMMA SleepClose ==
  ASSUME SleepInv, FileInv, NEW p \in Proc, pipeclose(p)
  PROVE  SleepInv'
<1>1. /\ ~plock /\ UNCHANGED <<plock, killed, count>>
      /\ page' = (readopen' \/ writeopen')
      /\ IF page' THEN UNCHANGED <<nread, nwrite, data>>
                  ELSE nread' = 0 /\ nwrite' = 0 /\ data' = Junk
      /\ \/ /\ writeopen' = FALSE /\ readopen' = readopen /\ silent' = FALSE
            /\ pc' = [Wakeup(pc, "rsleep", "read") EXCEPT
                         ![p] = IF exiting[p] THEN "exit" ELSE "user"]
         \/ /\ readopen' = FALSE /\ writeopen' = writeopen /\ silent' = silent
            /\ pc' = [Wakeup(pc, "wsleep", "write") EXCEPT
                         ![p] = IF exiting[p] THEN "exit" ELSE "user"]
  BY Zenon DEF pipeclose, procVars, opVars
<1>2. \A q \in Proc : pc[q] \notin Falling
  BY <1>1, Zenon DEF SleepInv, Tested
<1>3. /\ \A q \in Proc : pc'[q] \notin Falling
      /\ \A q \in Proc : pc'[q] \in {"rsleep", "wsleep"} => pc'[q] = pc[q]
      /\ \/ /\ writeopen' = FALSE /\ readopen' = readopen
            /\ \A q \in Proc : pc'[q] # "rsleep"
         \/ /\ readopen' = FALSE /\ writeopen' = writeopen /\ silent' = silent
            /\ \A q \in Proc : pc'[q] # "wsleep"
  <2> DEFINE after == IF exiting[p] THEN "exit" ELSE "user"
  <2>1. after \notin Falling \cup {"rsleep", "wsleep"}
    BY Zenon DEF Falling
  <2> HIDE DEF after
  <2>2. CASE /\ writeopen' = FALSE /\ readopen' = readopen
             /\ pc' = [Wakeup(pc, "rsleep", "read") EXCEPT ![p] = after]
    <3>1. \A q \in Proc : pc'[q] = IF q = p THEN after
                                   ELSE IF pc[q] = "rsleep" THEN "read" ELSE pc[q]
      BY <2>2, Zenon DEF Wakeup
    <3> QED BY <1>2, <2>1, <2>2, <3>1 DEF Falling
  <2>3. CASE /\ readopen' = FALSE /\ writeopen' = writeopen /\ silent' = silent
             /\ pc' = [Wakeup(pc, "wsleep", "write") EXCEPT ![p] = after]
    <3>1. \A q \in Proc : pc'[q] = IF q = p THEN after
                                   ELSE IF pc[q] = "wsleep" THEN "write" ELSE pc[q]
      BY <2>3, Zenon DEF Wakeup
    <3> QED BY <1>2, <2>1, <2>3, <3>1 DEF Falling
  <2> QED BY <1>1, <2>2, <2>3, Zenon DEF after
<1>4. BufferType'
  <2>1. CASE page'
    BY <1>1, <2>1, Zenon DEF SleepInv, BufferType, Used
  <2>2. CASE ~page'
    <3>2. nread' \in Counter /\ nwrite' \in Counter /\ Used' <= PIPESIZE
      BY <1>1, <2>2, NoBytes, Zenon
    <3>3. data' \in [Places -> Byte]
      <4>1. (CHOOSE b \in Byte : TRUE) \in Byte
        BY PipeAssumption, Zenon
      <4> QED BY <1>1, <2>2, <4>1, Zenon DEF Junk, Places
    <3>4. silent' \in BOOLEAN
      BY <1>1, Zenon DEF SleepInv, BufferType
    <3> QED BY <1>1, <3>2, <3>3, <3>4, Zenon DEF SleepInv, BufferType
  <2> QED BY <2>1, <2>2, Zenon
<1>5. Tested'
  BY <1>3, Zenon DEF Tested, Falling
<1>6. SleepersWaitForCause'
  <2> SUFFICES ASSUME NEW q \in Proc
               PROVE  /\ pc'[q] = "rsleep" => writeopen' /\ (Empty' \/ silent')
                      /\ pc'[q] = "wsleep" => Full' /\ readopen'
    BY Zenon DEF SleepersWaitForCause
  <2>1. ASSUME pc'[q] = "rsleep" PROVE writeopen' /\ (Empty' \/ silent')
    <3>1. pc[q] = "rsleep" /\ writeopen' = writeopen /\ silent' = silent
      BY <1>3, <2>1, Zenon
    <3>2. writeopen /\ (Empty \/ silent)
      BY <3>1, Zenon DEF SleepInv, SleepersWaitForCause
    <3> QED BY <1>1, <3>1, <3>2, Zenon DEF Empty
  <2>2. ASSUME pc'[q] = "wsleep" PROVE Full' /\ readopen'
    <3>1. pc[q] = "wsleep" /\ readopen' = readopen
      BY <1>3, <2>2, Zenon
    <3>2. Full /\ readopen
      BY <3>1, Zenon DEF SleepInv, SleepersWaitForCause
    <3> QED BY <1>1, <3>1, <3>2, Zenon DEF Full
  <2> QED BY <2>1, <2>2, Zenon
<1> QED BY <1>4, <1>5, <1>6, Zenon DEF SleepInv

\* The place of the j-th byte after counter a, and the data after m bytes have
\* been stored there.
Place(a, j) == ((a + j) % UINT) % PIPESIZE
Stored(b, a, m, addr) ==
  [i \in DOMAIN b |-> IF \E j \in 0 .. m - 1 : i = Place(a, j)
                      THEN addr[CHOOSE j \in 0 .. m - 1 : i = Place(a, j)] ELSE b[i]]

\* A place is one of the buffer.
LEMMA PlaceInBuffer ==
  ASSUME NEW a \in Counter, NEW j \in Nat
  PROVE  Place(a, j) \in Places
<1>1. UINT \in Int /\ UINT > 0 /\ PIPESIZE \in Int /\ PIPESIZE > 0 /\ a + j \in Int
  BY PipeAssumption DEF Counter
<1>2. (a + j) % UINT \in Int
  BY <1>1, ModRange
<1> QED BY <1>1, <1>2, ModRange, Zenon DEF Place, Places

\* Different bytes of the buffer have different places.
LEMMA PlacesApart ==
  ASSUME NEW a \in Counter, NEW i \in Places, NEW j \in Places, Place(a, i) = Place(a, j)
  PROVE  i = j
<1>1. ASSUME NEW g \in Places, NEW h \in Places, g < h PROVE Place(a, g) # Place(a, h)
  <2> DEFINE x == (a + g) % UINT
             y == (a + h) % UINT
  <2>1. /\ PIPESIZE \in Int /\ PIPESIZE > 0 /\ UINT \in Int /\ UINT % PIPESIZE = 0
        /\ h - g \in Int /\ 0 < h - g /\ h - g < PIPESIZE
    BY <1>1, PipeAssumption DEF Places
  <2>2. g \in Nat /\ g < UINT /\ h \in Nat /\ h < UINT
    BY PipeAssumption DEF Places
  <2>3. /\ x \in Counter /\ y \in Counter
        /\ x = IF a + g < UINT THEN a + g ELSE a + g - UINT
        /\ y = IF a + h < UINT THEN a + h ELSE a + h - UINT
    BY <2>2, CountersMove
  <2> HIDE DEF x, y
  <2>4. x \in Int /\ y \in Int /\ (y - x = h - g \/ y - x = h - g - UINT)
    BY <1>1, <2>1, <2>2, <2>3 DEF Counter
  <2>5. x % PIPESIZE # y % PIPESIZE
    BY <2>1, <2>4, PlacesDiffer, Zenon
  <2> QED BY <2>5, Zenon DEF Place, x, y
<1>2. i \in Int /\ j \in Int
  BY PipeAssumption DEF Places
<1> QED BY <1>1, <1>2

\* What is stored are the bytes, each at its place, and nothing else changes.
LEMMA StoredBytes ==
  ASSUME NEW b \in [Places -> Byte], NEW a \in Counter, NEW m \in Nat, m <= PIPESIZE,
         NEW addr \in [0 .. m - 1 -> Byte]
  PROVE  /\ Stored(b, a, m, addr) \in [Places -> Byte]
         /\ \A j \in 0 .. m - 1 : Stored(b, a, m, addr)[Place(a, j)] = addr[j]
         /\ \A i \in Places : (\A j \in 0 .. m - 1 : i # Place(a, j)) =>
              Stored(b, a, m, addr)[i] = b[i]
<1> DEFINE c == Stored(b, a, m, addr)
<1>1. \A i \in Places : c[i] = IF \E j \in 0 .. m - 1 : i = Place(a, j)
                               THEN addr[CHOOSE j \in 0 .. m - 1 : i = Place(a, j)]
                               ELSE b[i]
  BY Zenon DEF Stored
<1>2. c = [i \in Places |-> c[i]]
  BY Zenon DEF Stored
<1> HIDE DEF c
<1>3. ASSUME NEW j \in 0 .. m - 1 PROVE c[Place(a, j)] = addr[j]
  <2>1. Place(a, j) \in Places
    BY PlaceInBuffer
  <2> DEFINE h == CHOOSE h \in 0 .. m - 1 : Place(a, j) = Place(a, h)
  <2>2. h \in 0 .. m - 1 /\ Place(a, j) = Place(a, h)
    BY Zenon
  <2>3. c[Place(a, j)] = addr[h]
    BY <1>1, <2>1, Zenon
  <2> HIDE DEF h
  <2>4. h = j
    <3>1. h \in Places /\ j \in Places
      BY <2>2, PipeAssumption DEF Places
    <3> QED BY <2>2, <3>1, PlacesApart, Zenon
  <2> QED BY <2>3, <2>4, Zenon
<1>4. ASSUME NEW i \in Places PROVE c[i] \in Byte
  <2>1. CASE \E j \in 0 .. m - 1 : i = Place(a, j)
    BY <1>3, <2>1, Zenon
  <2> QED BY <1>1, <2>1, Zenon
<1>5. c \in [Places -> Byte]
  BY <1>2, <1>4, Zenon
<1>6. \A i \in Places : (\A j \in 0 .. m - 1 : i # Place(a, j)) => c[i] = b[i]
  BY <1>1, Zenon
<1> QED BY <1>3, <1>5, <1>6, Zenon DEF c

\* A write stores as many bytes as there is room for.
LEMMA WriteStores ==
  ASSUME SleepInv, NEW p \in Proc, pipewrite(p)
  PROVE  \E m \in 0 .. Room : \E addr \in [0 .. m - 1 -> Byte] :
           /\ m = count[p] \/ m = Room
           /\ m <= count[p]
           /\ data' = Stored(data, nwrite, m, addr) /\ data' \in [Places -> Byte]
           /\ nwrite' = (nwrite + m) % UINT /\ nwrite' \in Counter
           /\ UNCHANGED <<nread, readopen, writeopen, page, killed>>
           /\ count' \in [Proc -> Nat]
           /\ (nwrite' - nread) % UINT = Used + m
           /\ \/ /\ plock' = FALSE /\ silent' = (silent \/ m > 0)
                 /\ pc' = [pc EXCEPT ![p] = "user"]
              \/ /\ plock' = FALSE /\ silent' = FALSE
                 /\ pc' = [Wakeup(pc, "rsleep", "read") EXCEPT ![p] = "user"]
              \/ /\ plock' = TRUE /\ silent' = FALSE /\ m = Room /\ readopen
                 /\ pc' = [Wakeup(pc, "rsleep", "read") EXCEPT ![p] = "wgosleep"]
<1> DEFINE m == Min({count[p], Room})
           left == count[p] - m
           stop == left > 0 /\ (~readopen \/ killed[p])
<1>1. Room \in Nat /\ count[p] \in Nat /\ Used \in Nat /\ nread \in Counter /\ nwrite \in Counter
  BY Fill, Zenon DEF SleepInv, BufferType
<1>2. m \in Nat /\ m <= count[p] /\ m <= Room /\ (m = count[p] \/ m = Room)
  BY <1>1, MinOfTwo, Zenon
<1>3. PICK addr \in [0 .. m - 1 -> Byte] : data' = Stored(data, nwrite, m, addr)
  BY Zenon DEF pipewrite, Stored, Place
<1>4. /\ nwrite' = (nwrite + m) % UINT
      /\ count' = [count EXCEPT ![p] = IF stop THEN 0 ELSE left]
      /\ plock' = (left > 0 /\ ~stop)
      /\ IF stop
         THEN pc' = [pc EXCEPT ![p] = "user"] /\ silent' = (silent \/ m > 0)
         ELSE /\ pc' = [Wakeup(pc, "rsleep", "read") EXCEPT
                             ![p] = IF left = 0 THEN "user" ELSE "wgosleep"]
              /\ silent' = FALSE
      /\ UNCHANGED <<nread, readopen, writeopen, page, killed>>
  BY Zenon DEF pipewrite, Goto, procVars
<1> HIDE DEF m
<1>5. m <= PIPESIZE /\ m < UINT /\ Used + m < UINT
  BY <1>1, <1>2, PipeAssumption DEF Room
<1>6. data' \in [Places -> Byte]
  BY <1>1, <1>2, <1>3, <1>5, StoredBytes, Zenon DEF SleepInv, BufferType
<1>7. nwrite' \in Counter /\ (nwrite' - nread) % UINT = Used + m
  <2>1. ((nwrite - nread) % UINT) + m < UINT
    BY <1>5, Zenon DEF Used
  <2>2. /\ (nwrite + m) % UINT \in Counter
        /\ (((nwrite + m) % UINT) - nread) % UINT = ((nwrite - nread) % UINT) + m
    BY <1>1, <1>2, <1>5, <2>1, CountersMove
  <2> QED BY <1>4, <2>2, Zenon DEF Used
<1>8. left \in Nat
  BY <1>1, <1>2
<1>9. count' \in [Proc -> Nat]
  BY <1>4, <1>8, Zenon DEF SleepInv, BufferType
<1>10. \/ /\ plock' = FALSE /\ silent' = (silent \/ m > 0)
          /\ pc' = [pc EXCEPT ![p] = "user"]
       \/ /\ plock' = FALSE /\ silent' = FALSE
          /\ pc' = [Wakeup(pc, "rsleep", "read") EXCEPT ![p] = "user"]
       \/ /\ plock' = TRUE /\ silent' = FALSE /\ m = Room /\ readopen
          /\ pc' = [Wakeup(pc, "rsleep", "read") EXCEPT ![p] = "wgosleep"]
  <2>1. CASE stop
    <3>1. plock' = FALSE
      BY <1>4, <2>1, Zenon
    <3> QED BY <1>4, <2>1, <3>1, Zenon
  <2>2. CASE ~stop /\ left = 0
    <3>1. plock' = FALSE
      <4>1. ~(left > 0)
        BY <1>8, <2>2
      <4>2. plock' = (left > 0 /\ ~stop)
        BY <1>4, Zenon
      <4> HIDE DEF left, stop
      <4> QED BY <4>1, <4>2, Zenon
    <3> QED BY <1>4, <2>2, <3>1, Zenon
  <2>3. CASE ~stop /\ left # 0
    <3>1. left > 0
      BY <1>8, <2>3
    <3>2. plock' = TRUE
      BY <1>4, <2>3, <3>1, Zenon
    <3>4. readopen
      BY <2>3, <3>1, Zenon
    <3>3. m = Room
      BY <1>1, <1>2, <2>3
    <3> QED BY <1>4, <2>3, <3>2, <3>3, <3>4, Zenon
  <2> QED BY <2>1, <2>2, <2>3, Zenon
<1>11. m \in 0 .. Room
  BY <1>1, <1>2
<1> HIDE DEF left, stop
<1> QED BY <1>2, <1>3, <1>4, <1>6, <1>7, <1>9, <1>10, <1>11, Zenon

\* A writer that sleeps has filled the pipe; it has woken the readers, except
\* when it was killed.
LEMMA SleepWrite ==
  ASSUME SleepInv, FileInv, NEW p \in Proc, pipewrite(p)
  PROVE  SleepInv'
<1>1. PICK m \in 0 .. Room : \E addr \in [0 .. m - 1 -> Byte] :
           /\ data' \in [Places -> Byte] /\ nwrite' \in Counter
           /\ UNCHANGED <<nread, readopen, writeopen, page, killed>>
           /\ nwrite' = (nwrite + m) % UINT
           /\ count' \in [Proc -> Nat]
           /\ (nwrite' - nread) % UINT = Used + m
           /\ \/ /\ plock' = FALSE /\ silent' = (silent \/ m > 0)
                 /\ pc' = [pc EXCEPT ![p] = "user"]
              \/ /\ plock' = FALSE /\ silent' = FALSE
                 /\ pc' = [Wakeup(pc, "rsleep", "read") EXCEPT ![p] = "user"]
              \/ /\ plock' = TRUE /\ silent' = FALSE /\ m = Room /\ readopen
                 /\ pc' = [Wakeup(pc, "rsleep", "read") EXCEPT ![p] = "wgosleep"]
  BY WriteStores, Zenon
<1>2. Room \in Nat /\ m \in Nat /\ m <= Room /\ Used \in Nat /\ Room = PIPESIZE - Used
  BY Fill DEF SleepInv, Room
<1>3. Used' = Used + m
  BY <1>1, Zenon DEF Used
<1>4. BufferType'
  <2>1. Used' <= PIPESIZE
    BY <1>2, <1>3, PipeAssumption
  <2>2. plock' \in BOOLEAN /\ silent' \in BOOLEAN
    BY <1>1, Zenon DEF SleepInv, BufferType
  <2> QED BY <1>1, <2>1, <2>2, Zenon DEF SleepInv, BufferType
<1>5. Full' <=> Used' = PIPESIZE
  BY <1>4, Counters DEF BufferType, Full, Used
<1>6. \A q \in Proc : pc[q] \notin Falling
  BY Zenon DEF SleepInv, Tested, pipewrite
<1>7. /\ \A q \in Proc : pc'[q] = "wsleep" => pc[q] = "wsleep"
      /\ \A q \in Proc : pc'[q] \in Falling => q = p
      /\ pc'[p] \in {"user", "wgosleep"}
      /\ pc'[p] = "wgosleep" => plock' = TRUE /\ m = Room /\ readopen
  <2>1. CASE pc' = [pc EXCEPT ![p] = "user"]
    BY <1>6, <2>1, Zenon DEF FileInv, FileType, Falling
  <2>2. CASE pc' = [Wakeup(pc, "rsleep", "read") EXCEPT ![p] = "user"]
    BY <1>6, <2>2, Zenon DEF Wakeup, Falling
  <2>3. CASE /\ plock' = TRUE /\ m = Room /\ readopen
             /\ pc' = [Wakeup(pc, "rsleep", "read") EXCEPT ![p] = "wgosleep"]
    BY <1>6, <2>3, Zenon DEF Wakeup, Falling
  <2> QED BY <1>1, <2>1, <2>2, <2>3, Zenon
<1>8. Tested'
  <2>1. pc'[p] = "wgosleep" => Full'
    BY <1>2, <1>3, <1>5, <1>7, PipeAssumption
  <2> QED BY <1>1, <1>7, <2>1 DEF Tested, Falling
<1>9. SleepersWaitForCause'
  <2>1. ASSUME NEW q \in Proc, pc'[q] = "wsleep" PROVE Full' /\ readopen'
    <3>1. Full /\ readopen
      BY <1>7, <2>1, Zenon DEF SleepInv, SleepersWaitForCause
    <3>2. Used = PIPESIZE
      BY <3>1, Fill, Zenon DEF SleepInv
    <3>3. Used' = PIPESIZE
      BY <1>2, <1>3, <3>2
    <3> QED BY <1>1, <1>5, <3>1, <3>3
  <2>2. ASSUME NEW q \in Proc, pc'[q] = "rsleep" PROVE writeopen' /\ (Empty' \/ silent')
    <3>1. pc' = [pc EXCEPT ![p] = "user"] /\ silent' = (silent \/ m > 0)
      BY <1>1, <2>2, Zenon DEF Wakeup
    <3>2. pc[q] = "rsleep"
      BY <2>2, <3>1, Zenon DEF FileInv, FileType
    <3>3. writeopen /\ (Empty \/ silent)
      BY <3>2, Zenon DEF SleepInv, SleepersWaitForCause
    <3>4. CASE m = 0
      <4>1. Used' = Used
        BY <1>2, <1>3, <3>4
      <4>2. (Empty' <=> Used' = 0) /\ (Empty <=> Used = 0)
        <5>1. Empty <=> Used = 0
          BY Fill, Zenon DEF SleepInv
        <5>2. nread' \in Counter /\ nwrite' \in Counter
          BY <1>4, Zenon DEF BufferType
        <5>3. (nread' = nwrite') = ((nwrite' - nread') % UINT = 0)
          BY <5>2, Counters, Zenon
        <5> QED BY <5>1, <5>3, Zenon DEF Empty, Used
      <4>3. silent => silent'
        BY <3>1, Zenon
      <4> QED BY <1>1, <3>3, <4>1, <4>2, <4>3
    <3>5. CASE m # 0
      <4>1. m > 0
        BY <1>2, <3>5
      <4>2. silent'
        BY <3>1, <4>1, Zenon
      <4> QED BY <1>1, <3>3, <4>2
    <3> QED BY <3>4, <3>5, Zenon
  <2> QED BY <2>1, <2>2, Zenon DEF SleepersWaitForCause
<1> QED BY <1>4, <1>8, <1>9, Zenon DEF SleepInv

\* A read takes as many bytes as there are, up to its count.
LEMMA ReadTakes ==
  ASSUME SleepInv, NEW p \in Proc, piperead(p), ~(Empty /\ writeopen)
  PROVE  \E m \in 0 .. Used :
           /\ nread' = (nread + m) % UINT /\ nread' \in Counter
           /\ (nwrite - nread') % UINT = Used - m
           /\ pc' = [Wakeup(pc, "wsleep", "write") EXCEPT ![p] = "user"]
           /\ count' \in [Proc -> Nat]
           /\ UNCHANGED <<nwrite, data, readopen, writeopen, page, silent, killed, plock>>
<1> DEFINE m == Min({count[p], Used})
<1>1. Used \in Nat /\ Used < UINT /\ count[p] \in Nat /\ nread \in Counter /\ nwrite \in Counter
  BY Fill, Zenon DEF SleepInv, BufferType
<1>2. m \in Nat /\ m <= Used
  BY <1>1, MinOfTwo, Zenon
<1>3. /\ nread' = (nread + m) % UINT /\ count' = [count EXCEPT ![p] = 0]
      /\ pc' = [Wakeup(pc, "wsleep", "write") EXCEPT ![p] = "user"]
      /\ UNCHANGED <<nwrite, data, readopen, writeopen, page, silent, killed, plock>>
  BY Zenon DEF piperead, procVars
<1> HIDE DEF m
<1>4. nread' \in Counter /\ (nwrite - nread') % UINT = Used - m
  <2>1. m < UINT
    BY <1>1, <1>2, PipeAssumption
  <2>2. m <= (nwrite - nread) % UINT
    BY <1>2, Zenon DEF Used
  <2>3. /\ (nread + m) % UINT \in Counter
        /\ (nwrite - ((nread + m) % UINT)) % UINT = ((nwrite - nread) % UINT) - m
    BY <1>1, <1>2, <2>1, <2>2, CountersMove, Zenon
  <2> QED BY <1>3, <2>3, Zenon DEF Used
<1>5. count' \in [Proc -> Nat]
  BY <1>3, Zenon DEF SleepInv, BufferType
<1>6. m \in 0 .. Used
  BY <1>1, <1>2
<1> QED BY <1>3, <1>4, <1>5, <1>6, Zenon

\* A reader sleeps on an empty pipe; one that takes bytes wakes the writers.
LEMMA SleepRead ==
  ASSUME SleepInv, FileInv, NEW p \in Proc, piperead(p)
  PROVE  SleepInv'
<1>1. \A q \in Proc : pc[q] \notin Falling
  BY Zenon DEF SleepInv, Tested, piperead
<1>2. CASE Empty /\ writeopen
  <2>1. /\ UNCHANGED <<nread, nwrite, data, readopen, writeopen, silent, killed>>
        /\ \/ /\ pc' = [pc EXCEPT ![p] = "user"] /\ plock' = FALSE
              /\ count' = [count EXCEPT ![p] = 0]
           \/ pc' = [pc EXCEPT ![p] = "rgosleep"] /\ plock' = TRUE /\ count' = count
    BY <1>2, Zenon DEF piperead, Goto, procVars
  <2>2. BufferType'
    <3>1. count' = [count EXCEPT ![p] = 0] \/ count' = count
      BY <2>1, Zenon
    <3>2. count' \in [Proc -> Nat]
      BY <3>1 DEF SleepInv, BufferType
    <3>3. plock' \in BOOLEAN
      BY <2>1, Zenon
    <3>4. Used' = Used
      BY <2>1, Zenon DEF Used
    <3> QED BY <2>1, <3>2, <3>3, <3>4, Zenon DEF SleepInv, BufferType
  <2>3. Tested'
    BY <1>1, <1>2, <2>1, Zenon DEF Tested, Falling, Empty, Full, FileInv, FileType
  <2>4. SleepersWaitForCause'
    BY <2>1, Zenon DEF SleepInv, SleepersWaitForCause, Empty, Full, FileInv, FileType
  <2> QED BY <2>2, <2>3, <2>4, Zenon DEF SleepInv
<1>3. CASE ~(Empty /\ writeopen)
  <2>1. PICK m \in 0 .. Used :
           /\ nread' = (nread + m) % UINT /\ nread' \in Counter
           /\ (nwrite - nread') % UINT = Used - m
           /\ pc' = [Wakeup(pc, "wsleep", "write") EXCEPT ![p] = "user"]
           /\ count' \in [Proc -> Nat]
           /\ UNCHANGED <<nwrite, data, readopen, writeopen, page, silent, killed, plock>>
    BY <1>3, ReadTakes, Zenon
  <2>2. Used \in Nat /\ m \in Nat /\ m <= Used /\ Used <= PIPESIZE
    BY Fill DEF SleepInv, BufferType
  <2>3. Used' = Used - m
    BY <2>1, Zenon DEF Used
  <2>4. Used' <= PIPESIZE
    BY <2>2, <2>3, PipeAssumption
  <2>5. BufferType'
    BY <2>1, <2>4, Zenon DEF SleepInv, BufferType
  <2>6. \A q \in Proc : /\ pc'[q] \notin Falling /\ pc'[q] # "wsleep"
                        /\ pc'[q] = "rsleep" => pc[q] = "rsleep"
    BY <1>1, <2>1, Zenon DEF Wakeup, Falling
  <2>7. Tested'
    BY <2>6, Zenon DEF Tested, Falling
  <2>8. ASSUME NEW q \in Proc, pc'[q] = "rsleep" PROVE writeopen' /\ (Empty' \/ silent')
    <3>1. writeopen /\ (Empty \/ silent)
      BY <2>6, <2>8, Zenon DEF SleepInv, SleepersWaitForCause
    <3> QED BY <1>3, <2>1, <3>1, Zenon
  <2>9. SleepersWaitForCause'
    BY <2>6, <2>8, Zenon DEF SleepersWaitForCause
  <2> QED BY <2>5, <2>7, <2>9, Zenon DEF SleepInv
<1> QED BY <1>2, <1>3, Zenon

\* Every step keeps the invariant of the sleepers.
LEMMA SleepStep ==
  ASSUME SleepInv, FileInv, [Next]_vars
  PROVE  SleepInv'
<1>1. CASE UNCHANGED vars
  <2>1. UNCHANGED <<nread, nwrite, data, readopen, writeopen, silent, plock, count, killed, pc>>
    BY <1>1, Zenon DEF vars, pipeVars, procVars, opVars
  <2>2. count' \in [Proc -> Nat] /\ killed' \in [Proc -> BOOLEAN]
    BY <2>1, Zenon DEF SleepInv, BufferType
  <2> QED BY <2>1, <2>2, SleepUnchanged, Zenon
<1>2. ASSUME NEW p \in Proc, Step(p) PROVE SleepInv'
  <2>1. CASE pipealloc(p)
    BY <2>1, SleepAlloc, PageInUse, Zenon
  <2>2. CASE pipealloc_bad(p)
    <3>1. /\ UNCHANGED <<nread, nwrite, data, readopen, writeopen, silent, plock, count, killed>>
          /\ pc' = [pc EXCEPT ![p] = "user"]
      BY <2>2, Zenon DEF pipealloc_bad, pipeVars, procVars, Goto
    <3> QED BY <3>1, OneMoves, Zenon DEF Falling
  <2>3. CASE exit(p)
    <3>1. CASE \E d : fileclose(p, d)
      BY <3>1, SleepFileClose, Zenon
    <3>2. CASE ~\E d : fileclose(p, d)
      <4>1. /\ UNCHANGED <<nread, nwrite, data, readopen, writeopen, silent, plock, count>>
            /\ killed' = [killed EXCEPT ![p] = FALSE] /\ pc' = [pc EXCEPT ![p] = "user"]
        BY <2>3, <3>2, Zenon DEF exit, pipeVars, opVars, Goto
      <4> QED BY <4>1, OneMoves, Zenon DEF Falling
    <3> QED BY <3>1, <3>2, Zenon
  <2>4. CASE sleep(p)
    <3>1. /\ UNCHANGED <<nread, nwrite, data, readopen, writeopen, silent, count, killed>>
          /\ plock' = FALSE
          /\ \/ pc[p] = "rgosleep" /\ pc' = [pc EXCEPT ![p] = "rsleep"]
             \/ pc[p] = "wgosleep" /\ pc' = [pc EXCEPT ![p] = "wsleep"]
      BY <2>4, Zenon DEF sleep, pipeVars, procVars, opVars, Goto
    <3>2. \A q \in Proc : q # p => pc[q] \notin Falling /\ pc'[q] = pc[q]
      BY <3>1, Zenon DEF SleepInv, Tested, Falling, FileInv, FileType
    <3>3. \/ pc[p] = "rgosleep" /\ pc'[p] = "rsleep"
          \/ pc[p] = "wgosleep" /\ pc'[p] = "wsleep"
      BY <3>1, Zenon DEF FileInv, FileType
    <3>4. BufferType'
      BY <3>1, Zenon DEF SleepInv, BufferType, Used
    <3>5. Tested'
      BY <3>2, <3>3, Zenon DEF Tested, Falling
    <3>6. SleepersWaitForCause'
      BY <3>1, <3>2, <3>3, Zenon DEF SleepInv, Tested, SleepersWaitForCause, Empty, Full
    <3> QED BY <3>4, <3>5, <3>6, Zenon DEF SleepInv
  <2> QED BY <1>2, <2>1, <2>2, <2>3, <2>4, SleepClose, SleepWrite, SleepRead, Zenon DEF Step
<1>3. ASSUME NEW p \in Proc, Call(p) PROVE SleepInv'
  <2>1. CASE sys_pipe(p)
    <3>1. /\ UNCHANGED <<nread, nwrite, data, readopen, writeopen, silent, plock, count, killed>>
          /\ pc' = [pc EXCEPT ![p] = "pipe"]
      BY <2>1, Zenon DEF sys_pipe, pipeVars, procVars, Goto
    <3> QED BY <3>1, OneMoves, Zenon DEF Falling
  <2>2. CASE sys_exit(p)
    <3>1. /\ UNCHANGED <<nread, nwrite, data, readopen, writeopen, silent, plock, count, killed>>
          /\ pc' = [pc EXCEPT ![p] = "exit"]
      BY <2>2, Zenon DEF sys_exit, pipeVars, opVars, Goto
    <3> QED BY <3>1, OneMoves, Zenon DEF Falling
  <2>3. CASE kill(p)
    <3>1. /\ UNCHANGED <<nread, nwrite, data, readopen, writeopen, silent, plock, count>>
          /\ killed' = [killed EXCEPT ![p] = TRUE]
          /\ pc' = [pc EXCEPT ![p] = IF pc[p] = "rsleep" THEN "read"
                                     ELSE IF pc[p] = "wsleep" THEN "write" ELSE pc[p]]
      BY <2>3, Zenon DEF kill, pipeVars, opVars
    <3>2. \A q \in Proc : \/ pc'[q] = pc[q]
                          \/ pc'[q] \notin Falling \cup {"rsleep", "wsleep"}
      BY <3>1, Zenon DEF FileInv, FileType, Falling
    <3>3. count' \in [Proc -> Nat] /\ killed' \in [Proc -> BOOLEAN]
      BY <3>1, Zenon DEF SleepInv, BufferType
    <3> QED BY <3>1, <3>2, <3>3, SleepUnchanged, Zenon
  <2>4. ASSUME NEW c \in Proc, fork(p, c) PROVE SleepInv'
    <3>1. UNCHANGED <<nread, nwrite, data, readopen, writeopen, silent, plock, count, killed, pc>>
      BY <2>4, Zenon DEF fork, pipeVars, opVars
    <3>2. count' \in [Proc -> Nat] /\ killed' \in [Proc -> BOOLEAN]
      BY <3>1, Zenon DEF SleepInv, BufferType
    <3> QED BY <3>1, <3>2, SleepUnchanged, Zenon
  <2>5. ASSUME NEW d \in FD, sys_dup(p, d) PROVE SleepInv'
    <3>1. UNCHANGED <<nread, nwrite, data, readopen, writeopen, silent, plock, count, killed, pc>>
      BY <2>5, Zenon DEF sys_dup, pipeVars, procVars, opVars
    <3>2. count' \in [Proc -> Nat] /\ killed' \in [Proc -> BOOLEAN]
      BY <3>1, Zenon DEF SleepInv, BufferType
    <3> QED BY <3>1, <3>2, SleepUnchanged, Zenon
  <2>6. ASSUME NEW d \in FD, sys_close(p, d) PROVE SleepInv'
    BY <2>6, SleepFileClose, Zenon DEF sys_close
  <2>7. ASSUME NEW d \in FD, NEW n \in 1 .. MaxCount, sys_read(p, d, n) \/ sys_write(p, d, n)
        PROVE  SleepInv'
    <3>1. /\ UNCHANGED <<nread, nwrite, data, readopen, writeopen, silent, plock, killed>>
          /\ count' = [count EXCEPT ![p] = n]
          /\ pc' = [pc EXCEPT ![p] = "read"] \/ pc' = [pc EXCEPT ![p] = "write"]
      BY <2>7, Zenon DEF sys_read, sys_write, pipeVars, procVars, Goto
    <3>2. \A q \in Proc : \/ pc'[q] = pc[q]
                          \/ pc'[q] \notin Falling \cup {"rsleep", "wsleep"}
      BY <3>1, Zenon DEF FileInv, FileType, Falling
    <3>3. count' \in [Proc -> Nat] /\ killed' \in [Proc -> BOOLEAN]
      <4>1. n \in Nat
        OBVIOUS
      <4> QED BY <3>1, <4>1, Zenon DEF SleepInv, BufferType
    <3> QED BY <3>1, <3>2, <3>3, SleepUnchanged, Zenon
  <2> QED BY <1>3, <2>1, <2>2, <2>3, <2>4, <2>5, <2>6, <2>7, Zenon DEF Call
<1> QED BY <1>1, <1>2, <1>3, Zenon DEF Next

\* pipe.c, no lost wakeup: for any number of processes a writer asleep has a
\* full pipe and a reader, and a reader asleep has a writer and an empty pipe,
\* or one that a killed writer has left bytes in.
THEOREM NoLostPipeWakeup == Spec => []SleepersWaitForCause
<1>1. SleepInv => SleepersWaitForCause
  BY Zenon DEF SleepInv
<1>2. Spec => []FileInv
  BY FileInit, FileStep, PTL DEF Spec
<1> QED BY <1>1, <1>2, SleepInit, SleepStep, PTL DEF Spec

-----------------------------------------------------------------------------
(* The buffer as a queue *)

\* n bytes of the buffer b, from counter a on.
Bytes(b, a, n) == [i \in 1 .. n |-> b[Place(a, i - 1)]]

\* They are a sequence of bytes.
LEMMA BytesSeq ==
  ASSUME NEW b \in [Places -> Byte], NEW a \in Counter, NEW n \in Nat
  PROVE  /\ Bytes(b, a, n) \in Seq(Byte) /\ Len(Bytes(b, a, n)) = n
         /\ \A i \in 1 .. n : Bytes(b, a, n)[i] = b[Place(a, i - 1)]
<1>1. \A i \in 1 .. n : b[Place(a, i - 1)] \in Byte
  <2> SUFFICES ASSUME NEW i \in 1 .. n PROVE b[Place(a, i - 1)] \in Byte
    BY Zenon
  <2>1. i - 1 \in Nat
    OBVIOUS
  <2> QED BY <2>1, PlaceInBuffer, Zenon
<1>2. Bytes(b, a, n) \in [1 .. n -> Byte]
  BY <1>1, Zenon DEF Bytes
<1>3. Bytes(b, a, n) \in Seq(Byte)
  BY <1>2, SeqDef
<1>4. Len(Bytes(b, a, n)) = n
  BY <1>2, <1>3, LenProperties
<1> QED BY <1>3, <1>4, Zenon DEF Bytes

\* Contents in terms of Bytes, before and after a step.
LEMMA ContentsAreBytes ==
  ASSUME BufferType
  PROVE  Contents = Bytes(data, nread, Used)
<1>1. Used \in Nat /\ nread \in Int
  BY Fill, PipeAssumption DEF BufferType, Counter
<1>2. \A i \in 1 .. Used : nread + i - 1 = nread + (i - 1)
  BY <1>1, Zenon
<1> QED BY <1>2, Zenon DEF Contents, Bytes, Place

\* A counter wraps at most once.
LEMMA CounterAdd ==
  ASSUME NEW r \in Counter, NEW m \in Nat, m < UINT
  PROVE  /\ (r + m) % UINT \in Counter
         /\ (r + m) % UINT = IF r + m < UINT THEN r + m ELSE r + m - UINT
BY CountersMove

\* Counting from a + k instead of a.
LEMMA PlaceShift ==
  ASSUME NEW a \in Counter, NEW k \in Nat, NEW j \in Nat, k + j < UINT
  PROVE  (a + k) % UINT \in Counter /\ Place((a + k) % UINT, j) = Place(a, k + j)
<1> DEFINE x == (a + k) % UINT
           y == (x + j) % UINT
           z == (a + (k + j)) % UINT
<1>1. k < UINT /\ j < UINT /\ k + j \in Nat /\ UINT \in Int /\ a \in Int
  BY PipeAssumption DEF Counter
<1>2. x \in Counter /\ x = IF a + k < UINT THEN a + k ELSE a + k - UINT
  BY <1>1, CounterAdd, Zenon
<1>3. z = IF a + (k + j) < UINT THEN a + (k + j) ELSE a + (k + j) - UINT
  BY <1>1, CounterAdd, Zenon
<1> HIDE DEF x, z
<1>4. y = IF x + j < UINT THEN x + j ELSE x + j - UINT
  BY <1>1, <1>2, CounterAdd, Zenon
<1> HIDE DEF y
<1>5. y = z
  BY <1>1, <1>2, <1>3, <1>4 DEF Counter
<1> QED BY <1>2, <1>5, Zenon DEF Place, x, y, z

\* nwrite is Used bytes after nread.
LEMMA WriteAfterRead ==
  ASSUME BufferType
  PROVE  (nread + Used) % UINT = nwrite
<1> DEFINE u == (nwrite - nread) % UINT
<1>1. /\ nread \in Counter /\ nwrite \in Counter /\ UINT \in Int /\ UINT > 0
      /\ nread \in Int /\ nwrite \in Int
  BY PipeAssumption DEF BufferType, Counter
<1>2. u = IF nwrite >= nread THEN nwrite - nread ELSE nwrite - nread + UINT
  BY <1>1, ModRange DEF Counter
<1>3. u \in Nat /\ u < UINT
  BY Fill, Zenon DEF Used
<1> HIDE DEF u
<1>4. (nread + u) % UINT = IF nread + u < UINT THEN nread + u ELSE nread + u - UINT
  BY <1>1, <1>3, CounterAdd, Zenon
<1> QED BY <1>1, <1>2, <1>3, <1>4 DEF Used, Counter, u

\* Storing m bytes behind the Used ones appends them.
LEMMA StoreAppends ==
  ASSUME BufferType, NEW m \in 0 .. Room, NEW addr \in [0 .. m - 1 -> Byte]
  PROVE  /\ [i \in 1 .. m |-> addr[i - 1]] \in [1 .. m -> Byte]
         /\ Bytes(Stored(data, nwrite, m, addr), nread, Used + m)
              = Bytes(data, nread, Used) \o [i \in 1 .. m |-> addr[i - 1]]
<1> DEFINE c == Stored(data, nwrite, m, addr)
           s == Bytes(c, nread, Used + m)
           t == Bytes(data, nread, Used)
           u == [i \in 1 .. m |-> addr[i - 1]]
           n == Used
<1>1. /\ n \in Nat /\ m \in Nat /\ n + m \in Nat /\ n + m <= PIPESIZE /\ n + m < UINT
      /\ nread \in Counter /\ nwrite \in Counter /\ data \in [Places -> Byte]
      /\ m <= PIPESIZE
  BY Fill, PipeAssumption DEF BufferType, Room
<1>2. /\ c \in [Places -> Byte]
      /\ \A j \in 0 .. m - 1 : c[Place(nwrite, j)] = addr[j]
      /\ \A i \in Places : (\A j \in 0 .. m - 1 : i # Place(nwrite, j)) => c[i] = data[i]
  BY <1>1, StoredBytes, Zenon
<1>3. \A j \in 0 .. m - 1 : Place(nwrite, j) = Place(nread, n + j)
  <2> SUFFICES ASSUME NEW j \in 0 .. m - 1 PROVE Place(nwrite, j) = Place(nread, n + j)
    BY Zenon
  <2>1. j \in Nat /\ n + j < UINT
    BY <1>1, PipeAssumption
  <2>2. nwrite = (nread + n) % UINT
    BY WriteAfterRead, Zenon
  <2> HIDE DEF n
  <2> QED BY <1>1, <2>1, <2>2, PlaceShift, Zenon
<1>4. \A i \in 1 .. n : c[Place(nread, i - 1)] = data[Place(nread, i - 1)]
  <2> SUFFICES ASSUME NEW i \in 1 .. n
               PROVE  c[Place(nread, i - 1)] = data[Place(nread, i - 1)]
    BY Zenon
  <2>1. i - 1 \in Places /\ i - 1 \in Nat /\ i - 1 < n
    BY <1>1, PipeAssumption DEF Places
  <2>2. ASSUME NEW j \in 0 .. m - 1 PROVE Place(nread, i - 1) # Place(nwrite, j)
    <3>1. n + j \in Places /\ i - 1 # n + j
      BY <1>1, <2>1, PipeAssumption DEF Places
    <3> HIDE DEF n
    <3> QED BY <1>1, <1>3, <2>1, <3>1, PlacesApart
  <2>3. Place(nread, i - 1) \in Places
    BY <1>1, <2>1, PlaceInBuffer, Zenon
  <2> HIDE DEF c, n
  <2> QED BY <1>2, <2>2, <2>3, Zenon
<1>5. u \in [1 .. m -> Byte]
  <2>1. \A i \in 1 .. m : i - 1 \in 0 .. m - 1
    BY <1>1
  <2> QED BY <2>1, Zenon
<1>6. u \in Seq(Byte) /\ Len(u) = m /\ \A i \in 1 .. m : u[i] = addr[i - 1]
  <2>1. u \in Seq(Byte)
    BY <1>1, <1>5, SeqDef
  <2> QED BY <1>1, <1>5, <2>1, LenProperties
<1> HIDE DEF c, n, u
<1>7. /\ s \in Seq(Byte) /\ Len(s) = n + m
      /\ \A i \in 1 .. n + m : s[i] = c[Place(nread, i - 1)]
  BY <1>1, <1>2, BytesSeq, Zenon DEF n
<1>8. /\ t \in Seq(Byte) /\ Len(t) = n
      /\ \A i \in 1 .. n : t[i] = data[Place(nread, i - 1)]
  BY <1>1, BytesSeq, Zenon DEF n
<1> HIDE DEF s, t
<1> DEFINE v == t \o u
<1>9. /\ v \in Seq(Byte) /\ Len(v) = n + m
      /\ \A i \in 1 .. n + m : v[i] = IF i <= n THEN t[i] ELSE u[i - n]
  BY <1>6, <1>8, ConcatProperties, Zenon
<1> HIDE DEF v
<1>10. ASSUME NEW i \in 1 .. n + m PROVE s[i] = v[i]
  <2>1. CASE i <= n
    <3>1. i \in 1 .. n
      BY <1>1, <2>1
    <3> QED BY <1>4, <1>7, <1>8, <1>9, <2>1, <3>1, Zenon
  <2>2. CASE ~(i <= n)
    <3>1. PICK j \in 1 .. m : j = i - n
      BY <1>1, <2>2
    <3>2. j - 1 \in 0 .. m - 1 /\ i - 1 = n + (j - 1)
      BY <1>1, <3>1
    <3>3. v[i] = addr[j - 1]
      BY <1>6, <1>9, <2>2, <3>1, Zenon
    <3>4. s[i] = c[Place(nwrite, j - 1)]
      BY <1>3, <1>7, <3>2, Zenon
    <3> QED BY <1>2, <3>2, <3>3, <3>4, Zenon
  <2> QED BY <2>1, <2>2, Zenon
<1>11. s = v
  BY <1>1, <1>7, <1>9, <1>10, SeqEqual, Zenon
<1> QED BY <1>5, <1>11, Zenon DEF s, t, u, v, c, n

\* Moving nread past m bytes drops them.
LEMMA ReadDrops ==
  ASSUME BufferType, NEW m \in 0 .. Used
  PROVE  Bytes(data, (nread + m) % UINT, Used - m)
           = SubSeq(Bytes(data, nread, Used), m + 1, Len(Bytes(data, nread, Used)))
<1> DEFINE n == Used
           a == (nread + m) % UINT
           s == Bytes(data, a, n - m)
           t == Bytes(data, nread, n)
           v == SubSeq(t, m + 1, n)
<1>1. /\ n \in Nat /\ m \in Nat /\ n - m \in Nat /\ n < UINT /\ m < UINT
      /\ nread \in Counter /\ data \in [Places -> Byte]
  BY Fill, PipeAssumption DEF BufferType
<1> HIDE DEF n
<1>2. a \in Counter
  BY <1>1, CountersMove, Zenon
<1>3. \A i \in 1 .. n - m : Place(a, i - 1) = Place(nread, m + (i - 1))
  <2> SUFFICES ASSUME NEW i \in 1 .. n - m
               PROVE  Place(a, i - 1) = Place(nread, m + (i - 1))
    BY Zenon
  <2>1. i - 1 \in Nat /\ m + (i - 1) < UINT
    BY <1>1, PipeAssumption
  <2> QED BY <1>1, <2>1, PlaceShift, Zenon
<1> HIDE DEF a
<1>4. /\ s \in Seq(Byte) /\ Len(s) = n - m
      /\ \A i \in 1 .. n - m : s[i] = data[Place(a, i - 1)]
  BY <1>1, <1>2, BytesSeq, Zenon
<1>5. /\ t \in Seq(Byte) /\ Len(t) = n
      /\ \A i \in 1 .. n : t[i] = data[Place(nread, i - 1)]
  BY <1>1, BytesSeq, Zenon
<1> HIDE DEF s, t
<1>6. /\ v \in Seq(Byte) /\ Len(v) = n - m
      /\ \A i \in 1 .. n - m : v[i] = t[m + i]
  <2>1. \A i \in m + 1 .. n : t[i] \in Byte
    BY <1>1, <1>5, ElementOfSeq
  <2>2. /\ v \in Seq(Byte) /\ Len(v) = IF m + 1 <= n THEN n - (m + 1) + 1 ELSE 0
        /\ \A i \in 1 .. n - (m + 1) + 1 : v[i] = t[(m + 1) + i - 1]
    BY <1>1, <2>1, SubSeqProperties
  <2>3. Len(v) = n - m
    BY <1>1, <2>2
  <2>4. \A i \in 1 .. n - m : i \in 1 .. n - (m + 1) + 1 /\ (m + 1) + i - 1 = m + i
    BY <1>1
  <2> HIDE DEF v
  <2> QED BY <2>2, <2>3, <2>4, Zenon
<1> HIDE DEF v
<1>7. ASSUME NEW i \in 1 .. n - m PROVE s[i] = v[i]
  <2>1. m + i \in 1 .. n /\ (m + i) - 1 = m + (i - 1)
    BY <1>1
  <2>2. t[m + i] = data[Place(nread, m + (i - 1))]
    BY <1>5, <2>1, Zenon
  <2> QED BY <1>3, <1>4, <1>6, <2>2, Zenon
<1>8. s = v
  BY <1>1, <1>4, <1>6, <1>7, SeqEqual, Zenon
<1> QED BY <1>5, <1>8, Zenon DEF n, a, s, t, v

\* Contents after a step.
LEMMA ContentsNext ==
  ASSUME BufferType'
  PROVE  Contents' = Bytes(data', nread', Used')
<1>1. nread' \in Int /\ Used' \in Nat
  <2>1. nread' \in Counter /\ nwrite' \in Counter
    BY Zenon DEF BufferType
  <2>2. (nwrite' - nread') % UINT \in Counter
    BY <2>1, Counters, Zenon
  <2>3. \A x \in Counter : x \in Nat /\ x \in Int
    BY PipeAssumption DEF Counter
  <2> QED BY <2>1, <2>2, <2>3, Zenon DEF Used
<1>2. \A i \in 1 .. Used' : nread' + i - 1 = nread' + (i - 1)
  BY <1>1, Zenon
<1> QED BY <1>2, Zenon DEF Contents, Bytes, Place

\* pipewrite is a Write of the queue, or none when there is no room.
LEMMA WriteRefines ==
  ASSUME SleepInv, SleepInv', page, NEW p \in Proc, pipewrite(p)
  PROVE  BQ!BQNext \/ UNCHANGED BQ!bqVars
<1>1. PICK m \in 0 .. Room : \E addr \in [0 .. m - 1 -> Byte] :
           /\ data' = Stored(data, nwrite, m, addr)
           /\ UNCHANGED <<nread, readopen, writeopen, page, killed>>
           /\ (nwrite' - nread) % UINT = Used + m
  BY WriteStores, Zenon
<1>2. PICK addr \in [0 .. m - 1 -> Byte] :
           /\ data' = Stored(data, nwrite, m, addr)
           /\ UNCHANGED <<nread, page>> /\ (nwrite' - nread) % UINT = Used + m
  BY <1>1, Zenon
<1> DEFINE u == [i \in 1 .. m |-> addr[i - 1]]
<1>3. BufferType /\ BufferType' /\ Used' = Used + m
  BY <1>2, Zenon DEF SleepInv, Used
<1>4. u \in [1 .. m -> Byte] /\ Contents' = Contents \o u
  BY <1>2, <1>3, StoreAppends, ContentsAreBytes, ContentsNext, Zenon
<1>5. Contents \in Seq(Byte) /\ Len(Contents) = Used /\ m \in Nat /\ m <= PIPESIZE - Used
  <2>1. Used \in Nat /\ nread \in Counter /\ data \in [Places -> Byte]
    BY <1>3, Fill, Zenon DEF BufferType
  <2>2. Contents \in Seq(Byte) /\ Len(Contents) = Used
    BY <1>3, <2>1, BytesSeq, ContentsAreBytes
  <2> QED BY <1>3, <2>1, <2>2, Fill DEF Room
<1> HIDE DEF u
<1>6. CASE m = 0
  <2>1. u = << >>
    BY <1>4, <1>6
  <2>2. Contents' = Contents
    BY <1>4, <1>5, <2>1, ConcatEmptySeq, Zenon
  <2> QED BY <1>2, <2>2, Zenon DEF BQ!bqVars
<1>7. CASE m # 0
  <2>1. m \in 1 .. PIPESIZE - Len(Contents)
    BY <1>3, <1>5, <1>7, Fill, PipeAssumption
  <2>2. BQ!Write
    BY <1>2, <1>4, <2>1, Zenon DEF BQ!Write
  <2> QED BY <2>2, Zenon DEF BQ!BQNext
<1> QED BY <1>6, <1>7, Zenon

\* piperead is a Read of the queue, or nothing.
LEMMA ReadRefines ==
  ASSUME SleepInv, SleepInv', page, NEW p \in Proc, piperead(p)
  PROVE  BQ!BQNext \/ UNCHANGED BQ!bqVars
<1>1. CASE Empty /\ writeopen
  <2>1. UNCHANGED <<nread, nwrite, data, page>>
    BY <1>1, Zenon DEF piperead
  <2> QED BY <2>1, Zenon DEF BQ!bqVars, Contents, Used
<1>2. CASE ~(Empty /\ writeopen)
  <2>1. PICK m \in 0 .. Used :
           /\ nread' = (nread + m) % UINT /\ (nwrite - nread') % UINT = Used - m
           /\ UNCHANGED <<nwrite, data, page>>
    BY <1>2, ReadTakes, Zenon
  <2>2. BufferType /\ BufferType' /\ Used' = Used - m
    BY <2>1, Zenon DEF SleepInv, Used
  <2>3. Contents' = SubSeq(Contents, m + 1, Len(Contents))
    BY <2>1, <2>2, ReadDrops, ContentsAreBytes, ContentsNext, Zenon
  <2>4. Contents \in Seq(Byte) /\ Len(Contents) = Used /\ Used \in Nat
    <3>1. Used \in Nat /\ nread \in Counter /\ data \in [Places -> Byte]
      BY <2>2, Fill, Zenon DEF BufferType
    <3> QED BY <2>2, <3>1, BytesSeq, ContentsAreBytes, Zenon
  <2>5. CASE m = 0
    <3>1. m + 1 = 1
      BY <2>5
    <3>2. Contents' = Contents
      BY <2>3, <2>4, <3>1, SubSeqFull, Zenon
    <3> QED BY <2>1, <3>2, Zenon DEF BQ!bqVars
  <2>6. CASE m # 0
    <3>1. m \in 1 .. Len(Contents)
      BY <2>4, <2>6
    <3>2. BQ!Read
      BY <2>1, <2>3, <3>1, Zenon DEF BQ!Read
    <3> QED BY <3>2, Zenon DEF BQ!BQNext
  <2> QED BY <2>5, <2>6, Zenon
<1> QED BY <1>1, <1>2, Zenon

\* Every step is one of the queue or leaves it alone.
LEMMA PipeStepRefines ==
  ASSUME SleepInv, SleepInv', FileInv, [Next]_vars
  PROVE  [BQ!BQNext]_(BQ!bqVars)
<1>1. CASE UNCHANGED <<page, nread, nwrite, data>>
  BY <1>1, Zenon DEF BQ!bqVars, Contents, Used
<1>2. ASSUME NEW p \in Proc, pipealloc(p) PROVE BQ!BQNext
  <2>1. ~page /\ page' = TRUE /\ nread' = 0 /\ nwrite' = 0
    BY <1>2, Zenon DEF pipealloc
  <2>2. Used' = 0
    <3>1. 0 \in Counter
      BY PipeAssumption DEF Counter
    <3> QED BY <2>1, <3>1, Counters, Zenon DEF Used
  <2>3. Contents' = << >>
    <3>1. Contents' = Bytes(data', nread', 0)
      BY <2>2, ContentsNext, Zenon DEF SleepInv
    <3> QED BY <3>1 DEF Bytes
  <2>4. page = FALSE
    BY <2>1, Zenon DEF FileInv, FileType
  <2> QED BY <2>1, <2>3, <2>4, Zenon DEF BQ!Create, BQ!BQNext
<1>3. ASSUME NEW p \in Proc, pipeclose(p) PROVE [BQ!BQNext]_(BQ!bqVars)
  <2>1. page
    BY <1>3, PageInUse, Zenon DEF pipeclose, NoUseAfterFree, InPipe
  <2>2. CASE page'
    <3>1. UNCHANGED <<nread, nwrite, data>> /\ page' = page
      BY <1>3, <2>1, <2>2, Zenon DEF pipeclose, FileInv, FileType
    <3> QED BY <1>1, <3>1, Zenon
  <2>3. CASE ~page'
    <3>1. page' = FALSE
      BY <1>3, <2>3, Zenon DEF pipeclose
    <3> QED BY <2>1, <3>1, Zenon DEF BQ!Drop, BQ!BQNext
  <2> QED BY <2>2, <2>3, Zenon
<1>4. ASSUME NEW p \in Proc, pipewrite(p) \/ piperead(p) PROVE [BQ!BQNext]_(BQ!bqVars)
  <2>1. page
    BY <1>4, PageInUse, Zenon DEF pipewrite, piperead, NoUseAfterFree, InPipe
  <2> QED BY <1>4, <2>1, WriteRefines, ReadRefines, Zenon
<1>5. ASSUME NEW p \in Proc, pipealloc_bad(p) \/ exit(p) \/ sleep(p) \/ Call(p)
      PROVE  UNCHANGED <<page, nread, nwrite, data>>
  BY <1>5, Zenon DEF pipealloc_bad, exit, fileclose, sleep, Call, sys_pipe, sys_exit, kill, fork,
              sys_dup, sys_close, sys_read, sys_write, pipeVars
<1>6. CASE UNCHANGED vars
  BY <1>1, <1>6, Zenon DEF vars, pipeVars
<1> QED BY <1>1, <1>2, <1>3, <1>4, <1>5, <1>6, Zenon DEF Next, Step

\* pipe.c: the ring buffer with its wrapping counters implements the bounded
\* queue of bytes, for any size, any number of readers and writers and partial
\* reads and writes: every byte is read once and in order.
THEOREM PipeImplementsQueue == Spec => PipeIsByteQueue
<1>1. Init => BQ!BQInit
  BY Zenon DEF Init, BQ!BQInit
<1>2. Spec => []FileInv
  BY FileInit, FileStep, PTL DEF Spec
<1> QED BY <1>1, <1>2, SleepInit, SleepStep, PipeStepRefines, PTL
        DEF Spec, PipeIsByteQueue, BQ!BQSpec

=============================================================================
