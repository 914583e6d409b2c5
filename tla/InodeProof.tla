---------------------------- MODULE InodeProof -----------------------------
(***************************************************************************)
(* For any processes, inodes, names and paths, relative ones included: the *)
(* reference count of an inode is the number of pointers to it, and its    *)
(* link count covers the directory entries that lead to it.  For paths     *)
(* without "..": an inode is freed exactly when it is unused.              *)
(***************************************************************************)
EXTENDS Inode, TLAPS

\* The facts about finite sets and Min that the proofs use.
Laws ==
  /\ \A S : IsFiniteSet(S) => Cardinality(S) \in Nat /\ (Cardinality(S) = 0 <=> S = {})
  /\ \A S : IsFiniteSet(S) => \A T \in SUBSET S : IsFiniteSet(T) /\ Cardinality(T) <= Cardinality(S)
  /\ \A S, x : IsFiniteSet(S) =>
       /\ IsFiniteSet(S \cup {x}) /\ IsFiniteSet(S \ {x})
       /\ Cardinality(S \cup {x}) = IF x \in S THEN Cardinality(S) ELSE Cardinality(S) + 1
       /\ Cardinality(S \ {x}) = IF x \in S THEN Cardinality(S) - 1 ELSE Cardinality(S)
  /\ \A S, T : IsFiniteSet(S) /\ IsFiniteSet(T) => IsFiniteSet(S \X T)
  /\ \A a, b \in Int : IsFiniteSet(a .. b)
  /\ \A N \in Nat : \A S \in SUBSET (0 .. N) : S # {} => Min(S) \in S

One(b) == IF b THEN 1 ELSE 0

LEMMA Size ==
  ASSUME Laws, NEW S, IsFiniteSet(S)
  PROVE  Cardinality(S) \in Nat /\ (Cardinality(S) = 0 <=> S = {})
BY Zenon DEF Laws

LEMMA Empty ==
  ASSUME Laws
  PROVE  IsFiniteSet({}) /\ Cardinality({}) = 0
<1>1. IsFiniteSet(1 .. 0) /\ 1 .. 0 = {}
  BY DEF Laws
<1> QED BY <1>1, Size, Zenon

\* A set that changes in one element.
LEMMA OneMember ==
  ASSUME Laws, NEW A \in SUBSET Proc, NEW B \in SUBSET Proc, NEW p \in Proc, A \ {p} = B \ {p}
  PROVE  /\ Cardinality(A) \in Nat /\ Cardinality(B) \in Nat
         /\ Cardinality(B) = Cardinality(A) - One(p \in A) + One(p \in B)
<1>1. IsFiniteSet(A) /\ IsFiniteSet(B)
  BY InodeAssumption, Zenon DEF Laws
<1>2. Cardinality(A) \in Nat /\ Cardinality(B) \in Nat
  BY <1>1, Zenon DEF Laws
<1>3. Cardinality(A \ {p}) = Cardinality(A) - One(p \in A)
  <2>1. Cardinality(A \ {p}) = IF p \in A THEN Cardinality(A) - 1 ELSE Cardinality(A)
    BY <1>1, Zenon DEF Laws
  <2> QED BY <1>2, <2>1 DEF One
<1>4. Cardinality(B \ {p}) = Cardinality(B) - One(p \in B)
  <2>1. Cardinality(B \ {p}) = IF p \in B THEN Cardinality(B) - 1 ELSE Cardinality(B)
    BY <1>1, Zenon DEF Laws
  <2> QED BY <1>2, <2>1 DEF One
<1> QED BY <1>2, <1>3, <1>4 DEF One

\* The pointers to i of a process with these fields.
Held(i, c, f, t) == One(c = i) + One(f = i) + One(t.ip = i) + One(t.tgt = i) + One(t.put = i)

\* A step of p moves pointers of p only.
LEMMA PointersMove ==
  ASSUME Laws, NEW p \in Proc, NEW i,
         \A q \in Proc \ {p} : cwd'[q] = cwd[q] /\ file'[q] = file[q] /\ th'[q] = th[q]
  PROVE  /\ Pointers(i) \in Nat
         /\ Pointers(i)' = Pointers(i) - Held(i, cwd[p], file[p], th[p])
                                       + Held(i, cwd'[p], file'[p], th'[p])
<1> DEFINE C == {q \in Proc : cwd[q] = i}    C1 == {q \in Proc : cwd'[q] = i}
           F == {q \in Proc : file[q] = i}   F1 == {q \in Proc : file'[q] = i}
           I == {q \in Proc : th[q].ip = i}  I1 == {q \in Proc : th'[q].ip = i}
           T == {q \in Proc : th[q].tgt = i} T1 == {q \in Proc : th'[q].tgt = i}
           P == {q \in Proc : th[q].put = i} P1 == {q \in Proc : th'[q].put = i}
<1>1. /\ C \in SUBSET Proc /\ C1 \in SUBSET Proc /\ C \ {p} = C1 \ {p}
      /\ (p \in C <=> cwd[p] = i) /\ (p \in C1 <=> cwd'[p] = i)
  BY Zenon
<1>2. /\ F \in SUBSET Proc /\ F1 \in SUBSET Proc /\ F \ {p} = F1 \ {p}
      /\ (p \in F <=> file[p] = i) /\ (p \in F1 <=> file'[p] = i)
  BY Zenon
<1>3. /\ I \in SUBSET Proc /\ I1 \in SUBSET Proc /\ I \ {p} = I1 \ {p}
      /\ (p \in I <=> th[p].ip = i) /\ (p \in I1 <=> th'[p].ip = i)
  BY Zenon
<1>4. /\ T \in SUBSET Proc /\ T1 \in SUBSET Proc /\ T \ {p} = T1 \ {p}
      /\ (p \in T <=> th[p].tgt = i) /\ (p \in T1 <=> th'[p].tgt = i)
  BY Zenon
<1>5. /\ P \in SUBSET Proc /\ P1 \in SUBSET Proc /\ P \ {p} = P1 \ {p}
      /\ (p \in P <=> th[p].put = i) /\ (p \in P1 <=> th'[p].put = i)
  BY Zenon
<1>6. Pointers(i) = Cardinality(C) + Cardinality(F) + Cardinality(I) + Cardinality(T) + Cardinality(P)
  BY Zenon DEF Pointers
<1>7. Pointers(i)' = Cardinality(C1) + Cardinality(F1) + Cardinality(I1) + Cardinality(T1) + Cardinality(P1)
  BY Zenon DEF Pointers
<1> HIDE DEF C, C1, F, F1, I, I1, T, T1, P, P1
<1>8. /\ Cardinality(C) \in Nat /\ Cardinality(C1) \in Nat
      /\ Cardinality(C1) = Cardinality(C) - One(p \in C) + One(p \in C1)
  BY <1>1, OneMember
<1>9. /\ Cardinality(F) \in Nat /\ Cardinality(F1) \in Nat
      /\ Cardinality(F1) = Cardinality(F) - One(p \in F) + One(p \in F1)
  BY <1>2, OneMember
<1>10. /\ Cardinality(I) \in Nat /\ Cardinality(I1) \in Nat
       /\ Cardinality(I1) = Cardinality(I) - One(p \in I) + One(p \in I1)
  BY <1>3, OneMember
<1>11. /\ Cardinality(T) \in Nat /\ Cardinality(T1) \in Nat
       /\ Cardinality(T1) = Cardinality(T) - One(p \in T) + One(p \in T1)
  BY <1>4, OneMember
<1>12. /\ Cardinality(P) \in Nat /\ Cardinality(P1) \in Nat
       /\ Cardinality(P1) = Cardinality(P) - One(p \in P) + One(p \in P1)
  BY <1>5, OneMember
<1>13. /\ One(p \in C) = One(cwd[p] = i) /\ One(p \in C1) = One(cwd'[p] = i)
       /\ One(p \in F) = One(file[p] = i) /\ One(p \in F1) = One(file'[p] = i)
       /\ One(p \in I) = One(th[p].ip = i) /\ One(p \in I1) = One(th'[p].ip = i)
       /\ One(p \in T) = One(th[p].tgt = i) /\ One(p \in T1) = One(th'[p].tgt = i)
       /\ One(p \in P) = One(th[p].put = i) /\ One(p \in P1) = One(th'[p].put = i)
  BY <1>1, <1>2, <1>3, <1>4, <1>5, Zenon DEF One
<1>14. \A b \in BOOLEAN : One(b) \in Nat
  BY Zenon DEF One
<1> DEFINE c == One(p \in C) c1 == One(p \in C1) f == One(p \in F) f1 == One(p \in F1)
           j == One(p \in I) j1 == One(p \in I1) t == One(p \in T) t1 == One(p \in T1)
           u == One(p \in P) u1 == One(p \in P1)
<1>15. /\ c \in Nat /\ c1 \in Nat /\ f \in Nat /\ f1 \in Nat /\ j \in Nat /\ j1 \in Nat
       /\ t \in Nat /\ t1 \in Nat /\ u \in Nat /\ u1 \in Nat
  BY Zenon DEF One
<1>16. /\ Held(i, cwd[p], file[p], th[p]) = c + f + j + t + u
       /\ Held(i, cwd'[p], file'[p], th'[p]) = c1 + f1 + j1 + t1 + u1
  BY <1>13, Zenon DEF Held
<1> HIDE DEF c, c1, f, f1, j, j1, t, t1, u, u1
<1>17. /\ Cardinality(C1) = Cardinality(C) - c + c1 /\ Cardinality(F1) = Cardinality(F) - f + f1
       /\ Cardinality(I1) = Cardinality(I) - j + j1 /\ Cardinality(T1) = Cardinality(T) - t + t1
       /\ Cardinality(P1) = Cardinality(P) - u + u1
  BY <1>8, <1>9, <1>10, <1>11, <1>12, Zenon DEF c, c1, f, f1, j, j1, t, t1, u, u1
<1> QED BY <1>6, <1>7, <1>8, <1>9, <1>10, <1>11, <1>12, <1>15, <1>16, <1>17

-----------------------------------------------------------------------------

Ops == {"none", "open", "creat", "mkdir", "unlink", "link", "chdir", "link2"}
LinkPcs == {"link2", "linkbad", "linked"}

\* Which pointers a process has at each place of a system call.
PlaceOK(t) ==
  /\ DOMAIN t = DOMAIN Idle
  /\ t.op \in Ops
  /\ t.pc = "idle" => t.ip = None /\ t.tgt = None
  /\ t.pc = "walk" => t.op # "none"
  /\ t.pc \in LinkPcs => t.op = "link2"
  /\ t.op = "link2" => t.pc \in LinkPcs \cup {"walk", "unlockdp"}
  /\ t.tgt # None => t.op = "link2" \/ t.pc \in {"unlink2", "unlockdp"}
  /\ t.pc \in {"linkbad", "linked"} => t.ip = None
  /\ t.pc = "unlockdp" /\ t.op # "link2" => t.ip = None

PointerInv ==
  /\ ref \in [Inum -> Int] /\ cwd = [p \in Proc |-> cwd[p]] /\ file = [p \in Proc |-> file[p]]
  /\ th = [p \in Proc |-> th[p]]
  /\ \A p \in Proc : PlaceOK(th[p])
  /\ RefsArePointers

LEMMA IdleFields ==
  /\ DOMAIN Idle = {"op", "pc", "ip", "tgt", "path", "put", "st"}
  /\ Idle.op = "none" /\ Idle.pc = "idle" /\ Idle.ip = None /\ Idle.tgt = None
  /\ Idle.put = None /\ PlaceOK(Idle)
<1>1. /\ DOMAIN Idle = {"op", "pc", "ip", "tgt", "path", "put", "st"}
      /\ Idle.op = "none" /\ Idle.pc = "idle" /\ Idle.ip = None /\ Idle.tgt = None
      /\ Idle.put = None
  BY Zenon DEF Idle
<1> QED BY <1>1, Zenon DEF PlaceOK, Ops, LinkPcs

\* The balance of a step of p: as many pointers more as ref says.
Balance(p, c, f, ip, tgt, put) ==
  \A i \in Inum :
    ref'[i] + (One(cwd[p] = i) + One(file[p] = i) + One(th[p].ip = i) + One(th[p].tgt = i)
                 + One(th[p].put = i))
      = ref[i] + (One(c = i) + One(f = i) + One(ip = i) + One(tgt = i) + One(put = i))

\* A balanced step keeps the invariant.
LEMMA BalancedStep ==
  ASSUME Laws, PointerInv, NEW p \in Proc, NEW c, NEW f, NEW r,
         cwd' = [cwd EXCEPT ![p] = c], file' = [file EXCEPT ![p] = f],
         th' = [th EXCEPT ![p] = r],
         ref' \in [Inum -> Int], PlaceOK(r), Balance(p, c, f, r.ip, r.tgt, r.put)
  PROVE  PointerInv'
<1>1. /\ cwd = [q \in Proc |-> cwd[q]] /\ file = [q \in Proc |-> file[q]]
      /\ th = [q \in Proc |-> th[q]]
  BY Zenon DEF PointerInv
<1>2. /\ cwd' = [q \in Proc |-> cwd'[q]] /\ file' = [q \in Proc |-> file'[q]]
      /\ th' = [q \in Proc |-> th'[q]]
      /\ cwd'[p] = c /\ file'[p] = f /\ th'[p] = r
      /\ \A q \in Proc \ {p} : cwd'[q] = cwd[q] /\ file'[q] = file[q] /\ th'[q] = th[q]
  BY <1>1, Zenon
<1>3. \A q \in Proc : PlaceOK(th'[q])
  BY <1>2, Zenon DEF PointerInv
<1>4. RefsArePointers'
  <2> SUFFICES ASSUME NEW i \in Inum PROVE ref'[i] = Pointers(i)'
    BY Zenon DEF RefsArePointers
  <2> DEFINE h == Held(i, cwd[p], file[p], th[p])
             k == Held(i, c, f, r)
  <2>1. ref[i] = Pointers(i) /\ ref[i] \in Int /\ ref'[i] \in Int
    BY Zenon DEF PointerInv, RefsArePointers
  <2>2. Pointers(i) \in Nat /\ Pointers(i)' = Pointers(i) - h + k
    BY <1>2, PointersMove, Zenon
  <2>3. ref'[i] + h = ref[i] + k
    BY Zenon DEF Balance, Held
  <2>4. h \in Int /\ k \in Int
    BY DEF Held, One
  <2> HIDE DEF h, k
  <2> QED BY <2>1, <2>2, <2>3, <2>4
<1>5. (\A q \in Proc : PlaceOK(th[q]))'
  BY <1>3, Zenon DEF PlaceOK, Idle, None, Ops, LinkPcs
<1> QED BY <1>2, <1>4, <1>5, Zenon DEF PointerInv

\* The same with a call of iput(j) to follow.
LEMMA BalancedPut ==
  ASSUME Laws, PointerInv, NEW p \in Proc, NEW c, NEW f, NEW r, NEW j,
         cwd' = [cwd EXCEPT ![p] = c], file' = [file EXCEPT ![p] = f],
         th' = [th EXCEPT ![p] = [r EXCEPT !.put = j, !.st = "lock"]],
         ref' \in [Inum -> Int], PlaceOK(r), Balance(p, c, f, r.ip, r.tgt, j)
  PROVE  PointerInv'
<1> DEFINE s == [r EXCEPT !.put = j, !.st = "lock"]
<1>1. /\ DOMAIN s = DOMAIN r /\ s.op = r.op /\ s.pc = r.pc /\ s.ip = r.ip /\ s.tgt = r.tgt
      /\ s.put = j
  BY IdleFields, Zenon DEF PlaceOK
<1> HIDE DEF s
<1>2. PlaceOK(s)
  BY <1>1, Zenon DEF PlaceOK
<1>3. Balance(p, c, f, s.ip, s.tgt, s.put)
  BY <1>1, Zenon
<1>4. th' = [th EXCEPT ![p] = s]
  BY Zenon DEF s
<1> QED BY <1>2, <1>3, <1>4, BalancedStep, Zenon

-----------------------------------------------------------------------------
(* The steps.                                                              *)

\* What the invariant says about process p.
LEMMA Here ==
  ASSUME PointerInv, NEW p \in Proc
  PROVE  /\ PlaceOK(th[p]) /\ ref \in [Inum -> Int] /\ None \notin Inum
         /\ cwd = [cwd EXCEPT ![p] = cwd[p]] /\ file = [file EXCEPT ![p] = file[p]]
         /\ DOMAIN th[p] = {"op", "pc", "ip", "tgt", "path", "put", "st"}
         /\ th = [q \in Proc |-> th[q]]
<1>1. /\ PlaceOK(th[p]) /\ ref \in [Inum -> Int] /\ th = [q \in Proc |-> th[q]]
  BY Zenon DEF PointerInv
<1>2. None \notin Inum
  BY InodeAssumption DEF None, Inum
<1>3. cwd = [cwd EXCEPT ![p] = cwd[p]] /\ file = [file EXCEPT ![p] = file[p]]
  BY Zenon DEF PointerInv
<1> QED BY <1>1, <1>2, <1>3, IdleFields, Zenon DEF PlaceOK

\* A count at j changed by one.
LEMMA Counted ==
  ASSUME NEW j, NEW v, NEW k \in Int, ref' = [ref EXCEPT ![j] = v], ref \in [Inum -> Int],
         j \in Inum => v = ref[j] + k
  PROVE  ref' \in [Inum -> Int] /\ \A i \in Inum : ref'[i] = IF j = i THEN ref[i] + k ELSE ref[i]
<1>1. ASSUME NEW i \in Inum PROVE ref'[i] = IF j = i THEN ref[i] + k ELSE ref[i]
  BY Zenon
<1>2. \A i \in Inum : ref'[i] \in Int
  BY <1>1
<1>3. ref' = [i \in Inum |-> ref'[i]]
  BY Zenon
<1>4. ref' \in [Inum -> Int]
  BY <1>2, <1>3, Zenon
<1> QED BY <1>1, <1>4, Zenon

LEMMA Iget ==
  ASSUME NEW j, iget(j), ref \in [Inum -> Int]
  PROVE  ref' \in [Inum -> Int] /\ \A i \in Inum : ref'[i] = ref[i] + One(j = i)
<1>1. ref' = [ref EXCEPT ![j] = ref[j] + 1]
  BY Zenon DEF iget
<1>2. ref' \in [Inum -> Int] /\ \A i \in Inum : ref'[i] = IF j = i THEN ref[i] + 1 ELSE ref[i]
  <2>1. 1 \in Int /\ (j \in Inum => ref[j] + 1 = ref[j] + 1)
    OBVIOUS
  <2> QED BY <1>1, <2>1, Counted, Zenon
<1>3. \A i \in Inum : ref'[i] = ref[i] + One(j = i)
  BY <1>2 DEF One
<1> QED BY <1>2, <1>3, Zenon

\* A process that drops its only pointer j with iput.
LEMMA PutIdle ==
  ASSUME Laws, PointerInv, NEW p \in Proc, NEW j, NEW c, NEW f,
         cwd' = [cwd EXCEPT ![p] = c], file' = [file EXCEPT ![p] = f], ref' = ref,
         Put(p, Idle, j), Balance(p, c, f, None, None, j)
  PROVE  PointerInv'
<1>1. th' = [th EXCEPT ![p] = [Idle EXCEPT !.put = j, !.st = "lock"]]
  BY Zenon DEF Put
<1>2. ref' \in [Inum -> Int]
  BY Here, Zenon
<1> QED BY <1>1, <1>2, IdleFields, BalancedPut, Zenon

LEMMA panicStep ==
  ASSUME PointerInv, panic
  PROVE  PointerInv'
BY ZenonT(60) DEF panic, PointerInv, RefsArePointers, Pointers, PlaceOK, Idle, None, Ops, LinkPcs

LEMMA InstallStep ==
  ASSUME Laws, PointerInv, NEW p \in Proc, NEW ok, Install(p, th[p].ip, ok), th[p].put = None,
         th[p].tgt = None, cwd' = cwd, ref' = ref
  PROVE  PointerInv'
<1>1. CASE ok /\ file[p] = None
  <2>1. file' = [file EXCEPT ![p] = th[p].ip] /\ th' = [th EXCEPT ![p] = Idle]
    BY <1>1, Zenon DEF Install, Go
  <2>2. Balance(p, cwd[p], th[p].ip, Idle.ip, Idle.tgt, Idle.put)
    BY <1>1, IdleFields, Here DEF Balance, One
  <2> QED BY <2>1, <2>2, IdleFields, Here, BalancedStep, Zenon
<1>2. CASE ~(ok /\ file[p] = None)
  <2>1. file' = file /\ Put(p, Idle, th[p].ip)
    BY <1>2, Zenon DEF Install
  <2>2. Balance(p, cwd[p], file[p], None, None, th[p].ip)
    BY Here DEF Balance, One
  <2> QED BY <2>1, <2>2, PutIdle, Here, ZenonT(60)
<1> QED BY <1>1, <1>2, Zenon

\* The only pointer of the call goes to iput.
LEMMA PutIp ==
  ASSUME Laws, PointerInv, NEW p \in Proc, Put(p, Idle, th[p].ip), th[p].put = None, th[p].tgt = None,
         cwd' = cwd, file' = file, ref' = ref
  PROVE  PointerInv'
<1>1. Balance(p, cwd[p], file[p], None, None, th[p].ip)
  BY Here DEF Balance, One
<1> QED BY <1>1, PutIdle, Here, ZenonT(60)

LEMMA PutTgt ==
  ASSUME Laws, PointerInv, NEW p \in Proc, Put(p, Idle, th[p].tgt), th[p].put = None, th[p].ip = None,
         cwd' = cwd, file' = file, ref' = ref
  PROVE  PointerInv'
<1>1. Balance(p, cwd[p], file[p], None, None, th[p].tgt)
  BY Here DEF Balance, One
<1> QED BY <1>1, PutIdle, Here, ZenonT(60)

\* link gives up the directory and goes on to take its link back.
LEMMA PutBad ==
  ASSUME Laws, PointerInv, NEW p \in Proc, th[p].put = None, th[p].op = "link2",
         Put(p, [th[p] EXCEPT !.pc = "linkbad", !.ip = None], th[p].ip),
         cwd' = cwd, file' = file, ref' = ref
  PROVE  PointerInv'
<1> DEFINE r == [th[p] EXCEPT !.pc = "linkbad", !.ip = None]
<1>1. th' = [th EXCEPT ![p] = [r EXCEPT !.put = th[p].ip, !.st = "lock"]]
  BY Zenon DEF Put
<1>2. /\ DOMAIN r = DOMAIN th[p] /\ r.op = "link2" /\ r.pc = "linkbad" /\ r.ip = None
      /\ r.tgt = th[p].tgt
  BY Here, Zenon
<1> HIDE DEF r
<1>3. PlaceOK(r)
  BY <1>2, Here, Zenon DEF PlaceOK, Ops, LinkPcs
<1>4. Balance(p, cwd[p], file[p], r.ip, r.tgt, th[p].ip)
  BY <1>2, Here DEF Balance, One
<1>5. ref' \in [Inum -> Int]
  BY Here, Zenon
<1> QED BY <1>1, <1>3, <1>4, <1>5, Here, BalancedPut, Zenon

\* A new pointer j replaces the pointer to the directory, which goes to iput.
LEMMA Replace ==
  ASSUME Laws, PointerInv, NEW p \in Proc, NEW j, NEW y \in {"found", "made"}, th[p].op # "link2",
         th[p].pc = th[p].op, th[p].put = None, iget(j), cwd' = cwd, file' = file,
         Put(p, [th[p] EXCEPT !.ip = j, !.pc = y], th[p].ip)
  PROVE  PointerInv'
<1> DEFINE r == [th[p] EXCEPT !.ip = j, !.pc = y]
<1>1. th' = [th EXCEPT ![p] = [r EXCEPT !.put = th[p].ip, !.st = "lock"]]
  BY Zenon DEF Put
<1>2. /\ DOMAIN r = DOMAIN th[p] /\ r.op = th[p].op /\ r.pc = y /\ r.ip = j
      /\ r.tgt = th[p].tgt
  BY Here, Zenon
<1> HIDE DEF r
<1>3. th[p].tgt = None
  BY Here, Zenon DEF PlaceOK, Ops
<1>4. PlaceOK(r)
  BY <1>2, <1>3, Here, Zenon DEF PlaceOK, Ops, LinkPcs
<1>5. ref' \in [Inum -> Int] /\ \A i \in Inum : ref'[i] = ref[i] + One(j = i)
  BY Here, Iget, Zenon
<1>6. Balance(p, cwd[p], file[p], r.ip, r.tgt, th[p].ip)
  BY <1>2, <1>5, Here DEF Balance, One
<1>7. ref' \in [Inum -> Int]
  BY <1>5, Zenon
<1>8. cwd' = [cwd EXCEPT ![p] = cwd[p]] /\ file' = [file EXCEPT ![p] = file[p]]
  BY Here, Zenon
<1> QED BY <1>1, <1>4, <1>6, <1>7, <1>8, BalancedPut, Zenon

\* namex begins, with t kept as the other pointer of the call.
LEMMA BeginStep ==
  ASSUME Laws, PointerInv, NEW p \in Proc, NEW op \in Ops \ {"none"}, NEW pa, NEW t, Begin(p, op, pa, t),
         t # None => op = "link2", th[p].ip = t, th[p].tgt = None, th[p].put = None,
         cwd' = cwd, file' = file
  PROVE  PointerInv'
<1> DEFINE j == Start(p, pa)
           y == IF Elems(pa) = <<>> THEN op ELSE "walk"
           e == Elems(pa)
           r == [Idle EXCEPT !.op = op, !.pc = y, !.ip = j, !.path = e, !.tgt = t]
<1>1. iget(j) /\ th' = [th EXCEPT ![p] = r]
  BY Zenon DEF Begin, Go
<1>2. y \in {op, "walk"}
  BY Zenon
<1> HIDE DEF j, y, e
<1>3. /\ DOMAIN r = DOMAIN Idle /\ r.op = op /\ r.pc = y /\ r.ip = j
      /\ r.tgt = t /\ r.put = None
  BY IdleFields, Zenon
<1> HIDE DEF r
<1>4. PlaceOK(r)
  BY <1>2, <1>3, Zenon DEF PlaceOK, Ops, LinkPcs
<1>5. ref' \in [Inum -> Int] /\ \A i \in Inum : ref'[i] = ref[i] + One(j = i)
  BY <1>1, Here, Iget, Zenon
<1>6. Balance(p, cwd[p], file[p], r.ip, r.tgt, r.put)
  BY <1>3, <1>5, Here DEF Balance, One
<1>7. ref' \in [Inum -> Int]
  BY <1>5, Zenon
<1>8. cwd' = [cwd EXCEPT ![p] = cwd[p]] /\ file' = [file EXCEPT ![p] = file[p]]
  BY Here, Zenon
<1> QED BY <1>1, <1>4, <1>6, <1>7, <1>8, BalancedStep, Zenon

LEMMA PointersStep ==
  ASSUME Laws, PointerInv, [Next]_vars
  PROVE  PointerInv'
<1>1. CASE UNCHANGED vars
  BY <1>1, ZenonT(60) DEF vars, PointerInv, RefsArePointers, Pointers, PlaceOK, Idle, None, Ops, LinkPcs
<1>2. ASSUME NEW p \in Proc, iput(p) PROVE PointerInv'
  <2> USE <1>2
  <2> DEFINE r == [th[p] EXCEPT !.st = "deref"]
  <2>1. cwd' = cwd /\ file' = file /\ ref' = ref
    BY Zenon DEF iput
  <2>2. th' = [th EXCEPT ![p] = r]
    BY Zenon DEF iput
  <2>3. /\ DOMAIN r = DOMAIN th[p] /\ r.op = th[p].op /\ r.pc = th[p].pc /\ r.ip = th[p].ip
        /\ r.tgt = th[p].tgt /\ r.put = th[p].put
    BY Here, Zenon
  <2> HIDE DEF r
  <2>4. PlaceOK(r)
    BY <2>3, Here, Zenon DEF PlaceOK
  <2>5. Balance(p, cwd[p], file[p], r.ip, r.tgt, r.put)
    BY <2>1, <2>3, Zenon DEF Balance
  <2> QED BY <2>1, <2>2, <2>4, <2>5, Here, BalancedStep, Zenon
<1>3. ASSUME NEW p \in Proc, iput_deref(p) PROVE PointerInv'
  <2> USE <1>3
  <2> DEFINE r == [th[p] EXCEPT !.put = None, !.st = "lock"]
  <2>1. cwd' = cwd /\ file' = file /\ ref' = [ref EXCEPT ![th[p].put] = @ - 1]
    BY Zenon DEF iput_deref
  <2>2. th' = [th EXCEPT ![p] = r]
    BY Here, Zenon DEF iput_deref
  <2>3. /\ DOMAIN r = DOMAIN th[p] /\ r.op = th[p].op /\ r.pc = th[p].pc /\ r.ip = th[p].ip
        /\ r.tgt = th[p].tgt /\ r.put = None
    BY Here, Zenon
  <2> HIDE DEF r
  <2>4. PlaceOK(r)
    BY <2>3, Here, Zenon DEF PlaceOK
  <2>5. ref' \in [Inum -> Int] /\ \A i \in Inum : ref'[i] = ref[i] - One(th[p].put = i)
    <3> DEFINE j == th[p].put
    <3>1. ref' = [ref EXCEPT ![j] = ref[j] - 1] /\ ref \in [Inum -> Int]
      BY <2>1, Here, Zenon
    <3> HIDE DEF j
    <3>2. ref' \in [Inum -> Int] /\ \A i \in Inum : ref'[i] = IF j = i THEN ref[i] + (-1) ELSE ref[i]
      <4>1. -1 \in Int /\ (j \in Inum => ref[j] - 1 = ref[j] + (-1))
        BY <3>1
      <4> QED BY <3>1, <4>1, Counted, Zenon
    <3>3. \A i \in Inum : ref'[i] = ref[i] - One(j = i)
      BY <3>1, <3>2 DEF One
    <3> QED BY <3>2, <3>3, Zenon DEF j
  <2>6. Balance(p, cwd[p], file[p], r.ip, r.tgt, r.put)
    BY <2>3, <2>5, Here DEF Balance, One
  <2>7. cwd' = [cwd EXCEPT ![p] = cwd[p]] /\ file' = [file EXCEPT ![p] = file[p]]
    BY <2>1, Here, Zenon
  <2>8. ref' \in [Inum -> Int]
    BY <2>5, Zenon
  <2> QED BY <2>2, <2>4, <2>6, <2>7, <2>8, BalancedStep, Zenon
<1>4. ASSUME NEW p \in Proc, walk(p) PROVE PointerInv'
  <2> USE <1>4
  <2> DEFINE t == th[p]
             i == t.ip
             next == Lookup(i, Head(t.path))
             failed == IF t.op = "link2" THEN [t EXCEPT !.pc = "linkbad", !.ip = None] ELSE Idle
             rest == Tail(t.path)
  <2>1. CASE NoType(i)
    BY <2>1, panicStep, Zenon DEF walk
  <2>2. CASE ~NoType(i)
    <3>1. t.pc = "walk" /\ t.put = None /\ cwd' = cwd /\ file' = file
      BY <2>2, Zenon DEF walk, At
    <3>2. CASE Put(p, failed, i) /\ UNCHANGED ref
      <4>1. CASE t.op = "link2"
        BY <3>1, <3>2, <4>1, PutBad, Zenon
      <4>2. CASE t.op # "link2"
        <5>1. t.tgt = None
          BY <3>1, <4>2, Here, Zenon DEF PlaceOK
        <5> QED BY <3>1, <3>2, <4>2, <5>1, PutIp, Zenon
      <4> QED BY <4>1, <4>2, Zenon
    <3>3. CASE Go(p, [t EXCEPT !.pc = t.op]) /\ UNCHANGED ref /\ Parent(t.op)
      <4> DEFINE r == [t EXCEPT !.pc = t.op]
      <4>1. /\ DOMAIN r = DOMAIN t /\ r.op = t.op /\ r.pc = t.op /\ r.ip = t.ip
            /\ r.tgt = t.tgt /\ r.put = t.put
        BY Here, Zenon
      <4>2. th' = [th EXCEPT ![p] = r]
        BY <3>3, Zenon DEF Go
      <4> HIDE DEF r
      <4>3. PlaceOK(r)
        BY <3>1, <3>3, <4>1, Here, Zenon DEF PlaceOK, Parent, Ops, LinkPcs
      <4>4. Balance(p, cwd[p], file[p], r.ip, r.tgt, r.put)
        BY <3>3, <4>1, Zenon DEF Balance
      <4>5. ref' \in [Inum -> Int]
        BY <3>3, Here, Zenon
      <4> QED BY <3>1, <4>2, <4>3, <4>4, <4>5, Here, BalancedStep, Zenon
    <3>4. CASE /\ iget(next)
               /\ Put(p, [t EXCEPT !.ip = next, !.path = rest,
                                   !.pc = IF rest = <<>> THEN t.op ELSE "walk"], i)
      <4> DEFINE r == [t EXCEPT !.ip = next, !.path = rest,
                                !.pc = IF rest = <<>> THEN t.op ELSE "walk"]
      <4>1. /\ DOMAIN r = DOMAIN t /\ r.op = t.op /\ r.pc \in {t.op, "walk"} /\ r.ip = next
            /\ r.tgt = t.tgt
        BY Here, Zenon
      <4>2. th' = [th EXCEPT ![p] = [r EXCEPT !.put = i, !.st = "lock"]]
        BY <3>4, Zenon DEF Put
      <4> HIDE DEF r, next
      <4>3. PlaceOK(r)
        BY <3>1, <4>1, Here, Zenon DEF PlaceOK, Ops, LinkPcs
      <4>4. ref' \in [Inum -> Int] /\ \A j \in Inum : ref'[j] = ref[j] + One(next = j)
        BY <3>4, Here, Iget, Zenon
      <4>5. Balance(p, cwd[p], file[p], r.ip, r.tgt, i)
        BY <3>1, <4>1, <4>4, Here DEF Balance, One
      <4>6. ref' \in [Inum -> Int]
        BY <4>4, Zenon
      <4> QED BY <3>1, <4>2, <4>3, <4>5, <4>6, Here, BalancedPut, Zenon
    <3> QED BY <2>2, <3>2, <3>3, <3>4, Zenon DEF walk
  <2> QED BY <2>1, <2>2, Zenon
<1>5. ASSUME NEW p \in Proc, NEW rdonly \in BOOLEAN, open(p, rdonly) PROVE PointerInv'
  <2> USE <1>5
  <2>1. CASE NoType(th[p].ip)
    BY <2>1, panicStep, Zenon DEF open
  <2>2. CASE ~NoType(th[p].ip)
    <3>1. /\ th[p].pc = "open" /\ th[p].put = None /\ cwd' = cwd /\ ref' = ref
          /\ Install(p, th[p].ip, type[th[p].ip] = "dir" => rdonly)
      BY <2>2, Zenon DEF open, At
    <3>2. th[p].tgt = None
      BY <3>1, Here, Zenon DEF PlaceOK, LinkPcs
    <3> QED BY <3>1, <3>2, InstallStep, Zenon
  <2> QED BY <2>1, <2>2, Zenon
<1>6. ASSUME NEW p \in Proc, create_found(p) PROVE PointerInv'
  <2> USE <1>6
  <2> DEFINE j == Lookup(th[p].ip, Head(th[p].path))
  <2>1. /\ th[p].pc = th[p].op /\ th[p].put = None /\ cwd' = cwd /\ file' = file /\ iget(j)
        /\ Put(p, [th[p] EXCEPT !.ip = j, !.pc = "found"], th[p].ip)
    BY Zenon DEF create_found, At
  <2> HIDE DEF j
  <2>2. th[p].op # "link2"
    BY Zenon DEF create_found
  <2>3. "found" \in {"found", "made"}
    BY Zenon
  <2> QED BY <2>1, <2>2, <2>3, Replace, Zenon
<1>7. ASSUME NEW p \in Proc, create(p) PROVE PointerInv'
  <2> USE <1>7
  <2> DEFINE j == Min({i \in Inum : type[i] = "free"})
  <2>1. /\ th[p].pc = th[p].op /\ th[p].put = None /\ cwd' = cwd /\ file' = file /\ iget(j)
        /\ Put(p, [th[p] EXCEPT !.ip = j, !.pc = "made"], th[p].ip)
    BY Zenon DEF create, At
  <2>2. th[p].op \in {"creat", "mkdir"}
    BY Zenon DEF create
  <2> HIDE DEF j
  <2>3. "made" \in {"found", "made"} /\ th[p].op # "link2"
    BY <2>2, Zenon
  <2> QED BY <2>1, <2>3, Replace, Zenon
<1>8. ASSUME NEW p \in Proc, created(p) PROVE PointerInv'
  <2> USE <1>8
  <2>1. /\ th[p].pc = "made" /\ th[p].put = None /\ cwd' = cwd /\ ref' = ref
        /\ Install(p, th[p].ip, th[p].op = "creat")
    BY Zenon DEF created, At
  <2>2. th[p].tgt = None
    BY <2>1, Here, Zenon DEF PlaceOK, LinkPcs
  <2> QED BY <2>1, <2>2, InstallStep, Zenon
<1>9. ASSUME NEW p \in Proc, found(p) PROVE PointerInv'
  <2> USE <1>9
  <2>1. CASE NoType(th[p].ip)
    BY <2>1, panicStep, Zenon DEF found
  <2>2. CASE ~NoType(th[p].ip)
    <3>1. /\ th[p].pc = "found" /\ th[p].put = None /\ cwd' = cwd /\ ref' = ref
          /\ Install(p, th[p].ip, th[p].op = "creat" /\ type[th[p].ip] = "file")
      BY <2>2, Zenon DEF found, At
    <3>2. th[p].tgt = None
      BY <3>1, Here, Zenon DEF PlaceOK, LinkPcs
    <3> QED BY <3>1, <3>2, InstallStep, Zenon
  <2> QED BY <2>1, <2>2, Zenon
<1>10. ASSUME NEW p \in Proc, unlink_none(p) PROVE PointerInv'
  <2> USE <1>10
  <2>1. /\ th[p].pc = "unlink" /\ th[p].put = None /\ cwd' = cwd /\ file' = file /\ ref' = ref
        /\ Put(p, Idle, th[p].ip)
    BY Zenon DEF unlink_none, At
  <2>2. th[p].tgt = None
    BY <2>1, Here, Zenon DEF PlaceOK, LinkPcs
  <2> QED BY <2>1, <2>2, PutIp, Zenon
<1>11. ASSUME NEW p \in Proc, unlink(p) PROVE PointerInv'
  <2> USE <1>11
  <2> DEFINE t == th[p]
             j == Lookup(t.ip, Head(t.path))
             r == [t EXCEPT !.tgt = t.ip, !.ip = j, !.pc = "unlink2"]
  <2>1. /\ t.pc = "unlink" /\ t.put = None /\ cwd' = cwd /\ file' = file /\ iget(j)
        /\ th' = [th EXCEPT ![p] = r]
    BY Zenon DEF unlink, At, Go
  <2>2. /\ DOMAIN r = DOMAIN t /\ r.op = t.op /\ r.pc = "unlink2" /\ r.ip = j
        /\ r.tgt = t.ip /\ r.put = t.put
    BY Here, Zenon
  <2> HIDE DEF r, j
  <2>3. t.tgt = None
    BY <2>1, Here, Zenon DEF PlaceOK, LinkPcs
  <2>4. PlaceOK(r)
    BY <2>1, <2>2, Here, Zenon DEF PlaceOK, LinkPcs
  <2>5. ref' \in [Inum -> Int] /\ \A i \in Inum : ref'[i] = ref[i] + One(j = i)
    BY <2>1, Here, Iget, Zenon
  <2>6. Balance(p, cwd[p], file[p], r.ip, r.tgt, r.put)
    BY <2>1, <2>2, <2>3, <2>5, Here DEF Balance, One
  <2>7. ref' \in [Inum -> Int]
    BY <2>5, Zenon
  <2> QED BY <2>1, <2>4, <2>6, <2>7, Here, BalancedStep, Zenon
<1>12. ASSUME NEW p \in Proc, unlink_entry(p) PROVE PointerInv'
  <2> USE <1>12
  <2> DEFINE t == th[p]
             a == [t EXCEPT !.pc = "unlockdp", !.ip = None]
             b == [t EXCEPT !.pc = "unlink3", !.tgt = None]
  <2>1. CASE NoType(t.ip) \/ nlink[t.ip] < 1
    BY <2>1, panicStep, Zenon DEF unlink_entry
  <2>2. CASE ~(NoType(t.ip) \/ nlink[t.ip] < 1)
    <3>1. /\ t.pc = "unlink2" /\ t.put = None /\ cwd' = cwd /\ file' = file /\ ref' = ref
          /\ Put(p, a, t.ip) \/ Put(p, b, t.tgt)
      BY <2>2, Zenon DEF unlink_entry, At
    <3>2. /\ DOMAIN a = DOMAIN t /\ a.op = t.op /\ a.pc = "unlockdp" /\ a.ip = None /\ a.tgt = t.tgt
          /\ DOMAIN b = DOMAIN t /\ b.op = t.op /\ b.pc = "unlink3" /\ b.ip = t.ip /\ b.tgt = None
      BY Here, Zenon
    <3> HIDE DEF a, b
    <3>3. PlaceOK(a) /\ PlaceOK(b)
      BY <3>1, <3>2, Here, Zenon DEF PlaceOK, LinkPcs
    <3>4. /\ Balance(p, cwd[p], file[p], a.ip, a.tgt, t.ip)
          /\ Balance(p, cwd[p], file[p], b.ip, b.tgt, t.tgt)
      BY <3>1, <3>2, Here DEF Balance, One
    <3>5. ref' \in [Inum -> Int]
      BY <3>1, Here, Zenon
    <3>6. CASE Put(p, a, t.ip)
      <4>1. th' = [th EXCEPT ![p] = [a EXCEPT !.put = t.ip, !.st = "lock"]]
        BY <3>6, Zenon DEF Put
      <4> QED BY <3>1, <3>3, <3>4, <3>5, <4>1, Here, BalancedPut, Zenon
    <3>7. CASE Put(p, b, t.tgt)
      <4>1. th' = [th EXCEPT ![p] = [b EXCEPT !.put = t.tgt, !.st = "lock"]]
        BY <3>7, Zenon DEF Put
      <4> QED BY <3>1, <3>3, <3>4, <3>5, <4>1, Here, BalancedPut, Zenon
    <3> QED BY <3>1, <3>6, <3>7, Zenon
  <2> QED BY <2>1, <2>2, Zenon
<1>13. ASSUME NEW p \in Proc, unlink_link(p) PROVE PointerInv'
  <2> USE <1>13
  <2>1. /\ th[p].pc = "unlink3" /\ th[p].put = None /\ cwd' = cwd /\ file' = file /\ ref' = ref
        /\ Put(p, Idle, th[p].ip)
    BY Zenon DEF unlink_link, At
  <2>2. th[p].tgt = None
    BY <2>1, Here, Zenon DEF PlaceOK, LinkPcs
  <2> QED BY <2>1, <2>2, PutIp, Zenon
<1>14. ASSUME NEW p \in Proc, unlockdp(p) PROVE PointerInv'
  <2> USE <1>14
  <2>1. th[p].pc = "unlockdp" /\ th[p].put = None /\ cwd' = cwd /\ file' = file /\ ref' = ref
    BY Zenon DEF unlockdp, At
  <2>2. CASE th[p].op = "link2"
    <3>1. Put(p, [th[p] EXCEPT !.pc = "linkbad", !.ip = None], th[p].ip)
      BY <2>2, Zenon DEF unlockdp
    <3> QED BY <2>1, <2>2, <3>1, PutBad, Zenon
  <2>3. CASE th[p].op # "link2"
    <3>1. Put(p, Idle, th[p].tgt)
      BY <2>3, Zenon DEF unlockdp
    <3>2. th[p].ip = None
      BY <2>1, <2>3, Here, Zenon DEF PlaceOK
    <3> QED BY <2>1, <3>1, <3>2, PutTgt, Zenon
  <2> QED BY <2>2, <2>3, Zenon
<1>15. ASSUME NEW p \in Proc, NEW new \in Path, link(p, new) PROVE PointerInv'
  <2> USE <1>15
  <2> DEFINE i == th[p].ip
  <2>1. CASE NoType(i)
    BY <2>1, panicStep, Zenon DEF link
  <2>2. CASE ~NoType(i)
    <3>1. /\ th[p].pc = "link" /\ th[p].put = None /\ cwd' = cwd /\ file' = file
          /\ (Put(p, Idle, i) /\ ref' = ref) \/ Begin(p, "link2", new, i)
      BY <2>2, Zenon DEF link, At
    <3>2. th[p].tgt = None
      BY <3>1, Here, Zenon DEF PlaceOK, LinkPcs
    <3>3. CASE Put(p, Idle, i) /\ ref' = ref
      BY <3>1, <3>2, <3>3, PutIp, Zenon
    <3>4. CASE Begin(p, "link2", new, i)
      <4>1. "link2" \in Ops \ {"none"}
        BY Zenon DEF Ops
      <4> QED BY <3>1, <3>2, <3>4, <4>1, BeginStep, Zenon
    <3> QED BY <3>1, <3>3, <3>4, Zenon
  <2> QED BY <2>1, <2>2, Zenon
<1>16. ASSUME NEW p \in Proc, link_entry(p) PROVE PointerInv'
  <2> USE <1>16
  <2> DEFINE t == th[p]
             e == Lookup(t.ip, Head(t.path))
             a == [t EXCEPT !.pc = "unlockdp"]
             b == [t EXCEPT !.pc = "linked", !.ip = None]
  <2>1. /\ t.pc = "link2" /\ t.put = None /\ cwd' = cwd /\ file' = file
        /\ (iget(e) /\ Put(p, a, e)) \/ (ref' = ref /\ Put(p, b, t.ip))
    BY Zenon DEF link_entry, At
  <2>2. /\ DOMAIN a = DOMAIN t /\ a.op = t.op /\ a.pc = "unlockdp" /\ a.ip = t.ip /\ a.tgt = t.tgt
        /\ DOMAIN b = DOMAIN t /\ b.op = t.op /\ b.pc = "linked" /\ b.ip = None /\ b.tgt = t.tgt
    BY Here, Zenon
  <2> HIDE DEF a, b, e
  <2>3. PlaceOK(a) /\ PlaceOK(b)
    BY <2>1, <2>2, Here, Zenon DEF PlaceOK, LinkPcs
  <2>4. cwd' = [cwd EXCEPT ![p] = cwd[p]] /\ file' = [file EXCEPT ![p] = file[p]]
    BY <2>1, Here, Zenon
  <2>5. CASE iget(e) /\ Put(p, a, e)
    <3>1. th' = [th EXCEPT ![p] = [a EXCEPT !.put = e, !.st = "lock"]]
      BY <2>5, Zenon DEF Put
    <3>2. ref' \in [Inum -> Int] /\ \A i \in Inum : ref'[i] = ref[i] + One(e = i)
      BY <2>5, Here, Iget, Zenon
    <3>3. Balance(p, cwd[p], file[p], a.ip, a.tgt, e)
      BY <2>1, <2>2, <3>2, Here DEF Balance, One
    <3>4. ref' \in [Inum -> Int]
      BY <3>2, Zenon
    <3> QED BY <2>3, <2>4, <3>1, <3>3, <3>4, BalancedPut, Zenon
  <2>6. CASE ref' = ref /\ Put(p, b, t.ip)
    <3>1. th' = [th EXCEPT ![p] = [b EXCEPT !.put = t.ip, !.st = "lock"]]
      BY <2>6, Zenon DEF Put
    <3>2. Balance(p, cwd[p], file[p], b.ip, b.tgt, t.ip)
      BY <2>1, <2>2, <2>6, Here DEF Balance, One
    <3>3. ref' \in [Inum -> Int]
      BY <2>6, Here, Zenon
    <3> QED BY <2>3, <2>4, <3>1, <3>2, <3>3, BalancedPut, Zenon
  <2> QED BY <2>1, <2>5, <2>6, Zenon
<1>17. ASSUME NEW p \in Proc, linked(p) \/ link_bad(p) PROVE PointerInv'
  <2> USE <1>17
  <2>1. /\ th[p].pc \in {"linked", "linkbad"} /\ th[p].put = None
        /\ cwd' = cwd /\ file' = file /\ ref' = ref /\ Put(p, Idle, th[p].tgt)
    BY Zenon DEF linked, link_bad, At
  <2>2. th[p].ip = None
    BY <2>1, Here, Zenon DEF PlaceOK
  <2> QED BY <2>1, <2>2, PutTgt, Zenon
<1>18. ASSUME NEW p \in Proc, chdir(p) PROVE PointerInv'
  <2> USE <1>18
  <2> DEFINE i == th[p].ip
  <2>1. CASE NoType(i)
    BY <2>1, panicStep, Zenon DEF chdir
  <2>2. CASE ~NoType(i)
    <3>1. /\ th[p].pc = "chdir" /\ th[p].put = None /\ file' = file /\ ref' = ref
          /\ \/ cwd' = [cwd EXCEPT ![p] = i] /\ Put(p, Idle, cwd[p])
             \/ Put(p, Idle, i) /\ cwd' = cwd
      BY <2>2, Zenon DEF chdir, At
    <3>2. th[p].tgt = None
      BY <3>1, Here, Zenon DEF PlaceOK, LinkPcs
    <3>3. CASE cwd' = [cwd EXCEPT ![p] = i] /\ Put(p, Idle, cwd[p])
      <4>1. Balance(p, i, file[p], None, None, cwd[p])
        BY <3>1, <3>2, Here DEF Balance, One
      <4> QED BY <3>1, <3>3, <4>1, Here, PutIdle, Zenon
    <3>4. CASE Put(p, Idle, i) /\ cwd' = cwd
      BY <3>1, <3>2, <3>4, PutIp, Zenon
    <3> QED BY <3>1, <3>3, <3>4, Zenon
  <2> QED BY <2>1, <2>2, Zenon
<1>19. ASSUME NEW p \in Proc, Call(p) PROVE PointerInv'
  <2> USE <1>19
  <2>1. ASSUME NEW op \in {"open", "creat", "mkdir", "unlink", "link", "chdir"}, NEW pa \in Path,
               syscall(p, op, pa)
        PROVE  PointerInv'
    <3>1. /\ th[p].pc = "idle" /\ th[p].put = None /\ cwd' = cwd /\ file' = file
          /\ Begin(p, op, pa, None)
      BY <2>1, Zenon DEF syscall, At
    <3>2. th[p].ip = None /\ th[p].tgt = None
      BY <3>1, Here, Zenon DEF PlaceOK
    <3>3. op \in Ops \ {"none"}
      BY Zenon DEF Ops
    <3> QED BY <3>1, <3>2, <3>3, BeginStep, Zenon
  <2>2. CASE close(p)
    <3>1. /\ th[p].pc = "idle" /\ th[p].put = None /\ cwd' = cwd /\ ref' = ref
          /\ file' = [file EXCEPT ![p] = None] /\ Put(p, Idle, file[p])
      BY <2>2, Zenon DEF close, At
    <3>2. th[p].ip = None /\ th[p].tgt = None
      BY <3>1, Here, Zenon DEF PlaceOK
    <3>3. Balance(p, cwd[p], None, None, None, file[p])
      BY <3>1, <3>2, Here DEF Balance, One
    <3> QED BY <3>1, <3>3, Here, PutIdle, Zenon
  <2> QED BY <2>1, <2>2, Zenon DEF Call
<1>20. ASSUME NEW p \in Proc, Step(p) PROVE PointerInv'
  BY <1>20, <1>2, <1>3, <1>4, <1>5, <1>6, <1>7, <1>8,
     <1>9, <1>10, <1>11, <1>12, <1>13, <1>14,
     <1>15, <1>16, <1>17, <1>18, Zenon DEF Step
<1> QED BY <1>1, <1>20, <1>19, Zenon DEF Next

LEMMA PointersInit ==
  ASSUME Laws, Init
  PROVE  PointerInv
<1>1. /\ cwd = [p \in Proc |-> Root] /\ file = [p \in Proc |-> None]
      /\ th = [p \in Proc |-> Idle]
      /\ ref = [i \in Inum |-> IF i = Root THEN Cardinality(Proc) ELSE 0]
  BY Zenon DEF Init
<1>2. Cardinality(Proc) \in Nat /\ Cardinality({}) = 0
  BY InodeAssumption, Size, Empty, Zenon
<1>3. ref \in [Inum -> Int]
  BY <1>1, <1>2
<1>4. \A p \in Proc : PlaceOK(th[p])
  BY <1>1, IdleFields, Zenon
<1>5. RefsArePointers
  <2> SUFFICES ASSUME NEW i \in Inum PROVE ref[i] = Pointers(i)
    BY Zenon DEF RefsArePointers
  <2>1. i # None
    BY InodeAssumption DEF None, Inum
  <2>2. /\ {p \in Proc : cwd[p] = i} = IF i = Root THEN Proc ELSE {}
        /\ {p \in Proc : file[p] = i} = {} /\ {p \in Proc : th[p].ip = i} = {}
        /\ {p \in Proc : th[p].tgt = i} = {} /\ {p \in Proc : th[p].put = i} = {}
    BY <1>1, <2>1, IdleFields, Zenon
  <2>3. /\ Cardinality({p \in Proc : file[p] = i}) = 0 /\ Cardinality({p \in Proc : th[p].ip = i}) = 0
        /\ Cardinality({p \in Proc : th[p].tgt = i}) = 0
        /\ Cardinality({p \in Proc : th[p].put = i}) = 0
    BY <1>2, <2>2, Zenon
  <2> DEFINE C == {p \in Proc : cwd[p] = i}
  <2>4. CASE i = Root
    <3>1. Cardinality(C) = Cardinality(Proc)
      BY <2>2, <2>4, Zenon
    <3>2. ref[i] = Cardinality(Proc)
      BY <1>1, <2>4, Zenon
    <3>3. Pointers(i) = Cardinality(Proc) + 0 + 0 + 0 + 0
      BY <2>3, <3>1, Zenon DEF Pointers
    <3> QED BY <1>2, <3>2, <3>3
  <2>5. CASE i # Root
    <3>1. Cardinality(C) = 0
      BY <1>2, <2>2, <2>5, Zenon
    <3>2. ref[i] = 0
      BY <1>1, <2>5, Zenon
    <3>3. Pointers(i) = 0 + 0 + 0 + 0 + 0
      BY <2>3, <3>1, Zenon DEF Pointers
    <3> QED BY <3>2, <3>3
  <2> QED BY <2>4, <2>5, Zenon
<1>6. /\ cwd = [p \in Proc |-> cwd[p]] /\ file = [p \in Proc |-> file[p]]
      /\ th = [p \in Proc |-> th[p]]
  BY <1>1, Zenon
<1> QED BY <1>3, <1>4, <1>5, <1>6, Zenon DEF PointerInv

-----------------------------------------------------------------------------
(* Entries and links.                                                      *)

Element == Name \cup {".", ".."}
InDir == {"creat", "mkdir", "unlink", "link2"}
Locking == {"made", "unlink2", "unlink3", "unlockdp"}

\* link() has counted a link that is not yet an entry.
Adding(t) == t.op = "link2" /\ t.pc # "linked"

\* The inode that a call keeps locked from one step to the next.
Locked(t) ==
  CASE t.pc = "unlink2" -> t.tgt
    [] t.pc = "unlockdp" -> IF t.op = "link2" THEN t.ip ELSE t.tgt
    [] OTHER -> t.ip

\* What process q, which is doing t, relies on.
Doing(q, t) ==
  /\ t.ip \in Inum \cup {None} /\ t.tgt \in Inum \cup {None} /\ t.path \in Seq(Element)
  /\ t.pc \in InDir \cup {"walk"} => t.path # <<>>
  /\ t.pc \notin {"idle", "linked", "linkbad", "unlockdp"} => t.ip \in Inum
  /\ t.pc \in InDir => type[t.ip] = "dir"
  /\ t.pc = "unlink2" => /\ t.tgt \in Inum /\ type[t.tgt] = "dir" /\ Head(t.path) \in Name
                         /\ dents[t.tgt][Head(t.path)] = t.ip
  /\ t.pc \in Locking => Locked(t) \in Inum /\ lock[Locked(t)] = q
  /\ Adding(t) => t.tgt \in Inum /\ type[t.tgt] = "file"

TreeType ==
  /\ type \in [Inum -> {"free", "file", "dir"}] /\ nlink \in [Inum -> Int]
  /\ dents \in [Inum -> [Name -> Inum \cup {None}]] /\ dotdot \in [Inum -> Inum \cup {None}]
  /\ valid \in [Inum -> BOOLEAN] /\ lock \in [Inum -> Proc \cup {None}] /\ cwd \in [Proc -> Inum]
  /\ \A i \in Inum : /\ type[i] = "dir" => dotdot[i] # None
                     /\ type[i] # "dir" => dents[i] = NoEntries
                     /\ valid[i] => type[i] # "free"

\* What a link count counts: the entries that lead to the inode, the ".." of
\* its subdirectories, links that are about to become entries, and entries
\* that have just been erased.
Links(i) == {x \in Inum \X Name : type[x[1]] = "dir" /\ dents[x[1]][x[2]] = i}
Subs(i) == {n \in Name : type[i] = "dir" /\ dents[i][n] \in Inum /\ type[dents[i][n]] = "dir"}
Adds(i) == {p \in Proc : Adding(th[p]) /\ th[p].tgt = i}
Dels(i) == {p \in Proc : th[p].pc = "unlink3" /\ th[p].ip = i}

CountOK(i) ==
  /\ Cardinality(Links(i)) + Cardinality(Subs(i)) + Cardinality(Adds(i)) + Cardinality(Dels(i))
       + One(i = Root) <= nlink[i]
  /\ type[i] = "free" => Links(i) = {} /\ Adds(i) = {} /\ Dels(i) = {} /\ i # Root

LinkInv ==
  /\ TreeType
  /\ \A i \in Inum : CountOK(i)
  /\ \A p \in Proc : Doing(p, th[p])

\* Sizes of finite sets.
LEMMA FiniteParts ==
  ASSUME Laws
  PROVE  /\ \A S \in SUBSET (Inum \X Name) : IsFiniteSet(S)
         /\ \A S \in SUBSET Name : IsFiniteSet(S)
         /\ \A S \in SUBSET Proc : IsFiniteSet(S)
<1>1. IsFiniteSet(Inum)
  <2>1. 1 \in Int /\ NInode \in Int
    BY InodeAssumption
  <2> QED BY <2>1, Zenon DEF Laws, Inum
<1>2. IsFiniteSet(Inum \X Name)
  BY <1>1, InodeAssumption, Zenon DEF Laws
<1> QED BY <1>2, InodeAssumption, Zenon DEF Laws

LEMMA Fewer ==
  ASSUME Laws, NEW S, NEW T \in SUBSET S, IsFiniteSet(S)
  PROVE  Cardinality(T) \in Nat /\ Cardinality(S) \in Nat /\ Cardinality(T) <= Cardinality(S)
BY Zenon DEF Laws

LEMMA OneMore ==
  ASSUME Laws, NEW S, NEW x, NEW T \in SUBSET (S \cup {x}), IsFiniteSet(S)
  PROVE  /\ Cardinality(T) \in Nat /\ Cardinality(S) \in Nat
         /\ Cardinality(T) <= Cardinality(S) + 1
<1>1. /\ IsFiniteSet(S \cup {x}) /\ Cardinality(S) \in Nat
      /\ Cardinality(S \cup {x}) = IF x \in S THEN Cardinality(S) ELSE Cardinality(S) + 1
  BY Zenon DEF Laws
<1>2. Cardinality(T) \in Nat /\ Cardinality(T) <= Cardinality(S \cup {x})
  BY <1>1, Fewer, Zenon
<1> QED BY <1>1, <1>2

LEMMA OneLess ==
  ASSUME Laws, NEW S, NEW x \in S, NEW T \in SUBSET (S \ {x}), IsFiniteSet(S)
  PROVE  /\ Cardinality(T) \in Nat /\ Cardinality(S) \in Nat
         /\ Cardinality(T) <= Cardinality(S) - 1
<1>1. /\ IsFiniteSet(S \ {x}) /\ Cardinality(S) \in Nat
      /\ Cardinality(S \ {x}) = IF x \in S THEN Cardinality(S) - 1 ELSE Cardinality(S)
  BY Zenon DEF Laws
<1>2. Cardinality(T) \in Nat /\ Cardinality(T) <= Cardinality(S \ {x})
  BY <1>1, Fewer, Zenon
<1> QED BY <1>1, <1>2, Zenon

\* The four sets are finite, before and after a step.
LEMMA Parts ==
  ASSUME Laws, NEW i
  PROVE  /\ IsFiniteSet(Links(i)) /\ IsFiniteSet(Subs(i)) /\ IsFiniteSet(Adds(i))
         /\ IsFiniteSet(Dels(i))
         /\ IsFiniteSet(Links(i)') /\ IsFiniteSet(Subs(i)') /\ IsFiniteSet(Adds(i)')
         /\ IsFiniteSet(Dels(i)')
<1>1. /\ Links(i) \in SUBSET (Inum \X Name) /\ Subs(i) \in SUBSET Name
      /\ Adds(i) \in SUBSET Proc /\ Dels(i) \in SUBSET Proc
  BY Zenon DEF Links, Subs, Adds, Dels
<1>2. /\ Links(i)' \in SUBSET (Inum \X Name) /\ Subs(i)' \in SUBSET Name
      /\ Adds(i)' \in SUBSET Proc /\ Dels(i)' \in SUBSET Proc
  BY Zenon DEF Links, Subs, Adds, Dels
<1> QED BY <1>1, <1>2, FiniteParts, Zenon

\* Nothing is added to what the count of i counts.
LEMMA CountKept ==
  ASSUME Laws, NEW i \in Inum, CountOK(i), nlink[i] \in Int, nlink'[i] \in Int, nlink[i] <= nlink'[i],
         Links(i)' \subseteq Links(i), Subs(i)' \subseteq Subs(i),
         Adds(i)' \subseteq Adds(i), Dels(i)' \subseteq Dels(i),
         type'[i] = "free" => type[i] = "free"
  PROVE  CountOK(i)'
<1>1. /\ Cardinality(Links(i)') \in Nat /\ Cardinality(Links(i)) \in Nat
      /\ Cardinality(Links(i)') <= Cardinality(Links(i))
  BY Parts, Fewer, Zenon
<1>2. /\ Cardinality(Subs(i)') \in Nat /\ Cardinality(Subs(i)) \in Nat
      /\ Cardinality(Subs(i)') <= Cardinality(Subs(i))
  BY Parts, Fewer, Zenon
<1>3. /\ Cardinality(Adds(i)') \in Nat /\ Cardinality(Adds(i)) \in Nat
      /\ Cardinality(Adds(i)') <= Cardinality(Adds(i))
  BY Parts, Fewer, Zenon
<1>4. /\ Cardinality(Dels(i)') \in Nat /\ Cardinality(Dels(i)) \in Nat
      /\ Cardinality(Dels(i)') <= Cardinality(Dels(i))
  BY Parts, Fewer, Zenon
<1>5. Cardinality(Links(i)') + Cardinality(Subs(i)') + Cardinality(Adds(i)')
        + Cardinality(Dels(i)') + One(i = Root) <= nlink'[i]
  BY <1>1, <1>2, <1>3, <1>4 DEF CountOK, One
<1>6. type'[i] = "free" => Links(i)' = {} /\ Adds(i)' = {} /\ Dels(i)' = {} /\ i # Root
  BY Zenon DEF CountOK
<1> QED BY <1>5, <1>6, Zenon DEF CountOK

\* The entries of a directory are links of the inodes they lead to.
LEMMA LinksCount ==
  ASSUME Laws, LinkInv
  PROVE  EntriesAreLinks
<1> SUFFICES ASSUME NEW i \in Inum, Entries(i) > 0
             PROVE  type[i] # "free" /\ nlink[i] >= Entries(i)
  BY Zenon DEF EntriesAreLinks
<1>1. Entries(i) = Cardinality(Links(i))
  BY Zenon DEF Entries, Links
<1>2. /\ Cardinality(Links(i)) \in Nat /\ Cardinality(Subs(i)) \in Nat
      /\ Cardinality(Adds(i)) \in Nat /\ Cardinality(Dels(i)) \in Nat /\ nlink[i] \in Int
  BY Parts, Size, Zenon DEF LinkInv, TreeType
<1>3. CountOK(i)
  BY Zenon DEF LinkInv
<1>4. nlink[i] >= Entries(i)
  BY <1>1, <1>2, <1>3 DEF CountOK, One
<1>5. Links(i) # {}
  BY <1>1, <1>2, Empty
<1> QED BY <1>3, <1>4, <1>5, Zenon DEF CountOK

-----------------------------------------------------------------------------

\* What a step of p leaves to the others.
Kept(p) ==
  \A q \in Proc \ {p} :
    /\ th'[q] = th[q]
    /\ \A i \in Inum : lock[i] = q => lock'[i] = q /\ dents'[i] = dents[i]
    /\ \A i \in Inum : i \in {th[q].ip, th[q].tgt} /\ type[i] # "free" => type'[i] = type[i]

LEMMA OthersKeep ==
  ASSUME LinkInv, NEW p \in Proc, Kept(p), NEW q \in Proc \ {p}
  PROVE  Doing(q, th[q])'
<1> DEFINE t == th[q]
<1>1. Doing(q, t) /\ t' = t
  BY Zenon DEF LinkInv, Kept
<1>2. /\ \A i \in Inum : lock[i] = q => lock'[i] = q /\ dents'[i] = dents[i]
      /\ \A i \in Inum : i \in {t.ip, t.tgt} /\ type[i] # "free" => type'[i] = type[i]
  BY Zenon DEF Kept
<1> HIDE DEF t
<1>3. /\ t.pc \in InDir => type'[t.ip] = "dir"
  BY <1>1, <1>2, Zenon DEF Doing, InDir
<1>4. t.pc = "unlink2" => lock[t.tgt] = q
  BY <1>1, Zenon DEF Doing, Locking, Locked
<1>5. t.pc = "unlink2" => /\ type'[t.tgt] = "dir" /\ dents'[t.tgt][Head(t.path)] = t.ip
  BY <1>1, <1>2, <1>4, Zenon DEF Doing
<1>6. t.pc \in Locking => Locked(t) \in Inum /\ lock'[Locked(t)] = q
  BY <1>1, <1>2, Zenon DEF Doing
<1>7. Adding(t) => type'[t.tgt] = "file"
  BY <1>1, <1>2, Zenon DEF Doing
<1>8. Locked(t)' = Locked(t) /\ (Adding(t)' <=> Adding(t))
  BY <1>1, Zenon DEF Locked, Adding
<1>9. Doing(q, t)'
  BY <1>1, <1>3, <1>5, <1>6, <1>7, <1>8, Zenon DEF Doing, InDir, Locking
<1> QED BY <1>9, Zenon DEF t

\* A call goes on as r, at once or with an iput to follow.
GoesOn(p, r) ==
  /\ \A q \in Proc \ {p} : th'[q] = th[q]
  /\ th'[p].op = r.op /\ th'[p].pc = r.pc /\ th'[p].ip = r.ip /\ th'[p].tgt = r.tgt
  /\ th'[p].path = r.path

LEMMA PutTo ==
  ASSUME PointerInv, NEW p \in Proc, NEW r, NEW j, DOMAIN r = DOMAIN Idle,
         Go(p, r) \/ Put(p, r, j)
  PROVE  GoesOn(p, r)
<1>1. th = [q \in Proc |-> th[q]]
  BY Here, Zenon
<1>2. CASE Go(p, r)
  BY <1>1, <1>2, Zenon DEF Go, GoesOn
<1>3. CASE Put(p, r, j)
  <2> DEFINE s == [r EXCEPT !.put = j, !.st = "lock"]
  <2>1. s.op = r.op /\ s.pc = r.pc /\ s.ip = r.ip /\ s.tgt = r.tgt /\ s.path = r.path
    BY IdleFields, Zenon
  <2>2. th' = [th EXCEPT ![p] = s]
    BY <1>3, Zenon DEF Put
  <2> HIDE DEF s
  <2>3. th'[p] = s /\ \A q \in Proc \ {p} : th'[q] = th[q]
    BY <1>1, <2>2, Zenon
  <2> QED BY <2>1, <2>3, Zenon DEF GoesOn
<1> QED BY <1>2, <1>3, Zenon

\* Links pending in a call of p after a step: none but those before it.
NothingNew(p) ==
  /\ Adding(th'[p]) => Adding(th[p]) /\ th'[p].tgt = th[p].tgt
  /\ th'[p].pc = "unlink3" => th[p].pc = "unlink3" /\ th'[p].ip = th[p].ip

LEMMA PendingKept ==
  ASSUME NEW p \in Proc, NEW i, NothingNew(p), \A q \in Proc \ {p} : th'[q] = th[q]
  PROVE  Adds(i)' \subseteq Adds(i) /\ Dels(i)' \subseteq Dels(i)
<1>1. ASSUME NEW q \in Adds(i)' PROVE q \in Adds(i)
  <2>1. q \in Proc /\ Adding(th'[q]) /\ th'[q].tgt = i
    BY Zenon DEF Adds, Adding
  <2>2. Adding(th[q]) /\ th[q].tgt = i
    BY <2>1, Zenon DEF NothingNew
  <2> QED BY <2>1, <2>2, Zenon DEF Adds
<1>2. ASSUME NEW q \in Dels(i)' PROVE q \in Dels(i)
  <2>1. q \in Proc /\ th'[q].pc = "unlink3" /\ th'[q].ip = i
    BY Zenon DEF Dels
  <2>2. th[q].pc = "unlink3" /\ th[q].ip = i
    BY <2>1, Zenon DEF NothingNew
  <2> QED BY <2>1, <2>2, Zenon DEF Dels
<1> QED BY <1>1, <1>2, Zenon

\* The rest of the inode's state.
ValidOK == valid' \in [Inum -> BOOLEAN] /\ \A i \in Inum : valid'[i] => type'[i] # "free"
LockOK(p) ==
  /\ lock' \in [Inum -> Proc \cup {None}]
  /\ \A q \in Proc \ {p}, i \in Inum : lock[i] = q => lock'[i] = q

LEMMA QuietStep ==
  ASSUME Laws, LinkInv, NEW p \in Proc, UNCHANGED <<type, nlink, dents, dotdot>>, ValidOK, LockOK(p),
         cwd' \in [Proc -> Inum], \A q \in Proc \ {p} : th'[q] = th[q], NothingNew(p),
         Doing(p, th[p])'
  PROVE  LinkInv'
<1>1. Kept(p)
  BY Zenon DEF Kept, LockOK
<1>2. \A q \in Proc : Doing(q, th[q])'
  <2>1. \A q \in Proc \ {p} : Doing(q, th[q])'
    BY <1>1, OthersKeep, Zenon
  <2> QED BY <2>1, Zenon
<1>3. ASSUME NEW i \in Inum PROVE CountOK(i)'
  <2>1. Links(i)' = Links(i) /\ Subs(i)' = Subs(i)
    BY Zenon DEF Links, Subs, Inum
  <2>2. nlink[i] \in Int /\ nlink'[i] = nlink[i] /\ CountOK(i) /\ type'[i] = type[i]
    BY Zenon DEF LinkInv, TreeType
  <2>3. nlink[i] <= nlink'[i]
    BY <2>2
  <2> QED BY <2>1, <2>2, <2>3, PendingKept, CountKept, Zenon
<1>4. TreeType'
  <2>1. TreeType
    BY Zenon DEF LinkInv
  <2> QED BY <2>1, Zenon DEF TreeType, ValidOK, LockOK, Inum, None, NoEntries
<1>5. (\A i \in Inum : CountOK(i))'
  BY <1>3, Zenon DEF Inum
<1>6. (\A q \in Proc : Doing(q, th[q]))'
  BY <1>2, Zenon
<1> QED BY <1>4, <1>5, <1>6, Zenon DEF LinkInv

LEMMA Unlocked ==
  ASSUME LinkInv, NEW p \in Proc, NEW x, lock' = [lock EXCEPT ![x] = None], lock[x] = p
  PROVE  LockOK(p)
BY Zenon DEF LinkInv, TreeType, LockOK

LEMMA LockTaken ==
  ASSUME LinkInv, NEW p \in Proc, NEW x, lock' = [lock EXCEPT ![x] = p], lock[x] = None
  PROVE  LockOK(p)
BY InodeAssumption, Zenon DEF LinkInv, TreeType, LockOK

LEMMA LockSame ==
  ASSUME LinkInv, NEW p \in Proc, lock' = lock
  PROVE  LockOK(p)
BY Zenon DEF LinkInv, TreeType, LockOK

LEMMA ValidSet ==
  ASSUME LinkInv, NEW x \in Inum, Valid(x), type' = type, ~NoType(x)
  PROVE  ValidOK /\ type[x] # "free"
BY Zenon DEF LinkInv, TreeType, ValidOK, Valid, NoType

LEMMA ValidSame ==
  ASSUME LinkInv, valid' = valid, type' = type
  PROVE  ValidOK
BY Zenon DEF LinkInv, TreeType, ValidOK

\* A call ends.
LEMMA EndStep ==
  ASSUME Laws, LinkInv, PointerInv, NEW p \in Proc, NEW j, Go(p, Idle) \/ Put(p, Idle, j),
         UNCHANGED <<type, nlink, dents, dotdot>>, ValidOK, LockOK(p), cwd' \in [Proc -> Inum]
  PROVE  LinkInv'
<1>1. GoesOn(p, Idle)
  BY PutTo, Zenon
<1>2. /\ th'[p].op = "none" /\ th'[p].pc = "idle" /\ th'[p].ip = None /\ th'[p].tgt = None
      /\ th'[p].path = <<>> /\ \A q \in Proc \ {p} : th'[q] = th[q]
  BY <1>1, Zenon DEF GoesOn, Idle
<1>3. NothingNew(p)
  BY <1>2, Zenon DEF NothingNew, Adding
<1>4. Doing(p, th[p])'
  BY <1>2 DEF Doing, InDir, Locking, Adding
<1> QED BY <1>2, <1>3, <1>4, QuietStep, Zenon

LEMMA LookupFinds ==
  ASSUME LinkInv, NEW d \in Inum, NEW n \in Element
  PROVE  /\ Lookup(d, n) \in Inum \cup {None}
         /\ n \in Name => Lookup(d, n) = dents[d][n]
         /\ type[d] = "dir" /\ Lookup(d, n) = None => n \in Name
<1>1. "." \notin Name /\ ".." \notin Name /\ d # None
  BY InodeAssumption DEF None, Inum
<1>2. /\ dents[d] \in [Name -> Inum \cup {None}] /\ dotdot[d] \in Inum \cup {None}
      /\ type[d] = "dir" => dotdot[d] # None
  BY Zenon DEF LinkInv, TreeType
<1>3. CASE n = "."
  BY <1>1, <1>3, Zenon DEF Lookup
<1>4. CASE n = ".."
  BY <1>1, <1>2, <1>4, Zenon DEF Lookup
<1>5. CASE n \in Name
  <2>1. Lookup(d, n) = dents[d][n]
    BY <1>1, <1>5, Zenon DEF Lookup
  <2> QED BY <1>2, <1>5, <2>1, Zenon
<1> QED BY <1>3, <1>4, <1>5, Zenon DEF Element

\* What a process relies on, and the types it knows.
LEMMA Now ==
  ASSUME LinkInv, PointerInv, NEW p \in Proc
  PROVE  /\ Doing(p, th[p]) /\ PlaceOK(th[p]) /\ cwd \in [Proc -> Inum]
         /\ DOMAIN th[p] = {"op", "pc", "ip", "tgt", "path", "put", "st"}
BY Here, Zenon DEF LinkInv, TreeType

\* A call in which only the iput moves on.
LEMMA DoingKept ==
  ASSUME NEW p \in Proc, Doing(p, th[p]), GoesOn(p, th[p]), type' = type, dents' = dents,
         lock' = lock
  PROVE  Doing(p, th[p])' /\ NothingNew(p)
<1>1. /\ th'[p].op = th[p].op /\ th'[p].pc = th[p].pc /\ th'[p].ip = th[p].ip
      /\ th'[p].tgt = th[p].tgt /\ th'[p].path = th[p].path
  BY Zenon DEF GoesOn
<1>2. Locked(th'[p]) = Locked(th[p]) /\ (Adding(th'[p]) <=> Adding(th[p]))
  BY <1>1, Zenon DEF Locked, Adding
<1>3. Doing(p, th[p])'
  <2>1. Locked(th[p])' = Locked(th[p]) /\ (Adding(th[p])' <=> Adding(th[p]))
    BY <1>1, Zenon DEF Locked, Adding
  <2> QED BY <1>1, <2>1, Zenon DEF Doing, InDir, Locking
<1>4. NothingNew(p)
  BY <1>1, <1>2, Zenon DEF NothingNew
<1> QED BY <1>3, <1>4, Zenon

\* link gives up the directory.
LEMMA BadStep ==
  ASSUME Laws, LinkInv, PointerInv, NEW p \in Proc, NEW j, th[p].op = "link2", th[p].pc # "linked",
         Put(p, [th[p] EXCEPT !.pc = "linkbad", !.ip = None], j),
         UNCHANGED <<type, nlink, dents, dotdot>>, ValidOK, LockOK(p), cwd' = cwd
  PROVE  LinkInv'
<1> DEFINE r == [th[p] EXCEPT !.pc = "linkbad", !.ip = None]
<1>1. /\ DOMAIN r = DOMAIN Idle /\ r.op = th[p].op /\ r.pc = "linkbad" /\ r.ip = None
      /\ r.tgt = th[p].tgt /\ r.path = th[p].path
  BY Now, IdleFields, Zenon
<1>2. GoesOn(p, r)
  BY <1>1, PutTo, Zenon
<1> HIDE DEF r
<1>3. /\ th'[p].op = th[p].op /\ th'[p].pc = "linkbad" /\ th'[p].ip = None
      /\ th'[p].tgt = th[p].tgt /\ th'[p].path = th[p].path
      /\ \A q \in Proc \ {p} : th'[q] = th[q]
  BY <1>1, <1>2, Zenon DEF GoesOn
<1>4. NothingNew(p)
  BY <1>3, Zenon DEF NothingNew, Adding
<1>5. Doing(p, th[p])'
  BY <1>3, Now DEF Doing, InDir, Locking, Adding
<1> QED BY <1>3, <1>4, <1>5, Now, QuietStep, Zenon

LEMMA LinkPanic ==
  ASSUME LinkInv, panic
  PROVE  LinkInv'
<1>1. UNCHANGED <<type, nlink, dents, dotdot, valid, lock, cwd, th>>
  BY Zenon DEF panic, disk
<1>2. TreeType'
  BY <1>1, Zenon DEF LinkInv, TreeType, Inum, None, NoEntries
<1>3. \A i \in Inum : CountOK(i)'
  BY <1>1, ZenonT(60) DEF LinkInv, CountOK, Links, Subs, Adds, Dels, Adding, Inum
<1>4. \A p \in Proc : Doing(p, th[p])'
  BY <1>1, ZenonT(60) DEF LinkInv, Doing, Inum, None, Element, InDir, Locking, Locked, Adding
<1> QED BY <1>2, <1>3, <1>4, Zenon DEF LinkInv, Inum

\* p, at l, has a pointer ip that it locks.
LEMMA AtIp ==
  ASSUME LinkInv, PointerInv, NEW p \in Proc,
         th[p].pc \notin {"idle", "linked", "linkbad", "unlockdp"}
  PROVE  th[p].ip \in Inum /\ (th[p].pc \in InDir => type[th[p].ip] = "dir"
                                /\ th[p].path # <<>> /\ Head(th[p].path) \in Element
                                /\ ~NoType(th[p].ip))
<1>1. Doing(p, th[p])
  BY Now, Zenon
<1>2. th[p].path # <<>> => Head(th[p].path) \in Element
  BY <1>1 DEF Doing
<1> QED BY <1>1, <1>2, Zenon DEF Doing, NoType

LEMMA LinkInstall ==
  ASSUME Laws, LinkInv, PointerInv, NEW p \in Proc, NEW j, NEW ok, Install(p, j, ok),
         UNCHANGED <<type, nlink, dents, dotdot>>, ValidOK, LockOK(p), cwd' = cwd
  PROVE  LinkInv'
<1>1. Go(p, Idle) \/ Put(p, Idle, j)
  BY Zenon DEF Install
<1> QED BY <1>1, Now, EndStep, Zenon

\* A call in progress, as r, that adds nothing.
LEMMA OnStep ==
  ASSUME Laws, LinkInv, PointerInv, NEW p \in Proc, NEW r, NEW j, Go(p, r) \/ Put(p, r, j),
         DOMAIN r = DOMAIN Idle, r.pc # "unlink3",
         Adding(r) => Adding(th[p]) /\ r.tgt = th[p].tgt,
         UNCHANGED <<type, nlink, dents, dotdot>>, ValidOK, LockOK(p), cwd' = cwd,
         /\ r.ip \in Inum \cup {None} /\ r.tgt \in Inum \cup {None} /\ r.path \in Seq(Element)
         /\ r.pc \in InDir \cup {"walk"} => r.path # <<>>
         /\ r.pc \notin {"idle", "linked", "linkbad", "unlockdp"} => r.ip \in Inum
         /\ r.pc \in InDir => type[r.ip] = "dir"
         /\ r.pc = "unlink2" => /\ r.tgt \in Inum /\ type[r.tgt] = "dir" /\ Head(r.path) \in Name
                                /\ dents[r.tgt][Head(r.path)] = r.ip
         /\ r.pc \in Locking => Locked(r) \in Inum /\ lock'[Locked(r)] = p
         /\ Adding(r) => r.tgt \in Inum /\ type[r.tgt] = "file"
  PROVE  LinkInv'
<1>1. GoesOn(p, r)
  BY PutTo, Zenon
<1>2. /\ th'[p].op = r.op /\ th'[p].pc = r.pc /\ th'[p].ip = r.ip /\ th'[p].tgt = r.tgt
      /\ th'[p].path = r.path /\ \A q \in Proc \ {p} : th'[q] = th[q]
  BY <1>1, Zenon DEF GoesOn
<1>3. NothingNew(p)
  BY <1>2, Zenon DEF NothingNew, Adding
<1>4. Locked(th[p])' = Locked(r) /\ (Adding(th[p])' <=> Adding(r))
  BY <1>2, Zenon DEF Locked, Adding
<1>5. Doing(p, th[p])'
  BY <1>2, <1>4, Zenon DEF Doing, InDir, Locking, Inum, None, Element
<1> QED BY <1>2, <1>3, <1>5, Now, QuietStep, Zenon

\* namex begins.
Begun(p, op, pa, x) ==
  [Idle EXCEPT !.op = op, !.pc = IF Elems(pa) = <<>> THEN op ELSE "walk",
               !.ip = Start(p, pa), !.path = Elems(pa), !.tgt = x]

LEMMA PathBegin ==
  ASSUME LinkInv, PointerInv, NEW p \in Proc, NEW pa \in Path, NEW op, NEW x, NEW r,
         r = Begun(p, op, pa, x)
  PROVE  /\ DOMAIN r = DOMAIN Idle /\ r.op = op /\ r.ip = Start(p, pa) /\ r.path = Elems(pa)
         /\ r.tgt = x /\ r.pc = IF Elems(pa) = <<>> THEN op ELSE "walk"
         /\ Start(p, pa) \in Inum /\ Elems(pa) \in Seq(Element)
<1>1. Elems(pa) \in Seq(Element)
  BY PathAssumption, Zenon DEF Element
<1>2. Start(p, pa) \in Inum
  BY Now, InodeAssumption DEF Start, Root, Inum
<1> DEFINE s == Start(p, pa)
           e == Elems(pa)
           l == IF e = <<>> THEN op ELSE "walk"
<1>3. r = [Idle EXCEPT !.op = op, !.pc = l, !.ip = s, !.path = e, !.tgt = x]
  BY Zenon DEF Begun
<1> HIDE DEF s, e, l
<1>4. DOMAIN r = DOMAIN Idle /\ r.op = op /\ r.ip = s /\ r.path = e /\ r.tgt = x /\ r.pc = l
  BY <1>3, IdleFields, Zenon
<1> QED BY <1>1, <1>2, <1>4, Zenon DEF s, e, l

-----------------------------------------------------------------------------
(* The steps that change the disk.                                         *)

\* An inode with a link, or that is the root, has a count and is not free.
LEMMA SomeLink ==
  ASSUME Laws, LinkInv, NEW i \in Inum
  PROVE  /\ CountOK(i) /\ nlink[i] \in Int
         /\ Links(i) # {} \/ Subs(i) # {} \/ Adds(i) # {} \/ Dels(i) # {} \/ i = Root
              => nlink[i] > 0
         /\ Links(i) # {} \/ Adds(i) # {} \/ Dels(i) # {} \/ i = Root => type[i] # "free"
<1>1. /\ Cardinality(Links(i)) \in Nat /\ Cardinality(Subs(i)) \in Nat
      /\ Cardinality(Adds(i)) \in Nat /\ Cardinality(Dels(i)) \in Nat
      /\ (Cardinality(Links(i)) = 0 <=> Links(i) = {})
      /\ (Cardinality(Subs(i)) = 0 <=> Subs(i) = {})
      /\ (Cardinality(Adds(i)) = 0 <=> Adds(i) = {})
      /\ (Cardinality(Dels(i)) = 0 <=> Dels(i) = {})
  BY Parts, Size, Zenon
<1>2. CountOK(i) /\ nlink[i] \in Int
  BY Zenon DEF LinkInv, TreeType
<1>3. Links(i) # {} \/ Subs(i) # {} \/ Adds(i) # {} \/ Dels(i) # {} \/ i = Root => nlink[i] > 0
  <2> DEFINE a == Cardinality(Links(i)) b == Cardinality(Subs(i))
             c == Cardinality(Adds(i)) d == Cardinality(Dels(i))
             k == nlink[i]  o == One(i = Root)
  <2>1. a + b + c + d + o <= k
    BY <1>2, Zenon DEF CountOK
  <2>2. a \in Nat /\ b \in Nat /\ c \in Nat /\ d \in Nat /\ k \in Int
    BY <1>1, <1>2, Zenon
  <2>4. o \in {0, 1} /\ (i = Root => o = 1)
    BY Zenon DEF One
  <2> HIDE DEF a, b, c, d, k, o
  <2>3. a # 0 \/ b # 0 \/ c # 0 \/ d # 0 \/ o = 1 => k > 0
    BY <2>1, <2>2, <2>4
  <2> QED BY <1>1, <2>3, <2>4, Zenon DEF a, b, c, d, k
<1> QED BY <1>2, <1>3, Zenon DEF CountOK

\* Two pointers of different kinds, or of two processes.
LEMMA OnlyPointer ==
  ASSUME Laws, PointerInv, NEW p \in Proc, NEW i \in Inum, th[p].put = i, ref[i] = 1, NEW q \in Proc
  PROVE  i \notin {cwd[q], file[q], th[q].ip, th[q].tgt} /\ (q # p => th[q].put # i)
<1> DEFINE C == {r \in Proc : cwd[r] = i}    F == {r \in Proc : file[r] = i}
           I == {r \in Proc : th[r].ip = i}  T == {r \in Proc : th[r].tgt = i}
           P == {r \in Proc : th[r].put = i}
<1>1. Cardinality(C) + Cardinality(F) + Cardinality(I) + Cardinality(T) + Cardinality(P) = 1
  BY Zenon DEF PointerInv, RefsArePointers, Pointers
<1>2. C \in SUBSET Proc /\ F \in SUBSET Proc /\ I \in SUBSET Proc /\ T \in SUBSET Proc /\ P \in SUBSET Proc
  BY Zenon
<1>3. p \in P
  BY Zenon
<1> HIDE DEF C, F, I, T, P
<1>4. IsFiniteSet(C) /\ IsFiniteSet(F) /\ IsFiniteSet(I) /\ IsFiniteSet(T) /\ IsFiniteSet(P)
  BY <1>2, FiniteParts, Zenon
<1>5. /\ Cardinality(C) \in Nat /\ Cardinality(F) \in Nat /\ Cardinality(I) \in Nat
      /\ Cardinality(T) \in Nat /\ Cardinality(P) \in Nat
      /\ (Cardinality(C) = 0 <=> C = {}) /\ (Cardinality(F) = 0 <=> F = {})
      /\ (Cardinality(I) = 0 <=> I = {}) /\ (Cardinality(T) = 0 <=> T = {})
      /\ (Cardinality(P) = 0 <=> P = {})
  BY <1>4, Size, Zenon
<1>6. Cardinality(P) # 0
  BY <1>3, <1>5, Zenon
<1>7. Cardinality(P \ {p}) = Cardinality(P) - 1 /\ IsFiniteSet(P \ {p})
  BY <1>3, <1>4, Zenon DEF Laws
<1>8. /\ Cardinality(C) = 0 /\ Cardinality(F) = 0 /\ Cardinality(I) = 0 /\ Cardinality(T) = 0
      /\ Cardinality(P \ {p}) = 0
  BY <1>1, <1>5, <1>6, <1>7
<1>9. C = {} /\ F = {} /\ I = {} /\ T = {} /\ P \ {p} = {}
  BY <1>4, <1>5, <1>7, <1>8, Size, Zenon
<1> QED BY <1>9, Zenon DEF C, F, I, T, P

\* What is counted and the count change by the same amount.
LEMMA CountMoves ==
  ASSUME Laws, NEW i \in Inum, CountOK(i), nlink[i] \in Int, nlink'[i] \in Int,
         NEW a \in Int, NEW b \in Int, NEW c \in Int, NEW d \in Int,
         Cardinality(Links(i)') <= Cardinality(Links(i)) + a,
         Cardinality(Subs(i)') <= Cardinality(Subs(i)) + b,
         Cardinality(Adds(i)') <= Cardinality(Adds(i)) + c,
         Cardinality(Dels(i)') <= Cardinality(Dels(i)) + d,
         nlink[i] + a + b + c + d <= nlink'[i],
         type'[i] = "free" => Links(i)' = {} /\ Adds(i)' = {} /\ Dels(i)' = {} /\ i # Root
  PROVE  CountOK(i)'
<1> DEFINE l == Cardinality(Links(i)) s == Cardinality(Subs(i))
           m == Cardinality(Adds(i)) e == Cardinality(Dels(i))
           l1 == Cardinality(Links(i)') s1 == Cardinality(Subs(i)')
           m1 == Cardinality(Adds(i)') e1 == Cardinality(Dels(i)')
           k == nlink[i] k1 == nlink'[i] o == One(i = Root)
<1>1. /\ l \in Int /\ s \in Int /\ m \in Int /\ e \in Int
      /\ l1 \in Int /\ s1 \in Int /\ m1 \in Int /\ e1 \in Int
  <2>1. /\ l \in Nat /\ s \in Nat /\ m \in Nat /\ e \in Nat
        /\ l1 \in Nat /\ s1 \in Nat /\ m1 \in Nat /\ e1 \in Nat
    BY Parts, Size, Zenon
  <2> HIDE DEF l, s, m, e, l1, s1, m1, e1
  <2> QED BY <2>1
<1>2. l + s + m + e + o <= k
  BY Zenon DEF CountOK
<1>3. /\ l1 <= l + a /\ s1 <= s + b /\ m1 <= m + c /\ e1 <= e + d /\ k + a + b + c + d <= k1
      /\ k \in Int /\ k1 \in Int
  BY Zenon
<1>5. o \in Int
  BY DEF One
<1> HIDE DEF l, s, m, e, l1, s1, m1, e1, k, k1, o
<1>4. l1 + s1 + m1 + e1 + o <= k1
  BY <1>1, <1>2, <1>3, <1>5
<1> QED BY <1>4, Zenon DEF CountOK, l1, s1, m1, e1, k1, o

\* A set that grows or shrinks, in the form CountMoves uses.
LEMMA Change ==
  ASSUME Laws
  PROVE  /\ \A S : \A T \in SUBSET S : IsFiniteSet(S) => Cardinality(T) <= Cardinality(S) + 0
         /\ \A S, x : \A T \in SUBSET (S \cup {x}) :
              IsFiniteSet(S) => Cardinality(T) <= Cardinality(S) + 1
         /\ \A S : \A x \in S : \A T \in SUBSET (S \ {x}) :
              IsFiniteSet(S) => Cardinality(T) <= Cardinality(S) + (-1)
<1>1. ASSUME NEW S, NEW T \in SUBSET S, IsFiniteSet(S) PROVE Cardinality(T) <= Cardinality(S) + 0
  <2>1. Cardinality(T) \in Nat /\ Cardinality(S) \in Nat /\ Cardinality(T) <= Cardinality(S)
    BY <1>1, Fewer, Zenon
  <2> QED BY <2>1
<1>2. ASSUME NEW S, NEW x \in S, NEW T \in SUBSET (S \ {x}), IsFiniteSet(S)
      PROVE  Cardinality(T) <= Cardinality(S) + (-1)
  <2>1. Cardinality(T) \in Nat /\ Cardinality(S) \in Nat /\ Cardinality(T) <= Cardinality(S) - 1
    BY <1>2, OneLess, Zenon
  <2> QED BY <2>1, Zenon
<1> QED BY <1>1, <1>2, OneMore, Zenon

LEMMA DiskStep ==
  ASSUME LinkInv, NEW p \in Proc, TreeType', \A i \in Inum : CountOK(i)', Kept(p), Doing(p, th[p])'
  PROVE  LinkInv'
<1>1. \A q \in Proc : Doing(q, th[q])'
  <2>1. \A q \in Proc \ {p} : Doing(q, th[q])'
    BY OthersKeep, Zenon
  <2> QED BY <2>1, Zenon
<1>2. (\A i \in Inum : CountOK(i))'
  BY Zenon DEF Inum
<1> QED BY <1>1, <1>2, Zenon DEF LinkInv

\* Links pending, of p and of the others.
LEMMA Pending ==
  ASSUME NEW p \in Proc, NEW i, \A q \in Proc \ {p} : th'[q] = th[q]
  PROVE  /\ Adds(i)' \ {p} = Adds(i) \ {p} /\ Dels(i)' \ {p} = Dels(i) \ {p}
         /\ (p \in Adds(i)' <=> Adding(th'[p]) /\ th'[p].tgt = i)
         /\ (p \in Dels(i)' <=> th'[p].pc = "unlink3" /\ th'[p].ip = i)
         /\ (p \in Adds(i) <=> Adding(th[p]) /\ th[p].tgt = i)
         /\ (p \in Dels(i) <=> th[p].pc = "unlink3" /\ th[p].ip = i)
BY Zenon DEF Adds, Dels, Adding

LEMMA Without ==
  ASSUME NEW S, NEW T, NEW p, T \ {p} = S \ {p}, p \notin T
  PROVE  T \subseteq S /\ T \subseteq S \ {p}
BY Zenon

\* The tree is as before, but for the link count of i.
LEMMA NlinkStep ==
  ASSUME Laws, LinkInv, NEW p \in Proc, type' = type, dents' = dents, dotdot' = dotdot, ValidOK, LockOK(p),
         cwd' = cwd, \A q \in Proc \ {p} : th'[q] = th[q], Doing(p, th[p])',
         NEW i \in Inum, type[i] # "free", NEW c \in Int, NEW d \in Int,
         nlink' \in [Inum -> Int], nlink'[i] = nlink[i] + c + d,
         \A x \in Inum \ {i} : nlink'[x] = nlink[x],
         Cardinality(Adds(i)') <= Cardinality(Adds(i)) + c,
         Cardinality(Dels(i)') <= Cardinality(Dels(i)) + d,
         \A x \in Inum \ {i} : Adds(x)' \subseteq Adds(x) /\ Dels(x)' \subseteq Dels(x)
  PROVE  LinkInv'
<1>1. Kept(p)
  BY Zenon DEF Kept, LockOK
<1>2. nlink \in [Inum -> Int] /\ TreeType
  BY Zenon DEF LinkInv, TreeType
<1>4. TreeType'
  BY <1>2, Zenon DEF TreeType, ValidOK, LockOK, Inum, None, NoEntries
<1>5. ASSUME NEW x \in Inum PROVE CountOK(x)'
  <2>1. Links(x)' = Links(x) /\ Subs(x)' = Subs(x)
    BY Zenon DEF Links, Subs, Inum
  <2>2. CountOK(x) /\ nlink[x] \in Int
    BY SomeLink, Zenon
  <2>3. CASE x = i
    <3>1. /\ Cardinality(Links(x)') <= Cardinality(Links(x)) + 0
          /\ Cardinality(Subs(x)') <= Cardinality(Subs(x)) + 0
      <4>1. Links(x)' \in SUBSET Links(x) /\ Subs(x)' \in SUBSET Subs(x)
        BY <2>1, Zenon
      <4> QED BY <4>1, Parts, Change, Zenon
    <3>2. nlink'[x] \in Int /\ nlink[x] + 0 + 0 + c + d <= nlink'[x] /\ 0 \in Int
      BY <1>2, <2>3
    <3>3. /\ Cardinality(Adds(x)') <= Cardinality(Adds(x)) + c
          /\ Cardinality(Dels(x)') <= Cardinality(Dels(x)) + d
      BY <2>3, Zenon
    <3>4. type'[x] # "free"
      BY <2>3, Zenon
    <3> QED BY <2>2, <3>1, <3>2, <3>3, <3>4, CountMoves, Zenon
  <2>4. CASE x # i
    <3>1. nlink'[x] = nlink[x] /\ Adds(x)' \subseteq Adds(x) /\ Dels(x)' \subseteq Dels(x)
      BY <2>4, Zenon
    <3>2. nlink'[x] \in Int /\ nlink[x] <= nlink'[x]
      BY <2>2, <3>1
    <3> QED BY <2>1, <2>2, <3>1, <3>2, CountKept, Zenon
  <2> QED BY <2>3, <2>4, Zenon
<1> QED BY <1>1, <1>4, <1>5, DiskStep, Zenon

\* The disk's types after one entry of directory d becomes v.
LEMMA EntryStep ==
  ASSUME LinkInv, NEW d \in Inum, NEW n \in Name, NEW v \in Inum \cup {None}, type[d] = "dir",
         dents' = [dents EXCEPT ![d][n] = v], type' = type, dotdot' = dotdot,
         nlink' \in [Inum -> Int], ValidOK, lock' \in [Inum -> Proc \cup {None}], cwd' = cwd
  PROVE  /\ TreeType' /\ dents'[d][n] = v
         /\ \A x \in Inum \ {d} : dents'[x] = dents[x]
         /\ \A m \in Name \ {n} : dents'[d][m] = dents[d][m]
<1>1. TreeType /\ dents \in [Inum -> [Name -> Inum \cup {None}]]
  BY Zenon DEF LinkInv, TreeType
<1>2. /\ dents' \in [Inum -> [Name -> Inum \cup {None}]] /\ dents'[d][n] = v
      /\ \A x \in Inum \ {d} : dents'[x] = dents[x]
      /\ \A m \in Name \ {n} : dents'[d][m] = dents[d][m]
  BY <1>1, Zenon
<1>3. \A x \in Inum : type'[x] # "dir" => dents'[x] = NoEntries
  BY <1>1, <1>2, Zenon DEF TreeType
<1>4. TreeType'
  BY <1>1, <1>2, <1>3, Zenon DEF TreeType, ValidOK, Inum, None, NoEntries
<1> QED BY <1>2, <1>4, Zenon

LEMMA LinkNext ==
  ASSUME Laws, LinkInv, PointerInv, [Next]_vars
  PROVE  LinkInv'
<1>1. CASE UNCHANGED vars
  <2>1. UNCHANGED <<type, nlink, dents, dotdot, valid, lock, cwd, th>>
    BY <1>1, Zenon DEF vars, disk
  <2>2. TreeType'
    BY <2>1, Zenon DEF LinkInv, TreeType, Inum, None, NoEntries
  <2>3. \A i \in Inum : CountOK(i)'
    BY <2>1, ZenonT(60) DEF LinkInv, CountOK, Links, Subs, Adds, Dels, Adding, Inum
  <2>4. \A p \in Proc : Doing(p, th[p])'
    BY <2>1, ZenonT(60) DEF LinkInv, Doing, Inum, None, Element, InDir, Locking, Locked, Adding
  <2> QED BY <2>2, <2>3, <2>4, Zenon DEF LinkInv, Inum
<1>2. ASSUME NEW p \in Proc, iput_deref(p) PROVE LinkInv'
  <2> USE <1>2
  <2> DEFINE r == [th[p] EXCEPT !.put = None, !.st = "lock"]
             i == th[p].put
  <2>1. /\ UNCHANGED <<type, nlink, dents, dotdot>> /\ lock' = lock /\ cwd' = cwd
        /\ valid' = [valid EXCEPT ![i] = valid[i] /\ ref[i] > 1]
    BY Zenon DEF iput_deref, disk
  <2>2. th' = [th EXCEPT ![p] = r]
    BY Here, Zenon DEF iput_deref
  <2>3. r.op = th[p].op /\ r.pc = th[p].pc /\ r.ip = th[p].ip /\ r.tgt = th[p].tgt /\ r.path = th[p].path
    BY Now, Zenon
  <2> HIDE DEF r, i
  <2>4. th'[p] = r /\ \A q \in Proc \ {p} : th'[q] = th[q]
    BY <2>2, Here, Zenon
  <2>5. GoesOn(p, th[p])
    BY <2>3, <2>4, Zenon DEF GoesOn
  <2>6. ValidOK
    BY <2>1, Zenon DEF LinkInv, TreeType, ValidOK
  <2>7. Doing(p, th[p])' /\ NothingNew(p)
    BY <2>1, <2>5, Now, DoingKept, Zenon
  <2> QED BY <2>1, <2>4, <2>6, <2>7, Now, LockSame, QuietStep, Zenon
<1>3. ASSUME NEW p \in Proc, NEW rdonly \in BOOLEAN, open(p, rdonly) PROVE LinkInv'
  <2> USE <1>3
  <2> DEFINE i == th[p].ip
  <2>1. CASE NoType(i)
    BY <2>1, LinkPanic, Zenon DEF open
  <2>2. CASE ~NoType(i)
    <3>1. /\ th[p].pc = "open" /\ Valid(i) /\ Install(p, i, type[i] = "dir" => rdonly)
          /\ UNCHANGED <<type, nlink, dents, dotdot>> /\ lock' = lock /\ cwd' = cwd
      BY <2>2, Zenon DEF open, At, disk
    <3>2. i \in Inum
      BY <3>1, AtIp, Zenon
    <3>3. ValidOK
      BY <2>2, <3>1, <3>2, ValidSet, Zenon
    <3> QED BY <3>1, <3>3, LockSame, LinkInstall, Zenon
  <2> QED BY <2>1, <2>2, Zenon
<1>4. ASSUME NEW p \in Proc, found(p) PROVE LinkInv'
  <2> USE <1>4
  <2> DEFINE i == th[p].ip
  <2>1. CASE NoType(i)
    BY <2>1, LinkPanic, Zenon DEF found
  <2>2. CASE ~NoType(i)
    <3>1. /\ th[p].pc = "found" /\ Valid(i) /\ Install(p, i, th[p].op = "creat" /\ type[i] = "file")
          /\ UNCHANGED <<type, nlink, dents, dotdot>> /\ lock' = lock /\ cwd' = cwd
      BY <2>2, Zenon DEF found, At, disk
    <3>2. i \in Inum
      BY <3>1, AtIp, Zenon
    <3>3. ValidOK
      BY <2>2, <3>1, <3>2, ValidSet, Zenon
    <3> QED BY <3>1, <3>3, LockSame, LinkInstall, Zenon
  <2> QED BY <2>1, <2>2, Zenon
<1>5. ASSUME NEW p \in Proc, created(p) PROVE LinkInv'
  <2> USE <1>5
  <2> DEFINE i == th[p].ip
  <2>1. /\ th[p].pc = "made" /\ lock' = [lock EXCEPT ![i] = None]
        /\ Install(p, i, th[p].op = "creat") /\ valid' = valid
        /\ UNCHANGED <<type, nlink, dents, dotdot>> /\ cwd' = cwd
    BY Zenon DEF created, At, disk
  <2>2. lock[i] = p
    BY <2>1, Now, Zenon DEF Doing, Locking, Locked
  <2>3. LockOK(p)
    BY <2>1, <2>2, Unlocked, Zenon
  <2> QED BY <2>1, <2>3, ValidSame, LinkInstall, Zenon
<1>6. ASSUME NEW p \in Proc, unlink_none(p) PROVE LinkInv'
  <2> USE <1>6
  <2> DEFINE i == th[p].ip
  <2>1. /\ th[p].pc = "unlink" /\ Valid(i) /\ Put(p, Idle, i)
        /\ UNCHANGED <<type, nlink, dents, dotdot>> /\ lock' = lock /\ cwd' = cwd
    BY Zenon DEF unlink_none, At, disk
  <2>2. i \in Inum /\ ~NoType(i)
    BY <2>1, AtIp, Zenon DEF InDir
  <2>3. ValidOK
    BY <2>1, <2>2, ValidSet, Zenon
  <2> QED BY <2>1, <2>3, Now, LockSame, EndStep, Zenon
<1>7. ASSUME NEW p \in Proc, unlockdp(p) PROVE LinkInv'
  <2> USE <1>7
  <2> DEFINE dp == IF th[p].op = "link2" THEN th[p].ip ELSE th[p].tgt
  <2>1. /\ th[p].pc = "unlockdp" /\ lock' = [lock EXCEPT ![dp] = None] /\ valid' = valid
        /\ UNCHANGED <<type, nlink, dents, dotdot>> /\ cwd' = cwd
    BY Zenon DEF unlockdp, At, disk
  <2>2. lock[dp] = p
    BY <2>1, Now, Zenon DEF Doing, Locking, Locked
  <2>3. LockOK(p) /\ ValidOK
    BY <2>1, <2>2, Unlocked, ValidSame, Zenon
  <2>4. CASE th[p].op = "link2"
    <3>1. Put(p, [th[p] EXCEPT !.pc = "linkbad", !.ip = None], th[p].ip)
      BY <2>4, Zenon DEF unlockdp
    <3>2. th[p].pc # "linked"
      BY <2>1, Zenon
    <3> QED BY <2>1, <2>3, <2>4, <3>1, <3>2, BadStep, Zenon
  <2>5. CASE th[p].op # "link2"
    <3>1. Put(p, Idle, th[p].tgt)
      BY <2>5, Zenon DEF unlockdp
    <3> QED BY <2>1, <2>3, <3>1, Now, EndStep, Zenon
  <2> QED BY <2>4, <2>5, Zenon
<1>8. ASSUME NEW p \in Proc, linked(p) \/ close(p) PROVE LinkInv'
  <2> USE <1>8
  <2>1. /\ UNCHANGED <<type, nlink, dents, dotdot>> /\ lock' = lock /\ cwd' = cwd /\ valid' = valid
        /\ \E j : Put(p, Idle, j)
    BY Zenon DEF linked, close, disk
  <2>2. PICK j : Put(p, Idle, j)
    BY <2>1, Zenon
  <2> QED BY <2>1, <2>2, Now, LockSame, ValidSame, EndStep, Zenon
<1>9. ASSUME NEW p \in Proc, chdir(p) PROVE LinkInv'
  <2> USE <1>9
  <2> DEFINE i == th[p].ip
  <2>1. CASE NoType(i)
    BY <2>1, LinkPanic, Zenon DEF chdir
  <2>2. CASE ~NoType(i)
    <3>1. /\ th[p].pc = "chdir" /\ Valid(i)
          /\ UNCHANGED <<type, nlink, dents, dotdot>> /\ lock' = lock
          /\ \/ cwd' = [cwd EXCEPT ![p] = i] /\ Put(p, Idle, cwd[p])
             \/ cwd' = cwd /\ Put(p, Idle, i)
      BY <2>2, Zenon DEF chdir, At, disk
    <3>2. i \in Inum
      BY <3>1, AtIp, Zenon
    <3>3. ValidOK
      BY <2>2, <3>1, <3>2, ValidSet, Zenon
    <3>4. cwd' \in [Proc -> Inum]
      BY <3>1, <3>2, Now, Zenon
    <3> QED BY <3>1, <3>3, <3>4, LockSame, EndStep, Zenon
  <2> QED BY <2>1, <2>2, Zenon
<1>10. ASSUME NEW p \in Proc, create_found(p) PROVE LinkInv'
  <2> USE <1>10
  <2> DEFINE t == th[p]
             dp == t.ip
             ip == Lookup(dp, Head(t.path))
             r == [t EXCEPT !.ip = ip, !.pc = "found"]
  <2>1. /\ t.pc = t.op /\ t.op \in {"creat", "mkdir"} /\ ip # None /\ Valid(dp) /\ Put(p, r, dp)
        /\ UNCHANGED <<type, nlink, dents, dotdot>> /\ lock' = lock /\ cwd' = cwd
    BY Zenon DEF create_found, At, disk
  <2>2. t.pc \in InDir /\ t.pc \notin {"idle", "linked", "linkbad", "unlockdp"} /\ t.op # "link2"
    BY <2>1, Zenon DEF InDir
  <2>3. dp \in Inum /\ ~NoType(dp) /\ Head(t.path) \in Element
    BY <2>2, AtIp, Zenon
  <2>4. ip \in Inum
    BY <2>1, <2>3, LookupFinds, Zenon
  <2>5. /\ DOMAIN r = DOMAIN Idle /\ r.ip = ip /\ r.pc = "found" /\ r.op = t.op /\ r.tgt = t.tgt
        /\ r.path = t.path
    BY Now, IdleFields, Zenon
  <2>6. t.tgt \in Inum \cup {None} /\ t.path \in Seq(Element)
    BY Now, Zenon DEF Doing
  <2>7. ValidOK /\ LockOK(p)
    BY <2>1, <2>3, ValidSet, LockSame, Zenon
  <2> HIDE DEF r, ip
  <2>8. ~Adding(r) /\ r.pc \notin InDir \cup {"walk"} \cup Locking /\ r.pc # "unlink3" /\ r.pc # "unlink2"
    BY <2>2, <2>5, Zenon DEF Adding, InDir, Locking
  <2> QED BY <2>1, <2>4, <2>5, <2>6, <2>7, <2>8, OnStep, Zenon
<1>11. ASSUME NEW p \in Proc, unlink(p) PROVE LinkInv'
  <2> USE <1>11
  <2> DEFINE t == th[p]
             dp == t.ip
             n == Head(t.path)
             ip == Lookup(dp, n)
             r == [t EXCEPT !.tgt = dp, !.ip = ip, !.pc = "unlink2"]
  <2>1. /\ t.pc = "unlink" /\ n \notin {".", ".."} /\ ip # None /\ Valid(dp) /\ Go(p, r)
        /\ lock[dp] = None /\ lock' = [lock EXCEPT ![dp] = p]
        /\ UNCHANGED <<type, nlink, dents, dotdot>> /\ cwd' = cwd
    BY Zenon DEF unlink, At, disk
  <2>2. dp \in Inum /\ ~NoType(dp) /\ n \in Element /\ type[dp] = "dir" /\ t.op # "link2"
    BY <2>1, AtIp, Now, Zenon DEF InDir, PlaceOK, LinkPcs
  <2>3. n \in Name
    BY <2>1, <2>2, Zenon DEF Element
  <2>4. ip \in Inum /\ dents[dp][n] = ip
    BY <2>1, <2>2, <2>3, LookupFinds, Zenon
  <2>5. /\ DOMAIN r = DOMAIN Idle /\ r.ip = ip /\ r.pc = "unlink2" /\ r.op = t.op /\ r.tgt = dp
        /\ r.path = t.path
    BY Now, IdleFields, Zenon
  <2>6. t.path \in Seq(Element)
    BY Now, Zenon DEF Doing
  <2>7. ValidOK /\ LockOK(p)
    BY <2>1, <2>2, ValidSet, LockTaken, Zenon
  <2>8. lock'[dp] = p
    BY <2>1, <2>2, Zenon DEF LinkInv, TreeType
  <2> HIDE DEF r, ip
  <2>9. /\ ~Adding(r) /\ r.pc \notin InDir \cup {"walk"} /\ r.pc # "unlink3"
        /\ Locked(r) = dp
    BY <2>2, <2>5, Zenon DEF Adding, InDir, Locking, Locked
  <2> QED BY <2>1, <2>2, <2>3, <2>4, <2>5, <2>6, <2>7, <2>8, <2>9, OnStep, Zenon
<1>12. ASSUME NEW p \in Proc, NEW pa \in Path,
              NEW op \in {"open", "creat", "mkdir", "unlink", "link", "chdir"}, syscall(p, op, pa)
       PROVE  LinkInv'
  <2> USE <1>12
  <2> DEFINE r == Begun(p, op, pa, None)
  <2>1. /\ (Parent(op) => Elems(pa) # <<>>) /\ Go(p, r) /\ lock' = lock /\ cwd' = cwd /\ valid' = valid
        /\ UNCHANGED <<type, nlink, dents, dotdot>>
    BY Zenon DEF syscall, Begin, Begun, disk
  <2>2. /\ DOMAIN r = DOMAIN Idle /\ r.op = op /\ r.ip = Start(p, pa) /\ r.path = Elems(pa)
        /\ r.tgt = None /\ r.pc = IF Elems(pa) = <<>> THEN op ELSE "walk"
        /\ Start(p, pa) \in Inum /\ Elems(pa) \in Seq(Element)
    <3>1. r = Begun(p, op, pa, None)
      BY Zenon
    <3> HIDE DEF r
    <3> QED BY <3>1, PathBegin
  <2> HIDE DEF r
  <2>3. /\ ~Adding(r) /\ r.pc \notin InDir \cup Locking /\ r.pc # "unlink3" /\ r.pc # "unlink2"
        /\ r.pc = "walk" => r.path # <<>>
    BY <2>1, <2>2, Zenon DEF Adding, InDir, Locking, Parent
  <2>4. ValidOK /\ LockOK(p)
    BY <2>1, ValidSame, LockSame, Zenon
  <2> QED BY <2>1, <2>2, <2>3, <2>4, OnStep, Zenon
<1>13. ASSUME NEW p \in Proc, walk(p) PROVE LinkInv'
  <2> USE <1>13
  <2> DEFINE t == th[p]
             i == t.ip
             next == Lookup(i, Head(t.path))
             rest == Tail(t.path)
             failed == IF t.op = "link2" THEN [t EXCEPT !.pc = "linkbad", !.ip = None] ELSE Idle
             a == [t EXCEPT !.pc = t.op]
             b == [t EXCEPT !.ip = next, !.path = rest, !.pc = IF rest = <<>> THEN t.op ELSE "walk"]
  <2>1. CASE NoType(i)
    BY <2>1, LinkPanic, Zenon DEF walk
  <2>2. CASE ~NoType(i)
    <3>1. /\ t.pc = "walk" /\ Valid(i)
          /\ UNCHANGED <<type, nlink, dents, dotdot>> /\ lock' = lock /\ cwd' = cwd
          /\ \/ Put(p, failed, i)
             \/ type[i] = "dir" /\ Parent(t.op) /\ rest = <<>> /\ Go(p, a)
             \/ ~(Parent(t.op) /\ rest = <<>>) /\ next # None /\ Put(p, b, i)
      BY <2>2, Zenon DEF walk, At, disk
    <3>2. /\ i \in Inum /\ t.path \in Seq(Element) /\ t.path # <<>> /\ t.tgt \in Inum \cup {None}
          /\ Adding(t) => t.tgt \in Inum /\ type[t.tgt] = "file"
      BY <3>1, Now, Zenon DEF Doing
    <3>3. Head(t.path) \in Element /\ rest \in Seq(Element)
      BY <3>2
    <3>4. ValidOK /\ LockOK(p)
      BY <2>2, <3>1, <3>2, ValidSet, LockSame, Zenon
    <3>5. t.op \in Ops \ {"none"}
      BY <3>1, Now, Zenon DEF PlaceOK
    <3>6. CASE Put(p, failed, i)
      <4>1. CASE t.op = "link2"
        BY <3>1, <3>4, <3>6, <4>1, BadStep, Zenon
      <4>2. CASE t.op # "link2"
        BY <3>1, <3>4, <3>6, <4>2, Now, EndStep, Zenon
      <4> QED BY <4>1, <4>2, Zenon
    <3>7. CASE type[i] = "dir" /\ Parent(t.op) /\ rest = <<>> /\ Go(p, a)
      <4>1. /\ DOMAIN a = DOMAIN Idle /\ a.op = t.op /\ a.pc = t.op /\ a.ip = i /\ a.tgt = t.tgt
            /\ a.path = t.path
        BY Now, IdleFields, Zenon
      <4> HIDE DEF a
      <4>2. /\ a.pc \notin Locking /\ a.pc # "unlink2" /\ a.pc # "unlink3"
            /\ Adding(a) => Adding(t)
        BY <3>1, <3>7, <4>1, Zenon DEF Parent, Locking, Adding
      <4> QED BY <3>1, <3>2, <3>4, <3>7, <4>1, <4>2, OnStep, Zenon
    <3>8. CASE ~(Parent(t.op) /\ rest = <<>>) /\ next # None /\ Put(p, b, i)
      <4>1. next \in Inum
        BY <3>2, <3>3, <3>8, LookupFinds, Zenon
      <4> DEFINE l == IF rest = <<>> THEN t.op ELSE "walk"
      <4> HIDE DEF next, rest, l
      <4>2. /\ DOMAIN b = DOMAIN Idle /\ b.op = t.op /\ b.pc = l /\ b.ip = next /\ b.tgt = t.tgt
            /\ b.path = rest
        BY Now, IdleFields, Zenon DEF l
      <4> HIDE DEF b
      <4>3. /\ b.pc \notin Locking \cup InDir /\ b.pc # "unlink2" /\ b.pc # "unlink3"
            /\ b.pc = "walk" => rest # <<>>
            /\ Adding(b) => Adding(t)
        BY <3>1, <3>5, <3>8, <4>2, Zenon DEF Parent, Locking, InDir, Adding, Ops, l
      <4> QED BY <3>1, <3>2, <3>3, <3>4, <3>8, <4>1, <4>2, <4>3, OnStep, Zenon
    <3> QED BY <3>1, <3>6, <3>7, <3>8, Zenon
  <2> QED BY <2>1, <2>2, Zenon
<1>14. ASSUME NEW p \in Proc, iput(p) PROVE LinkInv'
  <2> USE <1>14
  <2> DEFINE i == th[p].put
             r == [th[p] EXCEPT !.st = "deref"]
  <2>1. /\ nlink' = nlink /\ lock' = lock /\ cwd' = cwd /\ lock[i] = None /\ i # None
    BY Zenon DEF iput
  <2>2. th' = [th EXCEPT ![p] = r]
    BY Here, Zenon DEF iput
  <2>3. r.op = th[p].op /\ r.pc = th[p].pc /\ r.ip = th[p].ip /\ r.tgt = th[p].tgt /\ r.path = th[p].path
    BY Now, Zenon
  <2> HIDE DEF r
  <2>4. th'[p] = r /\ \A q \in Proc \ {p} : th'[q] = th[q]
    BY <2>2, Here, Zenon
  <2>5. GoesOn(p, th[p])
    BY <2>3, <2>4, Zenon DEF GoesOn
  <2>6. CASE UNCHANGED <<type, dents, dotdot, valid>>
    <3>1. Doing(p, th[p])' /\ NothingNew(p)
      BY <2>1, <2>5, <2>6, Now, DoingKept, Zenon
    <3> QED BY <2>1, <2>4, <2>6, <3>1, Now, LockSame, ValidSame, QuietStep, Zenon
  <2>7. CASE ~UNCHANGED <<type, dents, dotdot, valid>>
    <3>1. /\ valid[i] /\ nlink[i] = 0 /\ ref[i] = 1
          /\ type' = [type EXCEPT ![i] = "free"] /\ dents' = [dents EXCEPT ![i] = NoEntries]
          /\ dotdot' = [dotdot EXCEPT ![i] = None] /\ valid' = [valid EXCEPT ![i] = FALSE]
      BY <2>7, Zenon DEF iput
    <3>2. i \in Inum
      <4>1. /\ type \in [Inum -> {"free", "file", "dir"}] /\ valid \in [Inum -> BOOLEAN]
            /\ dents \in [Inum -> [Name -> Inum \cup {None}]]
            /\ dotdot \in [Inum -> Inum \cup {None}]
        BY Zenon DEF LinkInv, TreeType
      <4>2. ASSUME i \notin Inum PROVE type' = type /\ dents' = dents /\ dotdot' = dotdot /\ valid' = valid
        BY <3>1, <4>1, <4>2, Zenon
      <4> QED BY <2>7, <4>2, Zenon
    <3>3. /\ type[i] # "free" /\ Links(i) = {} /\ Subs(i) = {} /\ Adds(i) = {} /\ Dels(i) = {}
          /\ i # Root
      <4>1. ~(nlink[i] > 0)
        BY <3>1
      <4>2. type[i] # "free"
        BY <3>1, <3>2, Zenon DEF LinkInv, TreeType
      <4> QED BY <3>2, <4>1, <4>2, SomeLink, Zenon
    <3>4. \A q \in Proc : i \notin {th[q].ip, th[q].tgt}
      BY <3>1, <3>2, OnlyPointer, Zenon
    <3>5. /\ type'[i] = "free" /\ \A x \in Inum \ {i} : /\ type'[x] = type[x] /\ dents'[x] = dents[x]
                                                        /\ dotdot'[x] = dotdot[x] /\ valid'[x] = valid[x]
          /\ dents'[i] = NoEntries /\ dotdot'[i] = None /\ valid'[i] = FALSE
      BY <3>1, <3>2, Zenon DEF LinkInv, TreeType
    <3>6. NoEntries \in [Name -> Inum \cup {None}]
      BY Zenon DEF NoEntries
    <3>7. TreeType'
      <4>1. /\ type' \in [Inum -> {"free", "file", "dir"}] /\ nlink' \in [Inum -> Int]
            /\ dents' \in [Inum -> [Name -> Inum \cup {None}]]
            /\ dotdot' \in [Inum -> Inum \cup {None}] /\ valid' \in [Inum -> BOOLEAN]
            /\ lock' \in [Inum -> Proc \cup {None}] /\ cwd' \in [Proc -> Inum]
        BY <2>1, <3>1, <3>6, Zenon DEF LinkInv, TreeType
      <4>2. ASSUME NEW x \in Inum
            PROVE  /\ type'[x] = "dir" => dotdot'[x] # None
                   /\ type'[x] # "dir" => dents'[x] = NoEntries
                   /\ valid'[x] => type'[x] # "free"
        BY <3>5, ZenonT(60) DEF LinkInv, TreeType
      <4> QED BY <4>1, <4>2, Zenon DEF TreeType, Inum, None, NoEntries
    <3>8. Kept(p)
      <4> SUFFICES ASSUME NEW q \in Proc \ {p}, NEW x \in Inum
                   PROVE  /\ lock[x] = q => lock'[x] = q /\ dents'[x] = dents[x]
                          /\ x \in {th[q].ip, th[q].tgt} /\ type[x] # "free" => type'[x] = type[x]
        BY <2>4, Zenon DEF Kept
      <4>1. lock[x] = q => x # i
        BY <2>1, InodeAssumption, Zenon
      <4> QED BY <2>1, <3>4, <3>5, <4>1, Zenon
    <3>9. Doing(p, th[p])'
      <4>1. /\ th'[p].op = th[p].op /\ th'[p].pc = th[p].pc /\ th'[p].ip = th[p].ip
            /\ th'[p].tgt = th[p].tgt /\ th'[p].path = th[p].path
        BY <2>5, Zenon DEF GoesOn
      <4>2. Locked(th[p])' = Locked(th[p]) /\ (Adding(th[p])' <=> Adding(th[p]))
        BY <4>1, Zenon DEF Locked, Adding
      <4>3. th[p].ip # i /\ th[p].tgt # i
        BY <3>4, Zenon
      <4> QED BY <2>1, <3>5, <4>1, <4>2, <4>3, Now, SMTT(60) DEF Doing, InDir, Locking
    <3>10. ASSUME NEW x \in Inum PROVE CountOK(x)'
      <4>1. Links(x)' \subseteq Links(x)
        <5> SUFFICES ASSUME NEW y \in Inum \X Name, type'[y[1]] = "dir", dents'[y[1]][y[2]] = x
                     PROVE  type[y[1]] = "dir" /\ dents[y[1]][y[2]] = x
          BY Zenon DEF Links
        <5>1. y[1] \in Inum \ {i}
          BY <3>5, Zenon
        <5> QED BY <3>5, <5>1, Zenon
      <4>2. Subs(x)' \subseteq Subs(x)
        <5> SUFFICES ASSUME NEW n \in Name, type'[x] = "dir", dents'[x][n] \in Inum,
                            type'[dents'[x][n]] = "dir"
                     PROVE  type[x] = "dir" /\ dents[x][n] \in Inum /\ type[dents[x][n]] = "dir"
          BY Zenon DEF Subs
        <5>1. x # i /\ dents'[x][n] # i
          BY <3>5, Zenon
        <5> QED BY <3>5, <5>1, Zenon
      <4>3. NothingNew(p)
        BY <2>5, Zenon DEF GoesOn, NothingNew, Adding
      <4>4. Adds(x)' \subseteq Adds(x) /\ Dels(x)' \subseteq Dels(x)
        BY <2>4, <4>3, PendingKept, Zenon
      <4>5. CountOK(x) /\ nlink[x] \in Int /\ nlink'[x] = nlink[x]
        BY <2>1, SomeLink, Zenon
      <4>6. type'[x] = "free" => Links(x)' = {} /\ Adds(x)' = {} /\ Dels(x)' = {} /\ x # Root
        BY <3>3, <3>5, <4>1, <4>4, <4>5, Zenon DEF CountOK
      <4>7. /\ Cardinality(Links(x)') <= Cardinality(Links(x)) + 0
            /\ Cardinality(Subs(x)') <= Cardinality(Subs(x)) + 0
            /\ Cardinality(Adds(x)') <= Cardinality(Adds(x)) + 0
            /\ Cardinality(Dels(x)') <= Cardinality(Dels(x)) + 0
        BY <4>1, <4>2, <4>4, Parts, Change, Zenon
      <4>8. nlink[x] + 0 + 0 + 0 + 0 <= nlink'[x] /\ 0 \in Int
        BY <4>5
      <4> QED BY <4>5, <4>6, <4>7, <4>8, CountMoves, Zenon
    <3> QED BY <3>7, <3>8, <3>9, <3>10, DiskStep, Zenon
  <2> QED BY <2>6, <2>7, Zenon
<1>15. ASSUME NEW p \in Proc, create(p) PROVE LinkInv'
  <2> USE <1>15
  <2> DEFINE t == th[p]
             dp == t.ip
             n == Head(t.path)
             free == {i \in Inum : type[i] = "free"}
             ip == Min(free)
             dir == t.op = "mkdir"
             r == [t EXCEPT !.ip = ip, !.pc = "made"]
  <2>1. /\ t.pc = t.op /\ t.op \in {"creat", "mkdir"} /\ lock[dp] = None
        /\ Lookup(dp, n) = None /\ free # {} /\ lock[ip] = None
        /\ type' = [type EXCEPT ![ip] = IF dir THEN "dir" ELSE "file"]
        /\ nlink' = [nlink EXCEPT ![ip] = 1, ![dp] = IF dir THEN @ + 1 ELSE @]
        /\ dents' = [dents EXCEPT ![dp][n] = ip]
        /\ dotdot' = [dotdot EXCEPT ![ip] = IF dir THEN dp ELSE None]
        /\ valid' = [valid EXCEPT ![ip] = TRUE, ![dp] = TRUE]
        /\ lock' = [lock EXCEPT ![ip] = p] /\ Put(p, r, dp) /\ cwd' = cwd
    BY Zenon DEF create, At
  <2>2. ip \in Inum /\ type[ip] = "free"
    <3>1. ip \in free
      <4>1. free \in SUBSET (0 .. NInode) /\ NInode \in Nat
        BY InodeAssumption DEF Inum
      <4> HIDE DEF free
      <4> QED BY <2>1, <4>1, Zenon DEF Laws
    <3> HIDE DEF ip
    <3> QED BY <3>1, Zenon
  <2>3. t.pc \in InDir /\ t.pc \notin {"idle", "linked", "linkbad", "unlockdp"} /\ t.op # "link2"
    BY <2>1, Zenon DEF InDir
  <2>4. dp \in Inum /\ type[dp] = "dir" /\ n \in Element
    BY <2>3, AtIp, Zenon
  <2>5. n \in Name /\ dents[dp][n] = None
    BY <2>1, <2>4, LookupFinds, Zenon
  <2>6. /\ DOMAIN r = DOMAIN Idle /\ r.ip = ip /\ r.pc = "made" /\ r.op = t.op /\ r.tgt = t.tgt
        /\ r.path = t.path
    BY Now, IdleFields, Zenon
  <2> HIDE DEF ip, r, free
  <2>7. GoesOn(p, r)
    BY <2>1, <2>6, PutTo, Zenon
  <2>8. /\ th'[p].op = t.op /\ th'[p].pc = "made" /\ th'[p].ip = ip /\ th'[p].tgt = t.tgt
        /\ th'[p].path = t.path /\ \A q \in Proc \ {p} : th'[q] = th[q]
    BY <2>6, <2>7, Zenon DEF GoesOn
  <2>9. ip # dp /\ ip # None /\ dents[ip] = NoEntries /\ dp # None
    BY <2>2, <2>4, InodeAssumption DEF LinkInv, TreeType, Inum, None
  <2>10. /\ type'[ip] = (IF dir THEN "dir" ELSE "file") /\ \A x \in Inum \ {ip} : type'[x] = type[x]
         /\ nlink'[ip] = 1 /\ nlink'[dp] = (IF dir THEN nlink[dp] + 1 ELSE nlink[dp])
         /\ \A x \in Inum \ {ip, dp} : nlink'[x] = nlink[x]
         /\ dotdot'[ip] = (IF dir THEN dp ELSE None)
         /\ \A x \in Inum \ {ip} : dotdot'[x] = dotdot[x]
         /\ lock'[ip] = p /\ \A x \in Inum \ {ip} : lock'[x] = lock[x]
         /\ \A x \in Inum \ {ip, dp} : valid'[x] = valid[x]
    BY <2>1, <2>2, <2>4, <2>9, Zenon DEF LinkInv, TreeType
  <2>11. /\ \A x \in Inum \ {dp} : dents'[x] = dents[x]
         /\ dents'[dp][n] = ip /\ \A m \in Name \ {n} : dents'[dp][m] = dents[dp][m]
    BY <2>1, <2>4, <2>5, Zenon DEF LinkInv, TreeType
  <2>12. TreeType'
    <3>1. /\ type' \in [Inum -> {"free", "file", "dir"}]
          /\ lock' \in [Inum -> Proc \cup {None}] /\ cwd' \in [Proc -> Inum]
      BY <2>1, Zenon DEF LinkInv, TreeType
    <3>5. dotdot' \in [Inum -> Inum \cup {None}]
      BY <2>1, <2>4, Zenon DEF LinkInv, TreeType
    <3>6. valid' \in [Inum -> BOOLEAN]
      BY <2>1, Zenon DEF LinkInv, TreeType
    <3>2. nlink' \in [Inum -> Int]
      <4>1. nlink \in [Inum -> Int]
        BY Zenon DEF LinkInv, TreeType
      <4>2. nlink[dp] + 1 \in Int /\ nlink[dp] \in Int
        BY <2>4, <4>1
      <4>3. nlink' = [nlink EXCEPT ![ip] = 1, ![dp] = nlink'[dp]]
        BY <2>1, <2>4, <2>9, <4>1, Zenon
      <4> QED BY <2>10, <4>1, <4>2, <4>3
    <3>3. dents' \in [Inum -> [Name -> Inum \cup {None}]]
      BY <2>1, <2>2, <2>4, <2>5, Zenon DEF LinkInv, TreeType
    <3>4. ASSUME NEW x \in Inum
          PROVE  /\ type'[x] = "dir" => dotdot'[x] # None
                 /\ type'[x] # "dir" => dents'[x] = NoEntries
                 /\ valid'[x] => type'[x] # "free"
      BY <2>4, <2>9, <2>10, <2>11, SMTT(60) DEF LinkInv, TreeType
    <3> QED BY <3>1, <3>2, <3>3, <3>4, <3>5, <3>6, Zenon DEF TreeType, Inum, None, NoEntries
  <2>13. Kept(p)
    <3> SUFFICES ASSUME NEW q \in Proc \ {p}, NEW x \in Inum
                 PROVE  /\ lock[x] = q => lock'[x] = q /\ dents'[x] = dents[x]
                        /\ x \in {th[q].ip, th[q].tgt} /\ type[x] # "free" => type'[x] = type[x]
      BY <2>8, Zenon DEF Kept
    <3>1. lock[x] = q => x # ip /\ x # dp
      BY <2>1, InodeAssumption, Zenon
    <3> QED BY <2>2, <2>10, <2>11, <3>1, Zenon
  <2>14. Doing(p, th[p])'
    <3>1. Locked(th[p])' = ip /\ ~Adding(th[p])'
      BY <2>3, <2>8, Zenon DEF Locked, Adding
    <3>2. t.tgt \in Inum \cup {None} /\ t.path \in Seq(Element)
      BY Now, Zenon DEF Doing
    <3> QED BY <2>2, <2>8, <2>10, <3>1, <3>2, Zenon DEF Doing, InDir, Locking
  <2>15. NothingNew(p)
    BY <2>3, <2>8, Zenon DEF NothingNew, Adding
  <2>16. Links(ip) = {} /\ Adds(ip) = {} /\ Dels(ip) = {} /\ ip # Root
    BY <2>2, SomeLink, Zenon
  <2>17. ASSUME NEW x \in Inum \ {ip} PROVE CountOK(x)'
    <3>1. Links(x)' \subseteq Links(x)
      <4> SUFFICES ASSUME NEW y \in Inum \X Name, type'[y[1]] = "dir", dents'[y[1]][y[2]] = x
                   PROVE  type[y[1]] = "dir" /\ dents[y[1]][y[2]] = x
        BY Zenon DEF Links
      <4>1. x # None
        BY InodeAssumption DEF Inum, None
      <4>2. y[1] # ip
        BY <2>9, <2>11, <4>1 DEF NoEntries
      <4>3. CASE y[1] = dp
        <5>1. y[2] # n
          BY <2>11, <4>3, Zenon
        <5> QED BY <2>4, <2>11, <4>3, <5>1, Zenon
      <4>4. CASE y[1] # dp
        BY <2>10, <2>11, <4>2, <4>4, Zenon
      <4> QED BY <4>3, <4>4, Zenon
    <3>2. Adds(x)' \subseteq Adds(x) /\ Dels(x)' \subseteq Dels(x)
      BY <2>8, <2>15, PendingKept, Zenon
    <3>3. ASSUME NEW m \in Name, m \in Subs(x)', x = dp => m # n \/ ~dir
          PROVE  m \in Subs(x)
      <4>1. type'[x] = "dir" /\ dents'[x][m] \in Inum /\ type'[dents'[x][m]] = "dir"
        BY <3>3, Zenon DEF Subs
      <4>2. type[x] = "dir"
        BY <2>10, <4>1, Zenon
      <4>3. dents'[x][m] = dents[x][m]
        <5>1. CASE x = dp /\ m = n
          BY <2>10, <2>11, <3>3, <4>1, <5>1, Zenon
        <5>2. CASE ~(x = dp /\ m = n)
          BY <2>11, <5>2, Zenon
        <5> QED BY <5>1, <5>2, Zenon
      <4>4. dents[x][m] # ip
        <5>1. dents[x][m] = ip => <<x, m>> \in Links(ip)
          BY <4>2, Zenon DEF Links
        <5> QED BY <2>16, <5>1, Zenon
      <4> QED BY <2>10, <4>1, <4>2, <4>3, <4>4, Zenon DEF Subs
    <3>4. CountOK(x) /\ nlink[x] \in Int
      BY SomeLink, Zenon
    <3>5. type'[x] = type[x]
      BY <2>10, Zenon
    <3>6. CASE x = dp /\ dir
      <4>1. Subs(x)' \subseteq Subs(x) \cup {n}
        <5>1. \A m \in Subs(x)' : m \in Name
          BY Zenon DEF Subs
        <5> QED BY <3>3, <5>1, Zenon
      <4>2. /\ Cardinality(Links(x)') <= Cardinality(Links(x)) + 0
            /\ Cardinality(Subs(x)') <= Cardinality(Subs(x)) + 1
            /\ Cardinality(Adds(x)') <= Cardinality(Adds(x)) + 0
            /\ Cardinality(Dels(x)') <= Cardinality(Dels(x)) + 0
        BY <3>1, <3>2, <4>1, Parts, Change, Zenon
      <4>3. nlink'[x] \in Int /\ nlink[x] + 0 + 1 + 0 + 0 <= nlink'[x] /\ 0 \in Int /\ 1 \in Int
        BY <2>10, <3>4, <3>6, SMTT(60)
      <4>4. type'[x] # "free"
        BY <2>4, <3>5, <3>6, Zenon
      <4> QED BY <3>4, <4>2, <4>3, <4>4, CountMoves, Zenon
    <3>7. CASE ~(x = dp /\ dir)
      <4>1. Subs(x)' \subseteq Subs(x)
        <5>1. \A m \in Subs(x)' : m \in Name
          BY Zenon DEF Subs
        <5> QED BY <3>3, <3>7, <5>1, Zenon
      <4>2. nlink'[x] = nlink[x]
        BY <2>10, <3>7, Zenon
      <4>3. nlink'[x] \in Int /\ nlink[x] <= nlink'[x]
        BY <3>4, <4>2
      <4> QED BY <3>1, <3>2, <3>4, <3>5, <4>1, <4>3, CountKept, Zenon
    <3> QED BY <3>6, <3>7, Zenon
  <2>18. ASSUME NEW x \in Inum, x = ip PROVE CountOK(x)'
    <3>1. Links(x)' \subseteq {} \cup {<<dp, n>>}
      <4> SUFFICES ASSUME NEW y \in Inum \X Name, type'[y[1]] = "dir", dents'[y[1]][y[2]] = x
                   PROVE  y = <<dp, n>>
        BY Zenon DEF Links
      <4>1. y[1] # x
        BY <2>9, <2>18, <2>11 DEF NoEntries
      <4>2. ASSUME ~(y[1] = dp /\ y[2] = n) PROVE y \in Links(x)
        BY <2>10, <2>11, <2>18, <4>1, <4>2 DEF Links
      <4> QED BY <2>16, <2>18, <4>2
    <3>2. Adds(x)' = {} /\ Dels(x)' = {}
      BY <2>8, <2>15, <2>16, <2>18, PendingKept, Zenon
    <3>3. Subs(x)' = {}
      <4> SUFFICES ASSUME NEW m \in Name, dents'[x][m] \in Inum PROVE FALSE
        BY Zenon DEF Subs
      <4> QED BY <2>2, <2>9, <2>11, <2>18 DEF NoEntries, Inum, None
    <3>4. Cardinality(Links(x)') \in Nat /\ Cardinality(Links(x)') <= Cardinality({}) + 1
      BY <3>1, Empty, OneMore, Zenon
    <3>5. Cardinality({}) = 0
      BY Empty, Zenon
    <3>6. /\ Cardinality(Adds(x)') = 0 /\ Cardinality(Dels(x)') = 0 /\ Cardinality(Subs(x)') = 0
      BY <3>2, <3>3, <3>5, Zenon
    <3>7. Cardinality(Links(x)') + 0 + 0 + 0 + One(x = Root) <= nlink'[x]
      BY <2>10, <2>16, <2>18, <3>4, <3>5 DEF One
    <3>8. type'[x] # "free"
      BY <2>10, <2>18, Zenon
    <3> QED BY <3>6, <3>7, <3>8, Zenon DEF CountOK
  <2>19. \A x \in Inum : CountOK(x)'
    BY <2>17, <2>18, Zenon
  <2> QED BY <2>12, <2>13, <2>14, <2>19, DiskStep, Zenon
<1>16. ASSUME NEW p \in Proc, unlink_link(p) PROVE LinkInv'
  <2> USE <1>16
  <2> DEFINE i == th[p].ip
  <2>1. /\ th[p].pc = "unlink3" /\ nlink' = [nlink EXCEPT ![i] = @ - 1]
        /\ lock' = [lock EXCEPT ![i] = None] /\ Put(p, Idle, i)
        /\ UNCHANGED <<type, dents, dotdot>> /\ valid' = valid /\ cwd' = cwd
    BY Zenon DEF unlink_link, At
  <2>2. i \in Inum /\ lock[i] = p
    BY <2>1, Now, Zenon DEF Doing, Locking, Locked
  <2>3. GoesOn(p, Idle)
    BY <2>1, PutTo, Zenon
  <2>4. /\ th'[p].op = "none" /\ th'[p].pc = "idle" /\ th'[p].ip = None /\ th'[p].tgt = None
        /\ th'[p].path = <<>> /\ \A q \in Proc \ {p} : th'[q] = th[q]
    BY <2>3, Zenon DEF GoesOn, Idle
  <2>5. Doing(p, th[p])'
    BY <2>4 DEF Doing, InDir, Locking, Adding
  <2>6. LockOK(p) /\ ValidOK
    BY <2>1, <2>2, Unlocked, ValidSame, Zenon
  <2>7. ASSUME NEW x \in Inum
        PROVE  /\ Adds(x)' \subseteq Adds(x) /\ Dels(x)' \subseteq Dels(x)
               /\ x = i => p \in Dels(x) /\ Dels(x)' \subseteq Dels(x) \ {p}
    <3>1. ~Adding(th'[p]) /\ th'[p].pc # "unlink3"
      BY <2>4, Zenon DEF Adding
    <3>2. /\ Adds(x)' \ {p} = Adds(x) \ {p} /\ Dels(x)' \ {p} = Dels(x) \ {p}
          /\ p \notin Adds(x)' /\ p \notin Dels(x)'
          /\ (p \in Adds(x) <=> Adding(th[p]) /\ th[p].tgt = x)
          /\ (p \in Dels(x) <=> th[p].pc = "unlink3" /\ th[p].ip = x)
      BY <2>4, <3>1, Pending, Zenon
    <3>3. /\ Adds(x)' \subseteq Adds(x) /\ Dels(x)' \subseteq Dels(x)
          /\ Dels(x)' \subseteq Dels(x) \ {p}
      BY <3>2, Without, Zenon
    <3>4. x = i => p \in Dels(x)
      BY <2>1, <3>2, Zenon
    <3> QED BY <3>3, <3>4, Zenon
  <2>8. PICK x \in Inum : x = i
    BY <2>2, Zenon
  <2>9. type[x] # "free"
    BY <2>7, <2>8, SomeLink, Zenon
  <2>10. /\ nlink' \in [Inum -> Int] /\ nlink'[x] = nlink[x] + 0 + (-1)
         /\ \A y \in Inum \ {x} : nlink'[y] = nlink[y]
         /\ 0 \in Int /\ -1 \in Int
    <3>1. nlink \in [Inum -> Int]
      BY Zenon DEF LinkInv, TreeType
    <3> QED BY <2>1, <2>8, <3>1
  <2>11. /\ Cardinality(Adds(x)') <= Cardinality(Adds(x)) + 0
         /\ Cardinality(Dels(x)') <= Cardinality(Dels(x)) + (-1)
    <3>1. /\ Adds(x)' \in SUBSET Adds(x) /\ p \in Dels(x) /\ Dels(x)' \in SUBSET (Dels(x) \ {p})
      BY <2>7, <2>8, Zenon
    <3> QED BY <3>1, Parts, Change, Zenon
  <2> QED BY <2>1, <2>4, <2>5, <2>6, <2>7, <2>9, <2>10, <2>11, NlinkStep, Zenon
<1>17. ASSUME NEW p \in Proc, link_bad(p) PROVE LinkInv'
  <2> USE <1>17
  <2> DEFINE i == th[p].tgt
  <2>1. /\ th[p].pc = "linkbad" /\ nlink' = [nlink EXCEPT ![i] = @ - 1] /\ Valid(i)
        /\ lock' = lock /\ Put(p, Idle, i)
        /\ UNCHANGED <<type, dents, dotdot>> /\ cwd' = cwd
    BY Zenon DEF link_bad, At
  <2>2. th[p].op = "link2" /\ Adding(th[p])
    BY <2>1, Now, Zenon DEF PlaceOK, LinkPcs, Adding
  <2>3. i \in Inum /\ type[i] = "file" /\ ~NoType(i)
    BY <2>2, Now, Zenon DEF Doing, NoType
  <2>4. GoesOn(p, Idle)
    BY <2>1, PutTo, Zenon
  <2>5. /\ th'[p].op = "none" /\ th'[p].pc = "idle" /\ th'[p].ip = None /\ th'[p].tgt = None
        /\ th'[p].path = <<>> /\ \A q \in Proc \ {p} : th'[q] = th[q]
    BY <2>4, Zenon DEF GoesOn, Idle
  <2>6. Doing(p, th[p])'
    BY <2>5 DEF Doing, InDir, Locking, Adding
  <2>7. LockOK(p) /\ ValidOK
    BY <2>1, <2>3, LockSame, ValidSet, Zenon
  <2>8. ASSUME NEW x \in Inum
        PROVE  /\ Adds(x)' \subseteq Adds(x) /\ Dels(x)' \subseteq Dels(x)
               /\ x = i => p \in Adds(x) /\ Adds(x)' \subseteq Adds(x) \ {p}
    <3>1. ~Adding(th'[p]) /\ th'[p].pc # "unlink3"
      BY <2>5, Zenon DEF Adding
    <3>2. /\ Adds(x)' \ {p} = Adds(x) \ {p} /\ Dels(x)' \ {p} = Dels(x) \ {p}
          /\ p \notin Adds(x)' /\ p \notin Dels(x)'
          /\ (p \in Adds(x) <=> Adding(th[p]) /\ th[p].tgt = x)
          /\ (p \in Dels(x) <=> th[p].pc = "unlink3" /\ th[p].ip = x)
      BY <2>5, <3>1, Pending, Zenon
    <3>3. /\ Adds(x)' \subseteq Adds(x) /\ Dels(x)' \subseteq Dels(x)
          /\ Adds(x)' \subseteq Adds(x) \ {p}
      BY <3>2, Without, Zenon
    <3>4. x = i => p \in Adds(x)
      BY <2>2, <3>2, Zenon
    <3> QED BY <3>3, <3>4, Zenon
  <2>9. PICK x \in Inum : x = i
    BY <2>3, Zenon
  <2>10. /\ nlink' \in [Inum -> Int] /\ nlink'[x] = nlink[x] + (-1) + 0
         /\ \A y \in Inum \ {x} : nlink'[y] = nlink[y]
         /\ 0 \in Int /\ -1 \in Int
    <3>1. nlink \in [Inum -> Int]
      BY Zenon DEF LinkInv, TreeType
    <3> QED BY <2>1, <2>9, <3>1
  <2>11. /\ Cardinality(Adds(x)') <= Cardinality(Adds(x)) + (-1)
         /\ Cardinality(Dels(x)') <= Cardinality(Dels(x)) + 0
    <3>1. /\ Dels(x)' \in SUBSET Dels(x) /\ p \in Adds(x) /\ Adds(x)' \in SUBSET (Adds(x) \ {p})
      BY <2>8, <2>9, Zenon
    <3> QED BY <3>1, Parts, Change, Zenon
  <2>12. type[x] # "free"
    BY <2>3, <2>9, Zenon
  <2> QED BY <2>1, <2>5, <2>6, <2>7, <2>8, <2>10, <2>11, <2>12, NlinkStep, Zenon
<1>18. ASSUME NEW p \in Proc, NEW new \in Path, link(p, new) PROVE LinkInv'
  <2> USE <1>18
  <2> DEFINE i == th[p].ip
             r == Begun(p, "link2", new, i)
  <2>1. CASE NoType(i)
    BY <2>1, LinkPanic, Zenon DEF link
  <2>2. CASE ~NoType(i)
    <3>1. /\ th[p].pc = "link" /\ Valid(i) /\ Elems(new) # <<>>
          /\ UNCHANGED <<type, dents, dotdot>> /\ lock' = lock /\ cwd' = cwd
          /\ \/ nlink' = nlink /\ Put(p, Idle, i)
             \/ type[i] # "dir" /\ nlink' = [nlink EXCEPT ![i] = @ + 1] /\ Go(p, r)
      BY <2>2, Zenon DEF link, At, Begin, Begun
    <3>2. i \in Inum
      BY <3>1, AtIp, Zenon
    <3>3. ValidOK /\ type[i] # "free" /\ LockOK(p)
      BY <2>2, <3>1, <3>2, ValidSet, LockSame, Zenon
    <3>4. CASE nlink' = nlink /\ Put(p, Idle, i)
      BY <3>1, <3>3, <3>4, Now, EndStep, Zenon
    <3>5. CASE type[i] # "dir" /\ nlink' = [nlink EXCEPT ![i] = @ + 1] /\ Go(p, r)
      <4>1. /\ DOMAIN r = DOMAIN Idle /\ r.op = "link2" /\ r.ip = Start(p, new) /\ r.path = Elems(new)
            /\ r.tgt = i /\ r.pc = "walk" /\ Start(p, new) \in Inum /\ Elems(new) \in Seq(Element)
        <5>1. r = Begun(p, "link2", new, i)
          BY Zenon
        <5> HIDE DEF r
        <5> QED BY <3>1, <5>1, PathBegin
      <4> HIDE DEF r
      <4>2. GoesOn(p, r)
        BY <3>5, <4>1, PutTo, Zenon
      <4>3. /\ th'[p].op = "link2" /\ th'[p].pc = "walk" /\ th'[p].ip \in Inum /\ th'[p].tgt = i
            /\ th'[p].path \in Seq(Element) /\ th'[p].path # <<>>
            /\ \A q \in Proc \ {p} : th'[q] = th[q]
        BY <3>1, <4>1, <4>2, Zenon DEF GoesOn
      <4>4. type[i] = "file"
        BY <3>2, <3>3, <3>5, Zenon DEF LinkInv, TreeType
      <4>5. Doing(p, th[p])'
        BY <3>1, <3>2, <4>3, <4>4, Zenon DEF Doing, InDir, Locking
      <4>6. PICK x \in Inum : x = i
        BY <3>2, Zenon
      <4>7. \A y \in Inum : /\ Adds(y)' \ {p} = Adds(y) \ {p} /\ (p \in Adds(y)' => y = i)
                            /\ Dels(y)' \ {p} = Dels(y) \ {p} /\ p \notin Dels(y)'
        <5>1. th'[p].pc # "unlink3"
          BY <4>3, Zenon
        <5> QED BY <4>3, <5>1, Pending, Zenon
      <4>8. /\ Adds(x)' \in SUBSET (Adds(x) \cup {p}) /\ Dels(x)' \in SUBSET Dels(x)
        BY <4>7, Zenon
      <4>9. \A y \in Inum \ {x} : Adds(y)' \subseteq Adds(y) /\ Dels(y)' \subseteq Dels(y)
        BY <4>6, <4>7, Without, Zenon
      <4>10. /\ Cardinality(Adds(x)') <= Cardinality(Adds(x)) + 1
             /\ Cardinality(Dels(x)') <= Cardinality(Dels(x)) + 0
        BY <4>8, Parts, Change, Zenon
      <4>11. /\ nlink' \in [Inum -> Int] /\ nlink'[x] = nlink[x] + 1 + 0
             /\ \A y \in Inum \ {x} : nlink'[y] = nlink[y]
             /\ 0 \in Int /\ 1 \in Int
        <5>1. nlink \in [Inum -> Int]
          BY Zenon DEF LinkInv, TreeType
        <5> QED BY <3>5, <4>6, <5>1
      <4>12. type[x] # "free"
        BY <4>4, <4>6, Zenon
      <4> QED BY <3>1, <3>3, <4>3, <4>5, <4>9, <4>10, <4>11, <4>12, NlinkStep, Zenon
    <3> QED BY <3>1, <3>4, <3>5, Zenon
  <2> QED BY <2>1, <2>2, Zenon
<1>19. ASSUME NEW p \in Proc, link_entry(p) PROVE LinkInv'
  <2> USE <1>19
  <2> DEFINE t == th[p]
             dp == t.ip
             n == Head(t.path)
             e == Lookup(dp, n)
             a == [t EXCEPT !.pc = "unlockdp"]
             b == [t EXCEPT !.pc = "linked", !.ip = None]
  <2>1. /\ t.pc = "link2" /\ lock[dp] = None /\ Valid(dp) /\ UNCHANGED <<type, nlink, dotdot, cwd>>
        /\ \/ e # None /\ lock' = [lock EXCEPT ![dp] = p] /\ Put(p, a, e) /\ dents' = dents
           \/ e = None /\ dents' = [dents EXCEPT ![dp][n] = t.tgt] /\ Put(p, b, dp) /\ lock' = lock
    BY Zenon DEF link_entry, At
  <2>2. /\ dp \in Inum /\ ~NoType(dp) /\ type[dp] = "dir" /\ n \in Element /\ t.op = "link2"
    BY <2>1, AtIp, Now, Zenon DEF InDir, PlaceOK, LinkPcs
  <2>3. Adding(t) /\ t.tgt \in Inum /\ type[t.tgt] = "file" /\ t.path \in Seq(Element)
    BY <2>1, <2>2, Now, Zenon DEF Doing, Adding
  <2>4. ValidOK
    BY <2>1, <2>2, ValidSet, Zenon
  <2>5. CASE e # None /\ lock' = [lock EXCEPT ![dp] = p] /\ Put(p, a, e) /\ dents' = dents
    <3>1. /\ DOMAIN a = DOMAIN Idle /\ a.op = t.op /\ a.pc = "unlockdp" /\ a.ip = dp
          /\ a.tgt = t.tgt /\ a.path = t.path
      BY Now, IdleFields, Zenon
    <3>2. LockOK(p) /\ lock'[dp] = p
      BY <2>1, <2>2, <2>5, LockTaken, Zenon DEF LinkInv, TreeType
    <3> HIDE DEF a
    <3>3. /\ a.pc \notin InDir \cup {"walk", "unlink2", "unlink3"} /\ Locked(a) = dp
      BY <2>2, <3>1, Zenon DEF InDir, Locked
    <3> QED BY <2>1, <2>2, <2>3, <2>4, <2>5, <3>1, <3>2, <3>3, OnStep, Zenon
  <2>6. CASE e = None /\ dents' = [dents EXCEPT ![dp][n] = t.tgt] /\ Put(p, b, dp) /\ lock' = lock
    <3>1. n \in Name /\ dents[dp][n] = None
      BY <2>2, <2>6, LookupFinds, Zenon
    <3>2. /\ DOMAIN b = DOMAIN Idle /\ b.op = t.op /\ b.pc = "linked" /\ b.ip = None
          /\ b.tgt = t.tgt /\ b.path = t.path
      BY Now, IdleFields, Zenon
    <3> HIDE DEF b
    <3>3. GoesOn(p, b)
      BY <2>6, <3>2, PutTo, Zenon
    <3>4. /\ th'[p].op = t.op /\ th'[p].pc = "linked" /\ th'[p].ip = None /\ th'[p].tgt = t.tgt
          /\ th'[p].path = t.path /\ \A q \in Proc \ {p} : th'[q] = th[q]
      BY <3>2, <3>3, Zenon DEF GoesOn
    <3>5. PICK v \in Inum, d \in Inum : v = t.tgt /\ d = dp
      BY <2>2, <2>3, Zenon
    <3>6. /\ nlink' \in [Inum -> Int] /\ lock' \in [Inum -> Proc \cup {None}]
          /\ \A x \in Inum : nlink'[x] = nlink[x]
      BY <2>1, <2>6, Zenon DEF LinkInv, TreeType
    <3>7. /\ TreeType' /\ dents'[d][n] = v
          /\ \A x \in Inum \ {d} : dents'[x] = dents[x]
          /\ \A m \in Name \ {n} : dents'[d][m] = dents[d][m]
      <4>1. dents' = [dents EXCEPT ![d][n] = v] /\ type[d] = "dir" /\ v \in Inum \cup {None}
        BY <2>2, <2>6, <3>5, Zenon
      <4> HIDE DEF n
      <4> QED BY <2>1, <2>4, <3>1, <3>6, <4>1, EntryStep, Zenon
    <3>8. Kept(p)
      <4>1. \A q \in Proc : lock[d] # q
        BY <2>1, <3>5, InodeAssumption, Zenon
      <4> QED BY <2>1, <2>6, <3>4, <3>7, <4>1, Zenon DEF Kept
    <3>9. Doing(p, th[p])'
      BY <2>3, <3>4, Zenon DEF Doing, InDir, Locking, Adding
    <3>10. ASSUME NEW x \in Inum PROVE CountOK(x)'
      <4>1. CountOK(x) /\ nlink[x] \in Int
        BY SomeLink, Zenon
      <4>2. Links(x)' \subseteq Links(x) \cup {<<d, n>>} /\ (x # v => Links(x)' \subseteq Links(x))
        <5> SUFFICES ASSUME NEW y \in Inum \X Name, type'[y[1]] = "dir", dents'[y[1]][y[2]] = x,
                            ~(x = v /\ y = <<d, n>>)
                     PROVE  type[y[1]] = "dir" /\ dents[y[1]][y[2]] = x
          BY Zenon DEF Links
        <5> QED BY <2>1, <3>7
      <4>3. Subs(x)' \subseteq Subs(x)
        <5> SUFFICES ASSUME NEW m \in Name, type'[x] = "dir", dents'[x][m] \in Inum,
                            type'[dents'[x][m]] = "dir"
                     PROVE  type[x] = "dir" /\ dents[x][m] \in Inum /\ type[dents[x][m]] = "dir"
          BY Zenon DEF Subs
        <5>1. ~(x = d /\ m = n)
          BY <2>1, <2>3, <3>5, <3>7, Zenon
        <5> QED BY <2>1, <3>7, <5>1, Zenon
      <4>4. /\ Adds(x)' \ {p} = Adds(x) \ {p} /\ Dels(x)' \ {p} = Dels(x) \ {p}
            /\ p \notin Adds(x)' /\ p \notin Dels(x)' /\ (x = v => p \in Adds(x))
        <5>1. ~Adding(th'[p]) /\ th'[p].pc # "unlink3"
          BY <3>4, Zenon DEF Adding
        <5> QED BY <2>3, <3>4, <3>5, <5>1, Pending, Zenon
      <4>5. /\ Adds(x)' \subseteq Adds(x) /\ Adds(x)' \subseteq Adds(x) \ {p}
            /\ Dels(x)' \subseteq Dels(x)
        BY <4>4, Without, Zenon
      <4>6. CASE x = v
        <5>1. /\ Cardinality(Links(x)') <= Cardinality(Links(x)) + 1
              /\ Cardinality(Subs(x)') <= Cardinality(Subs(x)) + 0
              /\ Cardinality(Adds(x)') <= Cardinality(Adds(x)) + (-1)
              /\ Cardinality(Dels(x)') <= Cardinality(Dels(x)) + 0
          BY <4>2, <4>3, <4>4, <4>5, <4>6, Parts, Change, Zenon
        <5>2. /\ nlink'[x] \in Int /\ nlink[x] + 1 + 0 + (-1) + 0 <= nlink'[x]
              /\ 0 \in Int /\ 1 \in Int /\ -1 \in Int
          BY <3>6, <4>1
        <5>3. type'[x] # "free"
          BY <2>1, <2>3, <3>5, <4>6, Zenon
        <5> QED BY <4>1, <5>1, <5>2, <5>3, CountMoves, Zenon
      <4>7. CASE x # v
        <5>1. nlink'[x] \in Int /\ nlink[x] <= nlink'[x] /\ type'[x] = type[x]
          BY <2>1, <3>6, <4>1
        <5> QED BY <4>1, <4>2, <4>3, <4>5, <4>7, <5>1, CountKept, Zenon
      <4> QED BY <4>6, <4>7, Zenon
    <3> QED BY <3>7, <3>8, <3>9, <3>10, DiskStep, Zenon
  <2> QED BY <2>1, <2>5, <2>6, Zenon
<1>20. ASSUME NEW p \in Proc, unlink_entry(p) PROVE LinkInv'
  <2> USE <1>20
  <2> DEFINE t == th[p]
             ip == t.ip
             dp == t.tgt
             n == Head(t.path)
             dir == type[ip] = "dir"
             a == [t EXCEPT !.pc = "unlockdp", !.ip = None]
             b == [t EXCEPT !.pc = "unlink3", !.tgt = None]
  <2>1. CASE NoType(ip) \/ nlink[ip] < 1
    BY <2>1, LinkPanic, Zenon DEF unlink_entry
  <2>2. CASE ~(NoType(ip) \/ nlink[ip] < 1)
    <3>1. /\ t.pc = "unlink2" /\ lock[ip] = None /\ Valid(ip) /\ ~NoType(ip)
          /\ UNCHANGED <<type, dotdot, cwd>>
          /\ \/ Put(p, a, ip) /\ UNCHANGED <<dents, nlink, lock>>
             \/ /\ dents' = [dents EXCEPT ![dp][n] = None]
                /\ nlink' = [nlink EXCEPT ![dp] = IF dir THEN @ - 1 ELSE @]
                /\ lock' = [lock EXCEPT ![dp] = None, ![ip] = p] /\ Put(p, b, dp)
      BY <2>2, Zenon DEF unlink_entry, At
    <3>2. /\ ip \in Inum /\ dp \in Inum /\ type[dp] = "dir" /\ n \in Name /\ dents[dp][n] = ip
          /\ lock[dp] = p /\ t.op # "link2" /\ t.path \in Seq(Element)
      BY <3>1, Now, Zenon DEF Doing, Locking, Locked, PlaceOK, LinkPcs
    <3>3. ValidOK /\ type[ip] # "free" /\ dp # ip
      BY <3>1, <3>2, ValidSet, InodeAssumption, Zenon
    <3>4. CASE Put(p, a, ip) /\ UNCHANGED <<dents, nlink, lock>>
      <4>1. /\ DOMAIN a = DOMAIN Idle /\ a.op = t.op /\ a.pc = "unlockdp" /\ a.ip = None
            /\ a.tgt = dp /\ a.path = t.path
        BY Now, IdleFields, Zenon
      <4> HIDE DEF a
      <4>2. a.pc \notin InDir \cup {"walk", "unlink2", "unlink3"} /\ Locked(a) = dp /\ ~Adding(a)
        BY <3>2, <4>1, Zenon DEF InDir, Locked, Adding
      <4> QED BY <3>1, <3>2, <3>3, <3>4, <4>1, <4>2, LockSame, OnStep
    <3>5. CASE /\ dents' = [dents EXCEPT ![dp][n] = None]
               /\ nlink' = [nlink EXCEPT ![dp] = IF dir THEN @ - 1 ELSE @]
               /\ lock' = [lock EXCEPT ![dp] = None, ![ip] = p] /\ Put(p, b, dp)
      <4>1. /\ DOMAIN b = DOMAIN Idle /\ b.op = t.op /\ b.pc = "unlink3" /\ b.ip = ip
            /\ b.tgt = None /\ b.path = t.path
        BY Now, IdleFields, Zenon
      <4> HIDE DEF b
      <4>2. GoesOn(p, b)
        BY <3>5, <4>1, PutTo, Zenon
      <4>3. /\ th'[p].op = t.op /\ th'[p].pc = "unlink3" /\ th'[p].ip = ip /\ th'[p].tgt = None
            /\ th'[p].path = t.path /\ \A q \in Proc \ {p} : th'[q] = th[q]
        BY <4>1, <4>2, Zenon DEF GoesOn
      <4>4. PICK v \in Inum, d \in Inum : v = ip /\ d = dp
        BY <3>2, Zenon
      <4>5. /\ nlink' \in [Inum -> Int] /\ nlink'[d] = (IF dir THEN nlink[d] - 1 ELSE nlink[d])
            /\ \A x \in Inum \ {d} : nlink'[x] = nlink[x]
        <5>1. nlink \in [Inum -> Int]
          BY Zenon DEF LinkInv, TreeType
        <5>2. nlink[d] - 1 \in Int /\ nlink[d] \in Int
          BY <5>1
        <5>3. nlink' = [nlink EXCEPT ![d] = IF dir THEN nlink[d] - 1 ELSE nlink[d]]
          BY <3>5, <4>4, Zenon
        <5> HIDE DEF dir
        <5> QED BY <5>1, <5>2, <5>3, Zenon
      <4>6. /\ lock' \in [Inum -> Proc \cup {None}] /\ lock'[v] = p
            /\ \A x \in Inum \ {v, d} : lock'[x] = lock[x]
        BY <3>2, <3>3, <3>5, <4>4, Zenon DEF LinkInv, TreeType
      <4>7. /\ TreeType' /\ dents'[d][n] = None
            /\ \A x \in Inum \ {d} : dents'[x] = dents[x]
            /\ \A m \in Name \ {n} : dents'[d][m] = dents[d][m]
        <5>1. dents' = [dents EXCEPT ![d][n] = None] /\ type[d] = "dir" /\ None \in Inum \cup {None}
          BY <3>2, <3>5, <4>4, Zenon
        <5>2. lock' \in [Inum -> Proc \cup {None}] /\ nlink' \in [Inum -> Int] /\ n \in Name
          BY <3>2, <4>5, <4>6, Zenon
        <5>3. PICK w \in Inum \cup {None}, m \in Name : w = None /\ m = n
          BY <3>2, Zenon
        <5>4. dents' = [dents EXCEPT ![d][m] = w] /\ type' = type /\ dotdot' = dotdot /\ cwd' = cwd
          BY <3>1, <5>1, <5>3, Zenon
        <5>5. /\ TreeType' /\ dents'[d][m] = w
              /\ \A x \in Inum \ {d} : dents'[x] = dents[x]
              /\ \A k \in Name \ {m} : dents'[d][k] = dents[d][k]
          <6>1. type[d] = "dir" /\ ValidOK
            BY <3>3, <5>1, Zenon
          <6>2. lock' \in [Inum -> Proc \cup {None}] /\ nlink' \in [Inum -> Int]
            BY <5>2, Zenon
          <6> HIDE DEF n, t, ip, dp, dir
          <6> QED BY <5>4, <6>1, <6>2, EntryStep, Zenon
        <5> QED BY <5>3, <5>5, Zenon
      <4>8. Kept(p)
        <5> SUFFICES ASSUME NEW q \in Proc \ {p}, NEW x \in Inum
                     PROVE  lock[x] = q => lock'[x] = q /\ dents'[x] = dents[x]
          BY <3>1, <4>3, Zenon DEF Kept
        <5>1. lock[x] = q => x # v /\ x # d
          BY <3>1, <3>2, <4>4, InodeAssumption, Zenon
        <5> QED BY <4>6, <4>7, <5>1, Zenon
      <4>9. Doing(p, th[p])'
        <5>1. Locked(th[p])' = v /\ ~Adding(th[p])'
          BY <3>2, <4>3, <4>4, Zenon DEF Locked, Adding
        <5> QED BY <3>2, <4>3, <4>6, <5>1, Zenon DEF Doing, InDir, Locking
      <4>10. ASSUME NEW x \in Inum PROVE CountOK(x)'
        <5>1. CountOK(x) /\ nlink[x] \in Int
          BY SomeLink, Zenon
        <5>2. Links(x)' \subseteq Links(x) \ {<<d, n>>}
          <6> SUFFICES ASSUME NEW y \in Inum \X Name, type'[y[1]] = "dir", dents'[y[1]][y[2]] = x
                       PROVE  type[y[1]] = "dir" /\ dents[y[1]][y[2]] = x /\ y # <<d, n>>
            BY Zenon DEF Links
          <6>1. x # None
            BY InodeAssumption DEF Inum, None
          <6>2. y # <<d, n>>
            BY <4>7, <6>1
          <6> QED BY <3>1, <4>7, <6>2
        <5>3. ASSUME NEW m \in Subs(x)' PROVE m \in Subs(x) /\ (x = d => m # n)
          <6>1. m \in Name /\ type'[x] = "dir" /\ dents'[x][m] \in Inum /\ type'[dents'[x][m]] = "dir"
            BY Zenon DEF Subs
          <6>2. ~(x = d /\ m = n)
            BY <4>7, <6>1, InodeAssumption DEF Inum, None
          <6>3. dents'[x][m] = dents[x][m]
            BY <4>7, <6>1, <6>2, Zenon
          <6> QED BY <3>1, <6>1, <6>2, <6>3, Zenon DEF Subs
        <5>4. /\ Adds(x)' \ {p} = Adds(x) \ {p} /\ Dels(x)' \ {p} = Dels(x) \ {p}
              /\ p \notin Adds(x)' /\ (p \in Dels(x)' => x = v)
          <6>1. ~Adding(th'[p])
            BY <3>2, <4>3, Zenon DEF Adding
          <6> QED BY <4>3, <4>4, <6>1, Pending, Zenon
        <5>5. Adds(x)' \subseteq Adds(x) /\ (x # v => Dels(x)' \subseteq Dels(x))
          BY <5>4, Without, Zenon
        <5>6. CASE x = v
          <6>1. <<d, n>> \in Links(x)
            BY <3>2, <4>4, <5>6, Zenon DEF Links
          <6>2. Subs(x)' \in SUBSET Subs(x) /\ Dels(x)' \in SUBSET (Dels(x) \cup {p})
            BY <5>3, <5>4, Zenon
          <6>3. /\ Cardinality(Links(x)') <= Cardinality(Links(x)) + (-1)
                /\ Cardinality(Subs(x)') <= Cardinality(Subs(x)) + 0
                /\ Cardinality(Adds(x)') <= Cardinality(Adds(x)) + 0
                /\ Cardinality(Dels(x)') <= Cardinality(Dels(x)) + 1
            BY <5>2, <5>5, <6>1, <6>2, Parts, Change, Zenon
          <6>4. /\ nlink'[x] \in Int /\ nlink[x] + (-1) + 0 + 0 + 1 <= nlink'[x]
                /\ 0 \in Int /\ 1 \in Int /\ -1 \in Int
            BY <3>3, <4>4, <4>5, <5>1, <5>6
          <6>5. type'[x] # "free"
            BY <3>1, <3>3, <4>4, <5>6, Zenon
          <6> QED BY <5>1, <6>3, <6>4, <6>5, CountMoves, Zenon
        <5>7. CASE x = d /\ dir
          <6>1. n \in Subs(x) /\ Subs(x)' \in SUBSET (Subs(x) \ {n})
            BY <3>2, <4>4, <5>3, <5>7, Zenon DEF Subs
          <6>2. Links(x)' \in SUBSET Links(x) /\ Dels(x)' \in SUBSET Dels(x)
            BY <3>3, <4>4, <5>2, <5>5, <5>7, Zenon
          <6>3. /\ Cardinality(Links(x)') <= Cardinality(Links(x)) + 0
                /\ Cardinality(Subs(x)') <= Cardinality(Subs(x)) + (-1)
                /\ Cardinality(Adds(x)') <= Cardinality(Adds(x)) + 0
                /\ Cardinality(Dels(x)') <= Cardinality(Dels(x)) + 0
            BY <5>5, <6>1, <6>2, Parts, Change, Zenon
          <6>4. /\ nlink'[x] \in Int /\ nlink[x] + 0 + (-1) + 0 + 0 <= nlink'[x]
                /\ 0 \in Int /\ -1 \in Int
            BY <4>5, <5>1, <5>7
          <6>5. type'[x] # "free"
            BY <3>1, <3>2, <4>4, <5>7, Zenon
          <6> QED BY <5>1, <6>3, <6>4, <6>5, CountMoves, Zenon
        <5>8. CASE x # v /\ ~(x = d /\ dir)
          <6>1. nlink'[x] = nlink[x]
            BY <4>5, <5>8, Zenon
          <6>2. nlink'[x] \in Int /\ nlink[x] <= nlink'[x] /\ type'[x] = type[x]
            BY <3>1, <5>1, <6>1
          <6>3. Links(x)' \subseteq Links(x) /\ Subs(x)' \subseteq Subs(x)
            BY <5>2, <5>3, Zenon
          <6> QED BY <5>1, <5>5, <5>8, <6>2, <6>3, CountKept, Zenon
        <5> QED BY <5>6, <5>7, <5>8, Zenon
      <4> QED BY <4>7, <4>8, <4>9, <4>10, DiskStep, Zenon
    <3> QED BY <3>1, <3>4, <3>5, Zenon
  <2> QED BY <2>1, <2>2, Zenon
<1>21. ASSUME NEW p \in Proc, Step(p) PROVE LinkInv'
  BY <1>21, <1>14, <1>2, <1>13, <1>3, <1>10, <1>15, <1>5,
     <1>4, <1>6, <1>11, <1>20, <1>16, <1>7, <1>18, <1>19,
     <1>8, <1>17, <1>9, Zenon DEF Step
<1>22. ASSUME NEW p \in Proc, Call(p) PROVE LinkInv'
  BY <1>22, <1>12, <1>8, Zenon DEF Call
<1> QED BY <1>1, <1>21, <1>22, Zenon DEF Next

LEMMA LinkInit ==
  ASSUME Laws, Init
  PROVE  LinkInv
<1>1. /\ type = [i \in Inum |-> IF i = Root THEN "dir" ELSE "free"]
      /\ nlink = [i \in Inum |-> IF i = Root THEN 1 ELSE 0]
      /\ dents = [i \in Inum |-> NoEntries]
      /\ dotdot = [i \in Inum |-> IF i = Root THEN Root ELSE None]
      /\ valid = [i \in Inum |-> i = Root] /\ lock = [i \in Inum |-> None]
      /\ cwd = [p \in Proc |-> Root] /\ th = [p \in Proc |-> Idle]
  BY Zenon DEF Init
<1>2. Root \in Inum /\ Root # None /\ NoEntries \in [Name -> Inum \cup {None}]
      /\ \A n \in Name : NoEntries[n] = None
  BY InodeAssumption DEF Root, Inum, None, NoEntries
<1>3. TreeType
  <2>1. /\ type \in [Inum -> {"free", "file", "dir"}] /\ dents \in [Inum -> [Name -> Inum \cup {None}]]
        /\ dotdot \in [Inum -> Inum \cup {None}] /\ valid \in [Inum -> BOOLEAN]
        /\ lock \in [Inum -> Proc \cup {None}] /\ cwd \in [Proc -> Inum]
    BY <1>1, <1>2, Zenon
  <2>2. nlink \in [Inum -> Int]
    BY <1>1
  <2>3. \A i \in Inum : /\ type[i] = "dir" => dotdot[i] # None
                        /\ type[i] # "dir" => dents[i] = NoEntries
                        /\ valid[i] => type[i] # "free"
    BY <1>1, <1>2, Zenon
  <2> QED BY <2>1, <2>2, <2>3, Zenon DEF TreeType
<1>4. ASSUME NEW p \in Proc PROVE Doing(p, th[p])
  <2>1. /\ th[p].op = "none" /\ th[p].pc = "idle" /\ th[p].ip = None /\ th[p].tgt = None
        /\ th[p].path = <<>>
    BY <1>1, Zenon DEF Idle
  <2> QED BY <2>1 DEF Doing, InDir, Locking, Adding
<1>5. ASSUME NEW i \in Inum PROVE CountOK(i)
  <2>1. i # None /\ None \notin Inum
    BY InodeAssumption DEF Inum, None
  <2>2. Links(i) = {} /\ Subs(i) = {}
    BY <1>1, <1>2, <2>1, Zenon DEF Links, Subs
  <2>3. Adds(i) = {} /\ Dels(i) = {}
    BY <1>1, Zenon DEF Adds, Dels, Adding, Idle
  <2>4. Cardinality({}) = 0
    BY Empty, Zenon
  <2>5. nlink[i] \in Int /\ 0 + 0 + 0 + 0 + One(i = Root) <= nlink[i] /\ type[Root] # "free"
    BY <1>1, <1>2 DEF One
  <2> QED BY <2>2, <2>3, <2>4, <2>5, Zenon DEF CountOK
<1> QED BY <1>3, <1>4, <1>5, Zenon DEF LinkInv

-----------------------------------------------------------------------------
(* Inodes in use.                                                          *)

\* The paths without "..", which may lead out of a removed directory.
NoDotDot == \A pa \in Path : Elems(pa) \in Seq(Name \cup {"."})

\* Process p has a pointer to i and has not yet tested whether it is the last.
Holds(p, i) == \/ i \in {cwd[p], file[p], th[p].ip, th[p].tgt}
               \/ th[p].put = i /\ th[p].st = "lock"

\* What process p relies on.
InUse(p) ==
  /\ file[p] \in Inum \cup {None} /\ th[p].put \in Inum \cup {None}
  /\ th[p].st \in {"lock", "deref"} /\ (th[p].put = None => th[p].st = "lock")
  /\ th[p].path \in Seq(Name \cup {"."})
  /\ \A i \in Inum : Holds(p, i) => type[i] # "free"
  /\ type[cwd[p]] = "dir"
  /\ th[p].pc = "unlink2" => valid[th[p].tgt]
  /\ th[p].pc = "unlink3" => valid[th[p].ip]

\* An inode without links: valid as long as there is a pointer to it, and held
\* by a process that will free it.
NoLinks(i) ==
  type[i] # "free" /\ nlink[i] = 0 =>
    /\ ref[i] > 0 => valid[i]
    /\ i \notin missed => \E p \in Proc : Holds(p, i)

UseInv ==
  /\ ~panicked
  /\ \A p \in Proc : InUse(p)
  /\ \A i \in Inum : NoLinks(i)

LEMMA UseFreed ==
  ASSUME UseInv
  PROVE  FreedWhenUnused
<1>1. ASSUME NEW p \in Proc PROVE type[cwd[p]] = "dir" /\ (file[p] # None => type[file[p]] # "free")
  <2>1. InUse(p)
    BY Zenon DEF UseInv
  <2>2. Holds(p, file[p])
    BY Zenon DEF Holds
  <2> QED BY <2>1, <2>2, Zenon DEF InUse
<1>2. ASSUME NEW i \in Inum \ missed, type[i] # "free", nlink[i] = 0
      PROVE  \E p \in Proc : \/ i \in {cwd[p], file[p], th[p].ip, th[p].tgt}
                             \/ th[p].put = i /\ th[p].st = "lock"
  BY <1>2, Zenon DEF UseInv, NoLinks, Holds
<1> QED BY <1>1, <1>2, Zenon DEF FreedWhenUnused, UseInv

\* The pointers of a process, counted and held.
LEMMA HeldHolds ==
  ASSUME NEW i \in Inum, NEW c, NEW f, NEW t
  PROVE  /\ Held(i, c, f, t) \in Nat
         /\ Held(i, c, f, t) > 0 <=> i \in {c, f, t.ip, t.tgt} \/ t.put = i
BY DEF Held, One

\* An inode to which a process has a pointer has a reference.
LEMMA Pointed ==
  ASSUME Laws, PointerInv, NEW p \in Proc, NEW i \in Inum,
         i \in {cwd[p], file[p], th[p].ip, th[p].tgt} \/ th[p].put = i
  PROVE  ref[i] > 0
<1> DEFINE C == {r \in Proc : cwd[r] = i}    F == {r \in Proc : file[r] = i}
           I == {r \in Proc : th[r].ip = i}  T == {r \in Proc : th[r].tgt = i}
           P == {r \in Proc : th[r].put = i}
<1>1. ref[i] = Cardinality(C) + Cardinality(F) + Cardinality(I) + Cardinality(T) + Cardinality(P)
  BY Zenon DEF PointerInv, RefsArePointers, Pointers
<1>2. C # {} \/ F # {} \/ I # {} \/ T # {} \/ P # {}
  BY Zenon
<1>3. /\ C \in SUBSET Proc /\ F \in SUBSET Proc /\ I \in SUBSET Proc /\ T \in SUBSET Proc
      /\ P \in SUBSET Proc
  BY Zenon
<1> HIDE DEF C, F, I, T, P
<1>4. IsFiniteSet(C) /\ IsFiniteSet(F) /\ IsFiniteSet(I) /\ IsFiniteSet(T) /\ IsFiniteSet(P)
  BY <1>3, FiniteParts, Zenon
<1>5. /\ Cardinality(C) \in Nat /\ Cardinality(F) \in Nat /\ Cardinality(I) \in Nat
      /\ Cardinality(T) \in Nat /\ Cardinality(P) \in Nat
      /\ (Cardinality(C) = 0 <=> C = {}) /\ (Cardinality(F) = 0 <=> F = {})
      /\ (Cardinality(I) = 0 <=> I = {}) /\ (Cardinality(T) = 0 <=> T = {})
      /\ (Cardinality(P) = 0 <=> P = {})
  BY <1>4, Size, Zenon
<1> QED BY <1>1, <1>2, <1>5

\* A link count is never negative.
LEMMA NlinkNat ==
  ASSUME Laws, LinkInv, NEW i \in Inum
  PROVE  nlink[i] \in Nat
<1>1. /\ Cardinality(Links(i)) \in Nat /\ Cardinality(Subs(i)) \in Nat
      /\ Cardinality(Adds(i)) \in Nat /\ Cardinality(Dels(i)) \in Nat
  BY Parts, Size, Zenon
<1>2. CountOK(i) /\ nlink[i] \in Int
  BY DEF LinkInv, TreeType
<1> QED BY <1>1, <1>2 DEF CountOK, One

\* An inode that may get another pointer.
Usable(x) == x \in Inum /\ type[x] # "free" /\ (ref[x] > 0 \/ nlink[x] # 0)

\* What a step of p, other than those of iput, does to the inodes.
Growing(p) ==
  \A i \in Inum :
    /\ ref'[i] >= ref[i]
    /\ ref'[i] > ref[i] => type'[i] # "free" /\ (ref[i] > 0 \/ nlink'[i] # 0)
    /\ type[i] # "free" => type'[i] = type[i]
    /\ type[i] = "free" /\ type'[i] # "free" => nlink'[i] # 0
    /\ valid[i] => valid'[i]
    /\ nlink[i] # 0 /\ nlink'[i] = 0 => valid'[i] /\ Holds(p, i)'

\* A step that leaves links and types alone.
LEMMA GrowingSame ==
  ASSUME LinkInv, PointerInv, NEW p \in Proc, type' = type, nlink' = nlink,
         \A i \in Inum : valid[i] => valid'[i],
         ref' = ref \/ \E x : iget(x) /\ Usable(x)
  PROVE  Growing(p)
<1>1. ref \in [Inum -> Int]
  BY Zenon DEF PointerInv
<1>2. ASSUME NEW i \in Inum
      PROVE  /\ ref'[i] >= ref[i]
             /\ ref'[i] > ref[i] => type[i] # "free" /\ (ref[i] > 0 \/ nlink[i] # 0)
  BY <1>1 DEF iget, Usable
<1> QED BY <1>2, Zenon DEF Growing

\* The others keep what they rely on.
LEMMA OthersUse ==
  ASSUME LinkInv, UseInv, NEW p \in Proc, NEW q \in Proc \ {p}, Growing(p),
         cwd'[q] = cwd[q], file'[q] = file[q], th'[q] = th[q], missed' = missed
  PROVE  InUse(q)' /\ \A i \in Inum : Holds(q, i)' <=> Holds(q, i)
<1>1. InUse(q) /\ cwd[q] \in Inum /\ Doing(q, th[q])
  BY Zenon DEF UseInv, LinkInv, TreeType
<1>2. \A i \in Inum : Holds(q, i)' <=> Holds(q, i)
  BY Zenon DEF Holds
<1>3. \A i \in Inum : Holds(q, i)' => type'[i] # "free"
  BY <1>1, <1>2, Zenon DEF InUse, Growing
<1>4. type'[cwd'[q]] = "dir"
  <2>1. type[cwd[q]] = "dir"
    BY <1>1, Zenon DEF InUse
  <2> QED BY <1>1, <2>1, Zenon DEF Growing
<1>5. th'[q].pc = "unlink2" => valid'[th'[q].tgt]
  BY <1>1, Zenon DEF Growing, InUse, Doing
<1>6. th'[q].pc = "unlink3" => valid'[th'[q].ip]
  <2>1. th[q].pc = "unlink3" => th[q].ip \in Inum
    BY <1>1, Zenon DEF Doing
  <2> QED BY <1>1, <2>1, Zenon DEF Growing, InUse
<1>7. /\ file'[q] \in Inum \cup {None} /\ th'[q].put \in Inum \cup {None}
      /\ th'[q].st \in {"lock", "deref"} /\ (th'[q].put = None => th'[q].st = "lock")
      /\ th'[q].path \in Seq(Name \cup {"."})
  BY <1>1, Zenon DEF InUse
<1> QED BY <1>2, <1>3, <1>4, <1>5, <1>6, <1>7, Zenon DEF InUse

\* Pointers of p move with the reference counts.
LEMMA HoldsMove ==
  ASSUME Laws, PointerInv, PointerInv', NEW p \in Proc, NEW i \in Inum, Growing(p), th[p].put = None,
         th'[p].st = "lock",
         \A q \in Proc \ {p} : cwd'[q] = cwd[q] /\ file'[q] = file[q] /\ th'[q] = th[q]
  PROVE  /\ Holds(p, i) => Holds(p, i)'
         /\ Holds(p, i)' => Holds(p, i) \/ ref'[i] > ref[i]
<1> DEFINE h == Held(i, cwd[p], file[p], th[p])
           k == Held(i, cwd'[p], file'[p], th'[p])
<1>1. /\ Pointers(i) \in Nat /\ Pointers(i)' = Pointers(i) - h + k
  BY PointersMove, Zenon
<1>2. h \in Nat /\ (h > 0 <=> i \in {cwd[p], file[p], th[p].ip, th[p].tgt} \/ th[p].put = i)
  BY HeldHolds
<1>6. k \in Nat /\ (k > 0 <=> i \in {cwd'[p], file'[p], th'[p].ip, th'[p].tgt} \/ th'[p].put = i)
  BY HeldHolds
<1>3. ref[i] = Pointers(i) /\ ref'[i] = Pointers(i)' /\ ref'[i] >= ref[i] /\ None # i
  <2>1. None # i
    BY InodeAssumption DEF None, Inum
  <2>2. Inum' = Inum
    BY Zenon DEF Inum
  <2> QED BY <2>1, <2>2, Zenon DEF PointerInv, RefsArePointers, Growing
<1> HIDE DEF h, k
<1>4. (h > 0 => k > 0) /\ (k > 0 => h > 0 \/ ref'[i] > ref[i])
  BY <1>1, <1>2, <1>3, <1>6
<1>5. (h > 0 <=> Holds(p, i)) /\ (k > 0 <=> Holds(p, i)')
  BY <1>2, <1>3, <1>6, Zenon DEF Holds
<1> QED BY <1>4, <1>5, Zenon

\* A step of p that is not one of iput.
LEMMA UseStep ==
  ASSUME Laws, LinkInv, PointerInv, PointerInv', UseInv, NEW p \in Proc, th[p].put = None, Growing(p),
         \A q \in Proc \ {p} : cwd'[q] = cwd[q] /\ file'[q] = file[q] /\ th'[q] = th[q],
         panicked' = panicked, missed' = missed,
         file'[p] \in Inum \cup {None}, th'[p].put \in Inum \cup {None}, th'[p].st = "lock",
         th'[p].path \in Seq(Name \cup {"."}), type'[cwd'[p]] = "dir",
         th'[p].pc = "unlink2" => valid'[th'[p].tgt], th'[p].pc = "unlink3" => valid'[th'[p].ip]
  PROVE  UseInv'
<1>1. \A q \in Proc \ {p} : InUse(q)' /\ \A i \in Inum : Holds(q, i)' <=> Holds(q, i)
  BY OthersUse, Zenon
<1>2. ASSUME NEW i \in Inum
      PROVE  /\ Holds(p, i) => Holds(p, i)'
             /\ Holds(p, i)' => Holds(p, i) \/ ref'[i] > ref[i]
  BY HoldsMove, Zenon
<1>3. \A i \in Inum : Holds(p, i)' => type'[i] # "free"
  <2>1. InUse(p)
    BY Zenon DEF UseInv
  <2> QED BY <1>2, <2>1, ZenonT(60) DEF InUse, Growing
<1>4. InUse(p)'
  BY <1>3, Zenon DEF InUse
<1>5. ASSUME NEW i \in Inum, type'[i] # "free", nlink'[i] = 0
      PROVE  /\ ref'[i] > 0 => valid'[i]
             /\ i \notin missed => \E q \in Proc : Holds(q, i)'
  <2>1. type[i] # "free"
    BY <1>5, Zenon DEF Growing
  <2>2. CASE nlink[i] # 0
    BY <1>5, <2>2, Zenon DEF Growing
  <2>3. CASE nlink[i] = 0
    <3>1. NoLinks(i) /\ ref[i] \in Int /\ ref'[i] \in Int
      BY Zenon DEF UseInv, PointerInv
    <3>2. ref'[i] > 0 => valid'[i]
      BY <1>5, <2>1, <2>3, <3>1, SMTT(60) DEF NoLinks, Growing
    <3>3. i \notin missed => \E q \in Proc : Holds(q, i)'
      BY <1>1, <1>2, <2>1, <2>3, <3>1, Zenon DEF NoLinks
    <3> QED BY <3>2, <3>3, Zenon
  <2> QED BY <2>2, <2>3, Zenon
<1>6. \A i \in Inum : NoLinks(i)'
  BY <1>5, Zenon DEF NoLinks
<1>7. \A q \in Proc : InUse(q)'
  BY <1>1, <1>4, Zenon
<1> QED BY <1>6, <1>7, Zenon DEF UseInv, Inum

\* The same, of a call that goes on as r.
LEMMA UseGoes ==
  ASSUME Laws, LinkInv, PointerInv, PointerInv', UseInv, NEW p \in Proc, NEW r, NEW j \in Inum \cup {None},
         Go(p, r) \/ Put(p, r, j), DOMAIN r = DOMAIN Idle, r.put = None, r.st = "lock",
         r.path \in Seq(Name \cup {"."}), r.pc = "unlink2" => valid'[r.tgt],
         r.pc = "unlink3" => valid'[r.ip], th[p].put = None, Growing(p),
         \A q \in Proc \ {p} : cwd'[q] = cwd[q] /\ file'[q] = file[q],
         panicked' = panicked, missed' = missed, file'[p] \in Inum \cup {None},
         type'[cwd'[p]] = "dir"
  PROVE  UseInv'
<1>1. /\ \A q \in Proc \ {p} : th'[q] = th[q]
      /\ th'[p].pc = r.pc /\ th'[p].ip = r.ip /\ th'[p].tgt = r.tgt /\ th'[p].path = r.path
  BY PutTo, Zenon DEF GoesOn
<1>2. th'[p].put \in {r.put, j} /\ th'[p].st = "lock"
  <2>1. th = [q \in Proc |-> th[q]]
    BY Here, Zenon
  <2>2. CASE Go(p, r)
    BY <2>1, <2>2, Zenon DEF Go
  <2>3. CASE Put(p, r, j)
    <3> DEFINE s == [r EXCEPT !.put = j, !.st = "lock"]
    <3>1. s.put = j /\ s.st = "lock"
      BY IdleFields, Zenon
    <3>2. th' = [th EXCEPT ![p] = s]
      BY <2>3, Zenon DEF Put
    <3> HIDE DEF s
    <3> QED BY <2>1, <3>1, <3>2, Zenon
  <2> QED BY <2>2, <2>3, Zenon
<1>3. \A q \in Proc \ {p} : cwd'[q] = cwd[q] /\ file'[q] = file[q] /\ th'[q] = th[q]
  BY <1>1, Zenon
<1>4. /\ th'[p].put \in Inum \cup {None} /\ th'[p].path \in Seq(Name \cup {"."})
      /\ th'[p].pc = "unlink2" => valid'[th'[p].tgt]
      /\ th'[p].pc = "unlink3" => valid'[th'[p].ip]
  BY <1>1, <1>2, Zenon
<1> QED BY <1>2, <1>3, <1>4, UseStep, Zenon

\* Process p is at a place where it calls no iput.
LEMMA UseNow ==
  ASSUME Laws, LinkInv, PointerInv, UseInv, NEW p \in Proc
  PROVE  /\ cwd[p] \in Inum /\ type[cwd[p]] = "dir" /\ file[p] \in Inum \cup {None}
         /\ th[p].path \in Seq(Name \cup {"."}) /\ (th[p].put = None => th[p].st = "lock")
         /\ th[p].put \in Inum \cup {None} /\ th[p].st \in {"lock", "deref"}
         /\ \A i \in Inum : Holds(p, i) => type[i] # "free" /\ ref[i] > 0
<1>1. InUse(p) /\ cwd[p] \in Inum
  BY Zenon DEF UseInv, LinkInv, TreeType
<1>2. \A i \in Inum : Holds(p, i) => ref[i] > 0
  BY Pointed, Zenon DEF Holds
<1> QED BY <1>1, <1>2, Zenon DEF InUse

\* A call whose step leaves links and types alone.
LEMMA UseQuiet ==
  ASSUME Laws, LinkInv, PointerInv, PointerInv', UseInv, NEW p \in Proc, NEW r, NEW j \in Inum \cup {None},
         Go(p, r) \/ Put(p, r, j), DOMAIN r = DOMAIN Idle, r.put = None, r.st = "lock",
         r.path \in Seq(Name \cup {"."}), r.pc = "unlink2" => valid'[r.tgt], r.pc # "unlink3",
         th[p].put = None, type' = type, nlink' = nlink,
         valid' = valid \/ \E x : Valid(x), ref' = ref \/ \E x : iget(x) /\ Usable(x),
         cwd' = cwd, file' = file, panicked' = panicked, missed' = missed
  PROVE  UseInv'
<1>1. \A i \in Inum : valid[i] => valid'[i]
  BY Zenon DEF Valid, LinkInv, TreeType
<1>2. Growing(p)
  BY <1>1, GrowingSame, Zenon
<1>3. /\ \A q \in Proc \ {p} : cwd'[q] = cwd[q] /\ file'[q] = file[q]
      /\ file'[p] \in Inum \cup {None} /\ type'[cwd'[p]] = "dir"
  BY UseNow, Zenon
<1> QED BY <1>2, <1>3, UseGoes, Zenon

\* A call that ends.
LEMMA UseIdle ==
  ASSUME Laws, LinkInv, PointerInv, PointerInv', UseInv, NEW p \in Proc, NEW j \in Inum \cup {None},
         Go(p, Idle) \/ Put(p, Idle, j), th[p].put = None, Growing(p),
         \A q \in Proc \ {p} : cwd'[q] = cwd[q] /\ file'[q] = file[q],
         panicked' = panicked, missed' = missed, file'[p] \in Inum \cup {None},
         type'[cwd'[p]] = "dir"
  PROVE  UseInv'
<1> DEFINE r == Idle
<1>1. /\ DOMAIN r = DOMAIN Idle /\ r.put = None /\ r.st = "lock" /\ r.pc = "idle"
      /\ r.path \in Seq(Name \cup {"."}) /\ (Go(p, r) \/ Put(p, r, j))
  BY DEF Idle
<1>2. (r.pc = "unlink2" => valid'[r.tgt]) /\ (r.pc = "unlink3" => valid'[r.ip])
  BY <1>1, Zenon
<1> HIDE DEF r
<1> QED BY <1>1, <1>2, UseGoes, Zenon

LEMMA UseEnd ==
  ASSUME Laws, LinkInv, PointerInv, PointerInv', UseInv, NEW p \in Proc, NEW j \in Inum \cup {None},
         Go(p, Idle) \/ Put(p, Idle, j), th[p].put = None, type' = type, nlink' = nlink,
         ref' = ref, valid' = valid \/ \E x : Valid(x),
         \A q \in Proc \ {p} : cwd'[q] = cwd[q] /\ file'[q] = file[q],
         panicked' = panicked, missed' = missed, file'[p] \in Inum \cup {None},
         type'[cwd'[p]] = "dir"
  PROVE  UseInv'
<1>1. \A i \in Inum : valid[i] => valid'[i]
  BY Zenon DEF Valid, LinkInv, TreeType
<1>2. Growing(p)
  BY <1>1, GrowingSame, Zenon
<1> QED BY <1>2, UseIdle, Zenon

\* What p points to has a type: ilock does not panic.
LEMMA HasType ==
  ASSUME UseInv, NEW p \in Proc, NEW i \in Inum, i \in {th[p].ip, th[p].tgt}
  PROVE  ~NoType(i) /\ type[i] # "free"
BY Zenon DEF UseInv, InUse, Holds, NoType

LEMMA UseInstall ==
  ASSUME Laws, LinkInv, PointerInv, PointerInv', UseInv, NEW p \in Proc, NEW j \in Inum, NEW ok,
         Install(p, j, ok), th[p].put = None, type' = type, nlink' = nlink, ref' = ref,
         valid' = valid \/ \E x : Valid(x), cwd' = cwd, panicked' = panicked, missed' = missed
  PROVE  UseInv'
<1>1. Go(p, Idle) \/ Put(p, Idle, j)
  BY Zenon DEF Install
<1>2. (\A q \in Proc \ {p} : file'[q] = file[q]) /\ file'[p] \in Inum \cup {None}
  BY UseNow, Zenon DEF Install, PointerInv
<1>3. type'[cwd'[p]] = "dir" /\ \A q \in Proc \ {p} : cwd'[q] = cwd[q] /\ file'[q] = file[q]
  BY <1>2, UseNow, Zenon
<1> QED BY <1>1, <1>2, <1>3, UseEnd, Zenon

\* link() goes to bad.
LEMMA UseBad ==
  ASSUME Laws, LinkInv, PointerInv, PointerInv', UseInv, NEW p \in Proc, NEW j \in Inum,
         Put(p, [th[p] EXCEPT !.pc = "linkbad", !.ip = None], j), th[p].put = None,
         type' = type, nlink' = nlink, ref' = ref, valid' = valid \/ \E x : Valid(x),
         cwd' = cwd, file' = file, panicked' = panicked, missed' = missed
  PROVE  UseInv'
<1> DEFINE r == [th[p] EXCEPT !.pc = "linkbad", !.ip = None]
<1>1. /\ DOMAIN r = DOMAIN Idle /\ r.put = None /\ r.st = "lock" /\ r.pc = "linkbad"
      /\ r.path = th[p].path
  BY Now, UseNow, IdleFields, Zenon
<1>2. r.path \in Seq(Name \cup {"."})
  BY <1>1, UseNow, Zenon
<1>3. Put(p, r, j)
  BY Zenon
<1> HIDE DEF r
<1>4. r.pc # "unlink3" /\ (r.pc = "unlink2" => valid'[r.tgt])
  BY <1>1, Zenon
<1> QED BY <1>1, <1>2, <1>3, <1>4, UseQuiet, Zenon

\* What a name leads to may be used.
LEMMA LookupUsable ==
  ASSUME Laws, LinkInv, PointerInv, UseInv, NEW d \in Inum, type[d] = "dir", ref[d] > 0,
         NEW n \in Name \cup {"."}, Lookup(d, n) # None
  PROVE  Usable(Lookup(d, n))
<1>1. CASE n = "."
  BY <1>1, Zenon DEF Lookup, Usable
<1>2. CASE n \in Name
  <2>1. PICK i \in Inum : i = Lookup(d, n) /\ i = dents[d][n]
    BY <1>2, LookupFinds, Zenon DEF Element
  <2>2. <<d, n>> \in Links(i)
    BY <1>2, <2>1, Zenon DEF Links
  <2>3. nlink[i] > 0 /\ type[i] # "free" /\ nlink[i] \in Int
    BY <2>2, SomeLink, Zenon
  <2>4. nlink[i] # 0
    BY <2>3
  <2> QED BY <2>1, <2>3, <2>4, Zenon DEF Usable
<1> QED BY <1>1, <1>2, Zenon

\* So may the root and a current directory.
LEMMA StartUsable ==
  ASSUME Laws, LinkInv, PointerInv, UseInv, NEW p \in Proc, NEW pa
  PROVE  Usable(Start(p, pa))
<1>1. Usable(cwd[p])
  BY UseNow, Zenon DEF Usable, Holds
<1>2. Usable(Root)
  <2>1. Root \in Inum
    BY InodeAssumption DEF Root, Inum
  <2>2. nlink[Root] > 0 /\ type[Root] # "free" /\ nlink[Root] \in Int
    BY <2>1, SomeLink, Zenon
  <2>3. nlink[Root] # 0
    BY <2>2
  <2> QED BY <2>1, <2>2, <2>3, Zenon DEF Usable
<1> QED BY <1>1, <1>2, Zenon DEF Start

\* A call that is about to look up a name in the directory ip.
LEMMA UseDir ==
  ASSUME Laws, LinkInv, PointerInv, UseInv, NEW p \in Proc,
         th[p].pc \in InDir \/ (th[p].pc = "walk" /\ type[th[p].ip] = "dir")
  PROVE  /\ th[p].ip \in Inum /\ type[th[p].ip] = "dir" /\ ref[th[p].ip] > 0
         /\ th[p].path # <<>> /\ Head(th[p].path) \in Name \cup {"."}
         /\ Tail(th[p].path) \in Seq(Name \cup {"."})
         /\ Lookup(th[p].ip, Head(th[p].path)) # None
              => Usable(Lookup(th[p].ip, Head(th[p].path)))
<1>1. Doing(p, th[p]) /\ th[p].path \in Seq(Name \cup {"."})
  BY Now, UseNow, Zenon
<1>2. th[p].ip \in Inum /\ type[th[p].ip] = "dir" /\ th[p].path # <<>>
  BY <1>1, Zenon DEF Doing, InDir
<1>3. ref[th[p].ip] > 0
  BY <1>2, Pointed, Zenon
<1>4. Head(th[p].path) \in Name \cup {"."} /\ Tail(th[p].path) \in Seq(Name \cup {"."})
  BY <1>1, <1>2
<1> QED BY <1>2, <1>3, <1>4, LookupUsable, Zenon

\* namex begins.
LEMMA UseBegun ==
  ASSUME NoDotDot, LinkInv, PointerInv, NEW p \in Proc, NEW pa \in Path,
         NEW op \in Ops, NEW x, NEW r, r = Begun(p, op, pa, x)
  PROVE  /\ DOMAIN r = DOMAIN Idle /\ r.put = None /\ r.st = "lock"
         /\ r.path \in Seq(Name \cup {"."}) /\ r.pc \in Ops \cup {"walk"}
<1>1. /\ DOMAIN r = DOMAIN Idle /\ r.path = Elems(pa)
      /\ r.pc = IF Elems(pa) = <<>> THEN op ELSE "walk"
  BY PathBegin
<1>2. r.put = None /\ r.st = "lock"
  <2> DEFINE s == Start(p, pa)
             e == Elems(pa)
             l == IF e = <<>> THEN op ELSE "walk"
  <2>1. r = [Idle EXCEPT !.op = op, !.pc = l, !.ip = s, !.path = e, !.tgt = x]
    BY Zenon DEF Begun
  <2> HIDE DEF s, e, l
  <2> QED BY <2>1, Zenon DEF Idle
<1>3. Elems(pa) \in Seq(Name \cup {"."})
  BY Zenon DEF NoDotDot
<1> HIDE DEF Ops
<1> QED BY <1>1, <1>2, <1>3, Zenon

\* A step that only takes links away: from inodes that p is about to iput.
LEMMA GrowingLess ==
  ASSUME LinkInv, PointerInv, NEW p \in Proc, NEW x \in Inum, type' = type, ref' = ref,
         \A i \in Inum \ {x} : nlink'[i] = nlink[i], \A i \in Inum : valid[i] => valid'[i],
         nlink'[x] = nlink[x] \/ (valid'[x] /\ th'[p].put = x /\ th'[p].st = "lock")
  PROVE  Growing(p)
<1>1. \A i \in Inum : ref'[i] >= ref[i] /\ ~(ref'[i] > ref[i])
  BY DEF PointerInv
<1>2. ASSUME NEW i \in Inum, nlink[i] # 0, nlink'[i] = 0 PROVE valid'[i] /\ Holds(p, i)'
  BY <1>2, Zenon DEF Holds
<1> QED BY <1>1, <1>2, Zenon DEF Growing

\* The call goes on as r after iput(x).
LEMMA PutFields ==
  ASSUME PointerInv, NEW p \in Proc, NEW r, NEW x, DOMAIN r = DOMAIN Idle, Put(p, r, x)
  PROVE  th'[p].put = x /\ th'[p].st = "lock"
<1> DEFINE s == [r EXCEPT !.put = x, !.st = "lock"]
<1>1. s.put = x /\ s.st = "lock"
  BY IdleFields, Zenon
<1>2. th' = [th EXCEPT ![p] = s] /\ th = [q \in Proc |-> th[q]]
  BY Here, Zenon DEF Put
<1> HIDE DEF s
<1> QED BY <1>1, <1>2, Zenon

LEMMA UseNext ==
  ASSUME Laws, NoDotDot, LinkInv, PointerInv, PointerInv', UseInv, [Next]_vars
  PROVE  UseInv'
<1>1. CASE UNCHANGED vars
  <2>1. /\ type' = type /\ nlink' = nlink /\ ref' = ref /\ valid' = valid /\ cwd' = cwd
        /\ file' = file /\ th' = th /\ missed' = missed /\ panicked' = panicked
    BY <1>1, Zenon DEF vars, disk
  <2>2. \A p \in Proc : InUse(p)'
    BY <2>1, Zenon DEF UseInv, InUse, Holds, Inum, None
  <2>3. \A i \in Inum : NoLinks(i)'
    BY <2>1, Zenon DEF UseInv, NoLinks, Holds, Inum
  <2> QED BY <2>1, <2>2, <2>3, Zenon DEF UseInv, Inum
\* iput, up to the decrement: the inode is freed when nobody else has a
\* pointer to it, and is left to another process that has.
<1>2. ASSUME NEW p \in Proc, iput(p) PROVE UseInv'
  <2> USE <1>2
  <2> PICK i \in Inum : i = th[p].put
    BY UseNow, Zenon DEF iput
  <2>1. /\ ~panicked /\ th[p].st = "lock" /\ panicked' = panicked
        /\ th' = [th EXCEPT ![p].st = "deref"]
        /\ nlink' = nlink /\ ref' = ref /\ cwd' = cwd /\ file' = file
        /\ missed' = IF nlink[i] = 0 /\ ref[i] > 1 /\ LastTest(p, i) THEN missed \union {i} ELSE missed
        /\ IF valid[i] /\ nlink[i] = 0 /\ ref[i] = 1
           THEN type' = [type EXCEPT ![i] = "free"] /\ valid' = [valid EXCEPT ![i] = FALSE]
           ELSE type' = type /\ valid' = valid
    BY Zenon DEF iput
  <2>2. /\ \A q \in Proc \ {p} : th'[q] = th[q]
        /\ th'[p].put = i /\ th'[p].st = "deref"
        /\ th'[p].pc = th[p].pc /\ th'[p].ip = th[p].ip /\ th'[p].tgt = th[p].tgt
        /\ th'[p].path = th[p].path
    <3> DEFINE r == [th[p] EXCEPT !.st = "deref"]
    <3>1. /\ DOMAIN th[p] = {"op", "pc", "ip", "tgt", "path", "put", "st"}
          /\ th = [q \in Proc |-> th[q]]
      BY Here, Zenon
    <3>2. /\ r.put = i /\ r.st = "deref" /\ r.pc = th[p].pc /\ r.ip = th[p].ip
          /\ r.tgt = th[p].tgt /\ r.path = th[p].path
      BY <3>1, Zenon
    <3>3. th' = [th EXCEPT ![p] = r]
      BY <2>1, Zenon
    <3> HIDE DEF r
    <3>4. th'[p] = r /\ \A q \in Proc \ {p} : th'[q] = th[q]
      BY <3>1, <3>3, Zenon
    <3> QED BY <3>2, <3>4, Zenon
  <2>3. /\ \A q \in Proc \ {p}, x \in Inum : Holds(q, x)' <=> Holds(q, x)
        /\ \A x \in Inum \ {i} : Holds(p, x)' <=> Holds(p, x)
        /\ Holds(p, i)' <=> i \in {cwd[p], file[p], th[p].ip, th[p].tgt}
        /\ Holds(p, i)
    BY <2>1, <2>2, Zenon DEF Holds
  <2>4. type[i] # "free" /\ ref[i] > 0 /\ ref[i] \in Int
    BY <2>3, UseNow, Zenon DEF PointerInv
  <2>5. \A q \in Proc : InUse(q) /\ cwd[q] \in Inum /\ Doing(q, th[q])
    BY Zenon DEF UseInv, LinkInv, TreeType
  <2>6. \A q \in Proc : /\ th[q].pc = "unlink2" => th[q].tgt \in Inum
                        /\ th[q].pc = "unlink3" => th[q].ip \in Inum
    BY <2>5, Zenon DEF Doing
  <2>7. ASSUME NEW q \in Proc
        PROVE  /\ file'[q] \in Inum \cup {None} /\ th'[q].put \in Inum \cup {None}
               /\ th'[q].st \in {"lock", "deref"} /\ (th'[q].put = None => th'[q].st = "lock")
               /\ th'[q].path \in Seq(Name \cup {"."})
    <3>1. None \notin Inum
      BY Here, Zenon
    <3>2. CASE q = p
      BY <2>1, <2>2, <2>5, <3>1, <3>2 DEF InUse
    <3>3. CASE q # p
      BY <2>1, <2>2, <2>5, <3>3, ZenonT(60) DEF InUse
    <3> QED BY <3>2, <3>3, Zenon
  <2>8. CASE valid[i] /\ nlink[i] = 0 /\ ref[i] = 1
    <3>1. ASSUME NEW q \in Proc PROVE ~Holds(q, i)' /\ i \notin {cwd[q], file[q], th[q].ip, th[q].tgt}
      <4>1. i \notin {cwd[q], file[q], th[q].ip, th[q].tgt} /\ (q # p => th[q].put # i)
        BY <2>8, OnlyPointer, Zenon
      <4> QED BY <2>3, <4>1, Zenon DEF Holds
    <3>2. \A x \in Inum \ {i} : type'[x] = type[x] /\ valid'[x] = valid[x]
      BY <2>1, <2>8, Zenon DEF LinkInv, TreeType
    <3>3. type'[i] = "free" /\ missed' = missed
      BY <2>1, <2>8 DEF LinkInv, TreeType
    <3>4. ASSUME NEW q \in Proc PROVE InUse(q)'
      <4>1. type'[cwd'[q]] = "dir"
        BY <2>1, <2>5, <3>1, <3>2, Zenon DEF InUse
      <4>2. \A x \in Inum : Holds(q, x)' => type'[x] # "free"
        BY <2>3, <2>5, <3>1, <3>2, SMTT(60) DEF InUse
      <4>3. /\ th'[q].pc = "unlink2" => valid'[th'[q].tgt]
            /\ th'[q].pc = "unlink3" => valid'[th'[q].ip]
        BY <2>2, <2>5, <2>6, <3>1, <3>2, SMTT(60) DEF InUse
      <4> QED BY <2>7, <4>1, <4>2, <4>3, Zenon DEF InUse
    <3>5. ASSUME NEW x \in Inum PROVE NoLinks(x)'
      <4>1. NoLinks(x)
        BY Zenon DEF UseInv
      <4>2. CASE x = i
        BY <3>3, <4>2, Zenon DEF NoLinks
      <4>3. CASE x # i
        BY <2>1, <2>3, <3>2, <3>3, <4>1, <4>3, Zenon DEF NoLinks
      <4> QED BY <4>2, <4>3, Zenon
    <3> QED BY <2>1, <3>4, <3>5, Zenon DEF UseInv, Inum
  <2>9. CASE ~(valid[i] /\ nlink[i] = 0 /\ ref[i] = 1)
    <3>1. type' = type /\ valid' = valid
      BY <2>1, <2>9, Zenon
    <3>2. ASSUME NEW q \in Proc PROVE InUse(q)'
      <4>1. type'[cwd'[q]] = "dir"
        BY <2>1, <2>5, <3>1, Zenon DEF InUse
      <4>2. \A x \in Inum : Holds(q, x)' => type'[x] # "free"
        BY <2>3, <2>5, <3>1, SMTT(60) DEF InUse
      <4>3. /\ th'[q].pc = "unlink2" => valid'[th'[q].tgt]
            /\ th'[q].pc = "unlink3" => valid'[th'[q].ip]
        BY <2>2, <2>5, <2>6, <3>1 DEF InUse
      <4> QED BY <2>7, <4>1, <4>2, <4>3, Zenon DEF InUse
    <3>3. ASSUME nlink[i] = 0, i \notin missed' PROVE \E q \in Proc : Holds(q, i)'
      <4>1. ref[i] > 1
        BY <2>4, <2>9, <3>3, SMTT(60) DEF UseInv, NoLinks
      <4>2. ~LastTest(p, i)
        BY <2>1, <3>3, <4>1, Zenon
      <4>3. PICK q \in Proc : i \in {cwd[q], file[q], th[q].ip, th[q].tgt}
                              \/ (q # p /\ th[q].put = i /\ th[q].st # "deref")
        BY <4>2, Zenon DEF LastTest
      <4>4. th[q].st \in {"lock", "deref"}
        BY <2>5, Zenon DEF InUse
      <4> QED BY <2>3, <4>3, <4>4, SMTT(60) DEF Holds
    <3>4. missed \subseteq missed'
      BY <2>1, Zenon
    <3>5. ASSUME NEW x \in Inum PROVE NoLinks(x)'
      <4>1. NoLinks(x)
        BY Zenon DEF UseInv
      <4>2. CASE x = i
        BY <2>1, <3>1, <3>3, <4>1, <4>2, Zenon DEF NoLinks
      <4>3. CASE x # i
        BY <2>1, <2>3, <3>1, <3>4, <4>1, <4>3, Zenon DEF NoLinks
      <4> QED BY <4>2, <4>3, Zenon
    <3> QED BY <2>1, <3>2, <3>5, Zenon DEF UseInv, Inum
  <2> QED BY <2>8, <2>9, Zenon
<1>3. ASSUME NEW p \in Proc, iput_deref(p) PROVE UseInv'
  <2> USE <1>3
  <2> PICK i \in Inum : i = th[p].put
    BY UseNow, Zenon DEF iput_deref
  <2>1. /\ ~panicked /\ th[p].st = "deref" /\ panicked' = panicked
        /\ th' = [th EXCEPT ![p].put = None, ![p].st = "lock"]
        /\ ref' = [ref EXCEPT ![i] = ref[i] - 1]
        /\ valid' = [valid EXCEPT ![i] = valid[i] /\ ref[i] > 1]
        /\ nlink' = nlink /\ type' = type /\ cwd' = cwd /\ file' = file /\ missed' = missed
    BY Zenon DEF iput_deref, disk
  <2>2. /\ \A q \in Proc \ {p} : th'[q] = th[q]
        /\ th'[p].put = None /\ th'[p].st = "lock"
        /\ th'[p].pc = th[p].pc /\ th'[p].ip = th[p].ip /\ th'[p].tgt = th[p].tgt
        /\ th'[p].path = th[p].path
    <3> DEFINE r == [th[p] EXCEPT !.put = None, !.st = "lock"]
    <3>1. /\ DOMAIN th[p] = {"op", "pc", "ip", "tgt", "path", "put", "st"}
          /\ th = [q \in Proc |-> th[q]]
      BY Here, Zenon
    <3>2. /\ r.put = None /\ r.st = "lock" /\ r.pc = th[p].pc /\ r.ip = th[p].ip
          /\ r.tgt = th[p].tgt /\ r.path = th[p].path
      BY <3>1, Zenon
    <3>3. th' = [th EXCEPT ![p] = r]
      BY <2>1, <3>1, Zenon
    <3> HIDE DEF r
    <3>4. th'[p] = r /\ \A q \in Proc \ {p} : th'[q] = th[q]
      BY <3>1, <3>3, Zenon
    <3> QED BY <3>2, <3>4, Zenon
  <2>3. \A q \in Proc, x \in Inum : Holds(q, x)' <=> Holds(q, x)
    <3>1. None \notin Inum
      BY Here, Zenon
    <3>2. \A x \in Inum : Holds(p, x)' <=> Holds(p, x)
      BY <2>1, <2>2, <3>1, Zenon DEF Holds
    <3>3. \A q \in Proc \ {p}, x \in Inum : Holds(q, x)' <=> Holds(q, x)
      BY <2>1, <2>2, Zenon DEF Holds
    <3> QED BY <3>2, <3>3, Zenon
  <2>4. /\ \A x \in Inum \ {i} : ref'[x] = ref[x] /\ valid'[x] = valid[x]
        /\ ref'[i] = ref[i] - 1 /\ (valid'[i] <=> valid[i] /\ ref[i] > 1) /\ ref[i] \in Int
    BY <2>1, Zenon DEF PointerInv, LinkInv, TreeType
  <2>5. \A q \in Proc : InUse(q) /\ cwd[q] \in Inum /\ Doing(q, th[q])
    BY Zenon DEF UseInv, LinkInv, TreeType
  <2>6. \A q \in Proc : /\ th[q].pc = "unlink2" => th[q].tgt \in Inum
                        /\ th[q].pc = "unlink3" => th[q].ip \in Inum
    BY <2>5, Zenon DEF Doing
  <2>7. ASSUME NEW q \in Proc, i \in {th[q].ip, th[q].tgt} PROVE ref[i] > 1
    <3>1. ref[i] > 0
      BY Pointed, Zenon
    <3>2. ref[i] # 1
      BY <2>7, OnlyPointer, ZenonT(60)
    <3> QED BY <2>4, <3>1, <3>2
  <2>8. ASSUME NEW q \in Proc PROVE InUse(q)'
    <3>1. /\ th'[q].pc = "unlink2" => valid'[th'[q].tgt]
          /\ th'[q].pc = "unlink3" => valid'[th'[q].ip]
      BY <2>2, <2>4, <2>5, <2>6, <2>7, SMTT(60) DEF InUse
    <3>2. /\ type'[cwd'[q]] = "dir" /\ file'[q] \in Inum \cup {None}
          /\ \A x \in Inum : Holds(q, x)' => type'[x] # "free"
      BY <2>1, <2>3, <2>5, Zenon DEF InUse
    <3>3. /\ th'[q].put \in Inum \cup {None} /\ th'[q].path \in Seq(Name \cup {"."})
          /\ th'[q].st \in {"lock", "deref"} /\ (th'[q].put = None => th'[q].st = "lock")
      <4>1. CASE q = p
        BY <2>2, <2>5, <4>1, Zenon DEF InUse
      <4>2. CASE q # p
        BY <2>2, <2>5, <4>2, ZenonT(60) DEF InUse
      <4> QED BY <4>1, <4>2, Zenon
    <3> QED BY <3>1, <3>2, <3>3, Zenon DEF InUse
  <2>9. ASSUME NEW x \in Inum PROVE NoLinks(x)'
    <3>1. NoLinks(x)
      BY Zenon DEF UseInv
    <3>2. type[x] # "free" /\ nlink[x] = 0 /\ ref'[x] > 0 => valid'[x]
      BY <2>4, <3>1, SMTT(60) DEF NoLinks
    <3> QED BY <2>1, <2>3, <3>1, <3>2, Zenon DEF NoLinks
  <2> QED BY <2>1, <2>8, <2>9, Zenon DEF UseInv, Inum
<1>4. ASSUME NEW p \in Proc, NEW rdonly \in BOOLEAN, open(p, rdonly) PROVE UseInv'
  <2> USE <1>4
  <2>1. th[p].pc = "open" /\ th[p].put = None
    BY Zenon DEF open, At
  <2>2. PICK i \in Inum : i = th[p].ip
    BY <2>1, AtIp, Zenon
  <2>3. /\ Valid(i) /\ Install(p, i, type[i] = "dir" => rdonly)
        /\ type' = type /\ nlink' = nlink /\ ref' = ref /\ cwd' = cwd /\ missed' = missed
        /\ panicked' = panicked
    BY <2>2, HasType, Zenon DEF open, disk
  <2> QED BY <2>1, <2>3, UseInstall, Zenon
<1>5. ASSUME NEW p \in Proc, found(p) PROVE UseInv'
  <2> USE <1>5
  <2>1. th[p].pc = "found" /\ th[p].put = None
    BY Zenon DEF found, At
  <2>2. PICK i \in Inum : i = th[p].ip
    BY <2>1, AtIp, Zenon
  <2>3. /\ Valid(i) /\ Install(p, i, th[p].op = "creat" /\ type[i] = "file")
        /\ type' = type /\ nlink' = nlink /\ ref' = ref /\ cwd' = cwd /\ missed' = missed
        /\ panicked' = panicked
    BY <2>2, HasType, Zenon DEF found, disk
  <2> QED BY <2>1, <2>3, UseInstall, Zenon
<1>6. ASSUME NEW p \in Proc, created(p) PROVE UseInv'
  <2> USE <1>6
  <2>1. th[p].pc = "made" /\ th[p].put = None
    BY Zenon DEF created, At
  <2>2. PICK i \in Inum : i = th[p].ip
    BY <2>1, AtIp, Zenon
  <2>3. /\ Install(p, i, th[p].op = "creat") /\ valid' = valid
        /\ type' = type /\ nlink' = nlink /\ ref' = ref /\ cwd' = cwd /\ missed' = missed
        /\ panicked' = panicked
    BY <2>2, Zenon DEF created, disk
  <2> QED BY <2>1, <2>3, UseInstall, Zenon
\* Calls that end with an iput.
<1>7. ASSUME NEW p \in Proc, unlink_none(p) \/ linked(p) \/ close(p) PROVE UseInv'
  <2> USE <1>7
  <2>1. /\ th[p].put = None /\ type' = type /\ nlink' = nlink /\ ref' = ref /\ cwd' = cwd
        /\ missed' = missed /\ panicked' = panicked
        /\ \/ valid' = valid
           \/ Valid(th[p].ip)
        /\ \/ Put(p, Idle, th[p].ip) /\ file' = file
           \/ Put(p, Idle, th[p].tgt) /\ file' = file
           \/ Put(p, Idle, file[p]) /\ file' = [file EXCEPT ![p] = None]
    BY Zenon DEF unlink_none, linked, close, At, disk
  <2>2. /\ th[p].ip \in Inum \cup {None} /\ th[p].tgt \in Inum \cup {None}
        /\ file[p] \in Inum \cup {None} /\ type[cwd[p]] = "dir"
    BY Now, UseNow, Zenon DEF Doing
  <2>3. (\A q \in Proc \ {p} : file'[q] = file[q]) /\ file'[p] \in Inum \cup {None}
    BY <2>1, <2>2, Zenon DEF PointerInv
  <2>4. type'[cwd'[p]] = "dir" /\ \A q \in Proc \ {p} : cwd'[q] = cwd[q] /\ file'[q] = file[q]
    BY <2>1, <2>2, <2>3, Zenon
  <2>5. PICK j \in Inum \cup {None} : Put(p, Idle, j)
    BY <2>1, <2>2, Zenon
  <2>6. valid' = valid \/ \E x : Valid(x)
    BY <2>1, Zenon
  <2> QED BY <2>1, <2>3, <2>4, <2>5, <2>6, UseEnd, Zenon
<1>8. ASSUME NEW p \in Proc, chdir(p) PROVE UseInv'
  <2> USE <1>8
  <2>1. th[p].pc = "chdir" /\ th[p].put = None
    BY Zenon DEF chdir, At
  <2>2. PICK i \in Inum : i = th[p].ip
    BY <2>1, AtIp, Zenon
  <2>3. /\ Valid(i) /\ type' = type /\ nlink' = nlink /\ ref' = ref /\ file' = file
        /\ missed' = missed /\ panicked' = panicked
        /\ \/ type[i] = "dir" /\ cwd' = [cwd EXCEPT ![p] = i] /\ Put(p, Idle, cwd[p])
           \/ Put(p, Idle, i) /\ cwd' = cwd
    BY <2>2, HasType, Zenon DEF chdir, disk
  <2>4. cwd[p] \in Inum /\ type[cwd[p]] = "dir" /\ file[p] \in Inum \cup {None}
    BY UseNow, Zenon
  <2>5. (\A q \in Proc \ {p} : cwd'[q] = cwd[q]) /\ type'[cwd'[p]] = "dir"
    BY <2>3, <2>4, Zenon DEF PointerInv
  <2>6. PICK j \in Inum \cup {None} : Put(p, Idle, j)
    BY <2>3, <2>4, Zenon
  <2>7. /\ \A q \in Proc \ {p} : cwd'[q] = cwd[q] /\ file'[q] = file[q]
        /\ file'[p] \in Inum \cup {None} /\ \E x : Valid(x)
    BY <2>3, <2>4, <2>5, Zenon
  <2> QED BY <2>1, <2>3, <2>5, <2>6, <2>7, UseEnd, Zenon
<1>9. ASSUME NEW p \in Proc, unlockdp(p) PROVE UseInv'
  <2> USE <1>9
  <2>1. th[p].pc = "unlockdp" /\ th[p].put = None
    BY Zenon DEF unlockdp, At
  <2>2. PICK j \in Inum : j = IF th[p].op = "link2" THEN th[p].ip ELSE th[p].tgt
    BY <2>1, Now, Zenon DEF Doing, Locking, Locked
  <2>3. /\ type' = type /\ nlink' = nlink /\ ref' = ref /\ valid' = valid /\ cwd' = cwd
        /\ file' = file /\ missed' = missed /\ panicked' = panicked
        /\ \/ Put(p, [th[p] EXCEPT !.pc = "linkbad", !.ip = None], j)
           \/ Put(p, Idle, j)
    BY <2>2, Zenon DEF unlockdp, disk
  <2>4. CASE Put(p, [th[p] EXCEPT !.pc = "linkbad", !.ip = None], j)
    BY <2>1, <2>3, <2>4, UseBad, Zenon
  <2>5. CASE Put(p, Idle, j)
    <3>1. file[p] \in Inum \cup {None} /\ type[cwd[p]] = "dir"
      BY UseNow, Zenon
    <3> QED BY <2>1, <2>3, <2>5, <3>1, UseEnd, Zenon
  <2> QED BY <2>3, <2>4, <2>5, Zenon
<1>10. ASSUME NEW p \in Proc, create_found(p) PROVE UseInv'
  <2> USE <1>10
  <2> DEFINE t == th[p]
             dp == t.ip
             ip == Lookup(dp, Head(t.path))
             r == [t EXCEPT !.ip = ip, !.pc = "found"]
  <2>1. /\ t.pc = t.op /\ t.op \in {"creat", "mkdir"} /\ ip # None /\ Valid(dp) /\ Put(p, r, dp)
        /\ t.put = None /\ iget(ip) /\ type' = type /\ nlink' = nlink /\ cwd' = cwd /\ file' = file
        /\ missed' = missed /\ panicked' = panicked
    BY Zenon DEF create_found, At, disk
  <2>2. t.pc \in InDir
    BY <2>1, Zenon DEF InDir
  <2>3. dp \in Inum /\ Usable(ip)
    BY <2>1, <2>2, UseDir, Zenon
  <2>4. /\ DOMAIN r = DOMAIN Idle /\ r.put = None /\ r.st = "lock" /\ r.pc = "found"
        /\ r.path = t.path
    BY <2>1, Now, UseNow, IdleFields, Zenon
  <2>5. r.path \in Seq(Name \cup {"."})
    BY <2>4, UseNow, Zenon
  <2> HIDE DEF r, ip
  <2>6. /\ r.pc # "unlink3" /\ (r.pc = "unlink2" => valid'[r.tgt])
        /\ (\E x : Valid(x)) /\ (\E x : iget(x) /\ Usable(x))
    BY <2>1, <2>3, <2>4, Zenon
  <2>7. PICK j \in Inum \cup {None} : Put(p, r, j)
    BY <2>1, <2>3, Zenon
  <2> QED BY <2>1, <2>4, <2>5, <2>6, <2>7, UseQuiet, Zenon
<1>11. ASSUME NEW p \in Proc, unlink(p) PROVE UseInv'
  <2> USE <1>11
  <2> DEFINE t == th[p]
             dp == t.ip
             ip == Lookup(dp, Head(t.path))
             r == [t EXCEPT !.tgt = dp, !.ip = ip, !.pc = "unlink2"]
  <2>1. /\ t.pc = "unlink" /\ ip # None /\ Valid(dp) /\ Go(p, r)
        /\ t.put = None /\ iget(ip) /\ type' = type /\ nlink' = nlink /\ cwd' = cwd /\ file' = file
        /\ missed' = missed /\ panicked' = panicked
    BY Zenon DEF unlink, At, disk
  <2>2. dp \in Inum /\ Usable(ip)
    BY <2>1, UseDir, Zenon DEF InDir
  <2>3. /\ DOMAIN r = DOMAIN Idle /\ r.put = None /\ r.st = "lock" /\ r.pc = "unlink2"
        /\ r.path = t.path /\ r.tgt = dp
    BY <2>1, Now, UseNow, IdleFields, Zenon
  <2>4. r.path \in Seq(Name \cup {"."})
    BY <2>3, UseNow, Zenon
  <2> HIDE DEF r, ip
  <2>5. /\ r.pc # "unlink3" /\ (r.pc = "unlink2" => valid'[r.tgt])
        /\ (\E x : Valid(x)) /\ (\E x : iget(x) /\ Usable(x))
    BY <2>1, <2>2, <2>3, Zenon DEF Valid, LinkInv, TreeType
  <2>6. \E j \in Inum \cup {None} : Go(p, r)
    BY <2>1, Zenon
  <2> QED BY <2>1, <2>3, <2>4, <2>5, <2>6, UseQuiet, Zenon
<1>12. ASSUME NEW p \in Proc, link_entry(p) PROVE UseInv'
  <2> USE <1>12
  <2> DEFINE t == th[p]
             dp == t.ip
             e == Lookup(dp, Head(t.path))
             a == [t EXCEPT !.pc = "unlockdp"]
             b == [t EXCEPT !.pc = "linked", !.ip = None]
  <2>1. /\ t.pc = "link2" /\ t.put = None /\ Valid(dp) /\ type' = type /\ nlink' = nlink
        /\ cwd' = cwd /\ file' = file /\ missed' = missed /\ panicked' = panicked
        /\ \/ e # None /\ iget(e) /\ Put(p, a, e)
           \/ ref' = ref /\ Put(p, b, dp)
    BY Zenon DEF link_entry, At
  <2>2. dp \in Inum /\ (e # None => Usable(e))
    BY <2>1, UseDir, Zenon DEF InDir
  <2>3. /\ DOMAIN a = DOMAIN Idle /\ a.put = None /\ a.st = "lock" /\ a.pc = "unlockdp"
        /\ a.path = t.path
        /\ DOMAIN b = DOMAIN Idle /\ b.put = None /\ b.st = "lock" /\ b.pc = "linked"
        /\ b.path = t.path
    BY <2>1, Now, UseNow, IdleFields, Zenon
  <2>4. a.path \in Seq(Name \cup {"."}) /\ b.path \in Seq(Name \cup {"."})
    BY <2>3, UseNow, Zenon
  <2> HIDE DEF a, b, e
  <2>5. /\ a.pc # "unlink3" /\ (a.pc = "unlink2" => valid'[a.tgt])
        /\ b.pc # "unlink3" /\ (b.pc = "unlink2" => valid'[b.tgt])
        /\ \E x : Valid(x)
    BY <2>1, <2>3, Zenon
  <2>6. CASE e # None /\ iget(e) /\ Put(p, a, e)
    <3>1. PICK j \in Inum : Put(p, a, j) /\ iget(j) /\ Usable(j)
      BY <2>2, <2>6, Zenon DEF Usable
    <3> QED BY <2>1, <2>3, <2>4, <2>5, <3>1, UseQuiet, Zenon
  <2>7. CASE ref' = ref /\ Put(p, b, dp)
    <3>1. PICK j \in Inum : Put(p, b, j)
      BY <2>2, <2>7, Zenon
    <3> QED BY <2>1, <2>3, <2>4, <2>5, <2>7, <3>1, UseQuiet, Zenon
  <2> QED BY <2>1, <2>6, <2>7, Zenon
<1>13. ASSUME NEW p \in Proc, walk(p) PROVE UseInv'
  <2> USE <1>13
  <2> DEFINE t == th[p]
             i == t.ip
             next == Lookup(i, Head(t.path))
             rest == Tail(t.path)
             failed == IF t.op = "link2" THEN [t EXCEPT !.pc = "linkbad", !.ip = None] ELSE Idle
             l == IF rest = <<>> THEN t.op ELSE "walk"
             a == [t EXCEPT !.pc = t.op]
             b == [t EXCEPT !.ip = next, !.path = rest, !.pc = l]
  <2>1. t.pc = "walk" /\ t.put = None
    BY Zenon DEF walk, At
  <2>2. i \in Inum /\ t.op \in Ops
    BY <2>1, AtIp, Now, Zenon DEF PlaceOK
  <2>3. ~NoType(i)
    BY <2>2, HasType, Zenon
  <2>4. /\ Valid(i) /\ type' = type /\ nlink' = nlink
        /\ cwd' = cwd /\ file' = file /\ missed' = missed /\ panicked' = panicked
        /\ \/ Put(p, failed, i) /\ ref' = ref
           \/ Go(p, a) /\ ref' = ref
           \/ type[i] = "dir" /\ next # None /\ iget(next) /\ Put(p, b, i)
    BY <2>3, Zenon DEF walk, disk
  <2>5. CASE Put(p, failed, i) /\ ref' = ref
    <3>1. CASE t.op = "link2"
      <4>1. Put(p, [th[p] EXCEPT !.pc = "linkbad", !.ip = None], i)
        BY <2>5, <3>1, Zenon
      <4> QED BY <2>1, <2>2, <2>4, <2>5, <4>1, UseBad, Zenon
    <3>2. CASE t.op # "link2"
      <4>1. Put(p, Idle, i)
        BY <2>5, <3>2, Zenon
      <4>2. file[p] \in Inum \cup {None} /\ type[cwd[p]] = "dir"
        BY UseNow, Zenon
      <4>3. PICK j \in Inum \cup {None} : Put(p, Idle, j)
        BY <2>2, <4>1, Zenon
      <4>4. /\ \A q \in Proc \ {p} : cwd'[q] = cwd[q] /\ file'[q] = file[q]
            /\ file'[p] \in Inum \cup {None} /\ type'[cwd'[p]] = "dir" /\ \E x : Valid(x)
        BY <2>4, <4>2, Zenon
      <4> QED BY <2>1, <2>4, <2>5, <4>3, <4>4, UseEnd, Zenon
    <3> QED BY <3>1, <3>2, Zenon
  <2>6. CASE Go(p, a) /\ ref' = ref
    <3>1. /\ DOMAIN a = DOMAIN Idle /\ a.put = None /\ a.st = "lock" /\ a.pc = t.op
          /\ a.path = t.path
      BY <2>1, Now, UseNow, IdleFields, Zenon
    <3>2. a.path \in Seq(Name \cup {"."})
      BY <3>1, UseNow, Zenon
    <3> HIDE DEF a
    <3>3. /\ a.pc # "unlink3" /\ (a.pc = "unlink2" => valid'[a.tgt]) /\ \E x : Valid(x)
          /\ \E j \in Inum \cup {None} : Go(p, a)
      BY <2>2, <2>4, <2>6, <3>1, Zenon DEF Ops
    <3> QED BY <2>1, <2>4, <2>6, <3>1, <3>2, <3>3, UseQuiet, Zenon
  <2>7. CASE type[i] = "dir" /\ next # None /\ iget(next) /\ Put(p, b, i)
    <3>1. rest \in Seq(Name \cup {"."}) /\ Usable(next)
      BY <2>1, <2>7, UseDir, Zenon
    <3>2. l \in Ops \cup {"walk"}
      BY <2>2, Zenon
    <3> HIDE DEF next, rest, l
    <3>3. /\ DOMAIN b = DOMAIN Idle /\ b.put = None /\ b.st = "lock" /\ b.pc = l
          /\ b.path = rest
      BY <2>1, Now, UseNow, IdleFields, Zenon
    <3> HIDE DEF b
    <3>4. /\ b.pc # "unlink3" /\ (b.pc = "unlink2" => valid'[b.tgt]) /\ (\E x : Valid(x))
          /\ \E x : iget(x) /\ Usable(x)
      BY <2>4, <2>7, <3>1, <3>2, <3>3, Zenon DEF Ops
    <3>5. PICK j \in Inum \cup {None} : Put(p, b, j)
      BY <2>2, <2>7, Zenon
    <3>6. b.path \in Seq(Name \cup {"."})
      BY <3>1, <3>3, Zenon
    <3> QED BY <2>1, <2>4, <3>3, <3>4, <3>5, <3>6, UseQuiet, Zenon
  <2> QED BY <2>4, <2>5, <2>6, <2>7, Zenon
<1>14. ASSUME NEW p \in Proc, NEW pa \in Path,
              NEW op \in {"open", "creat", "mkdir", "unlink", "link", "chdir"}, syscall(p, op, pa)
       PROVE  UseInv'
  <2> USE <1>14
  <2> DEFINE r == Begun(p, op, pa, None)
  <2>1. /\ Go(p, r) /\ iget(Start(p, pa)) /\ th[p].put = None /\ valid' = valid
        /\ type' = type /\ nlink' = nlink /\ cwd' = cwd /\ file' = file /\ missed' = missed
        /\ panicked' = panicked
    BY Zenon DEF syscall, At, Begin, Begun, disk
  <2>2. op \in Ops
    BY Zenon DEF Ops
  <2>3. r = Begun(p, op, pa, None)
    BY Zenon
  <2> HIDE DEF r
  <2>4. /\ DOMAIN r = DOMAIN Idle /\ r.put = None /\ r.st = "lock"
        /\ r.path \in Seq(Name \cup {"."}) /\ r.pc \in Ops \cup {"walk"}
    BY <2>2, <2>3, UseBegun
  <2>5. r.pc # "unlink3" /\ (r.pc = "unlink2" => valid'[r.tgt])
    BY <2>4, Zenon DEF Ops
  <2>6. (\E x : iget(x) /\ Usable(x)) /\ (\E j \in Inum \cup {None} : Go(p, r))
    BY <2>1, StartUsable, Zenon
  <2> QED BY <2>1, <2>4, <2>5, <2>6, UseQuiet, Zenon
<1>15. ASSUME NEW p \in Proc, unlink_link(p) PROVE UseInv'
  <2> USE <1>15
  <2>1. th[p].pc = "unlink3" /\ th[p].put = None
    BY Zenon DEF unlink_link, At
  <2>2. PICK x \in Inum : x = th[p].ip
    BY <2>1, AtIp, Zenon
  <2>3. /\ nlink' = [nlink EXCEPT ![x] = nlink[x] - 1] /\ Put(p, Idle, x) /\ type' = type /\ ref' = ref
        /\ valid' = valid /\ cwd' = cwd /\ file' = file /\ missed' = missed /\ panicked' = panicked
    BY <2>2, Zenon DEF unlink_link
  <2>4. valid[x] /\ file[p] \in Inum \cup {None} /\ type[cwd[p]] = "dir"
    BY <2>1, <2>2, Zenon DEF UseInv, InUse
  <2>5. \A i \in Inum \ {x} : nlink'[i] = nlink[i]
    BY <2>3, Zenon DEF LinkInv, TreeType
  <2>6. th'[p].put = x /\ th'[p].st = "lock"
    BY <2>3, PutFields, Zenon
  <2>7. Growing(p)
    BY <2>3, <2>4, <2>5, <2>6, GrowingLess, Zenon
  <2> QED BY <2>1, <2>3, <2>4, <2>7, UseIdle, Zenon
<1>16. ASSUME NEW p \in Proc, link_bad(p) PROVE UseInv'
  <2> USE <1>16
  <2>1. th[p].pc = "linkbad" /\ th[p].put = None
    BY Zenon DEF link_bad, At
  <2>2. PICK x \in Inum : x = th[p].tgt
    BY <2>1, Now, Zenon DEF Doing, Adding, PlaceOK, LinkPcs
  <2>3. /\ nlink' = [nlink EXCEPT ![x] = nlink[x] - 1] /\ Put(p, Idle, x) /\ type' = type /\ ref' = ref
        /\ Valid(x) /\ cwd' = cwd /\ file' = file /\ missed' = missed /\ panicked' = panicked
    BY <2>2, Zenon DEF link_bad
  <2>4. file[p] \in Inum \cup {None} /\ type[cwd[p]] = "dir"
    BY UseNow, Zenon
  <2>5. (\A i \in Inum \ {x} : nlink'[i] = nlink[i]) /\ valid'[x] /\ \A i \in Inum : valid[i] => valid'[i]
    BY <2>3, Zenon DEF Valid, LinkInv, TreeType
  <2>6. th'[p].put = x /\ th'[p].st = "lock"
    BY <2>3, PutFields, Zenon
  <2>7. Growing(p)
    BY <2>3, <2>5, <2>6, GrowingLess, Zenon
  <2> QED BY <2>1, <2>3, <2>4, <2>7, UseIdle, Zenon
<1>17. ASSUME NEW p \in Proc, unlink_entry(p) PROVE UseInv'
  <2> USE <1>17
  <2> DEFINE t == th[p]
             a == [t EXCEPT !.pc = "unlockdp", !.ip = None]
             b == [t EXCEPT !.pc = "unlink3", !.tgt = None]
  <2>1. t.pc = "unlink2" /\ t.put = None
    BY Zenon DEF unlink_entry, At
  <2>2. PICK ip \in Inum, dp \in Inum, n \in Name :
          ip = t.ip /\ dp = t.tgt /\ type[dp] = "dir" /\ dents[dp][n] = ip
    BY <2>1, Now, AtIp, SMTT(60) DEF Doing
  <2>3. ~NoType(ip) /\ ~(nlink[ip] < 1)
    <3>1. <<dp, n>> \in Links(ip)
      BY <2>2, Zenon DEF Links
    <3>2. nlink[ip] > 0 /\ nlink[ip] \in Int
      BY <3>1, SomeLink, Zenon
    <3> QED BY <2>2, <3>2, HasType
  <2>4. /\ Valid(ip) /\ type' = type /\ ref' = ref
        /\ cwd' = cwd /\ file' = file /\ missed' = missed /\ panicked' = panicked
        /\ \/ nlink' = nlink /\ Put(p, a, ip)
           \/ /\ nlink' = [nlink EXCEPT ![dp] = IF type[ip] = "dir" THEN nlink[dp] - 1 ELSE nlink[dp]]
              /\ Put(p, b, dp)
    BY <2>2, <2>3, Zenon DEF unlink_entry
  <2>5. /\ DOMAIN a = DOMAIN Idle /\ a.put = None /\ a.st = "lock" /\ a.pc = "unlockdp"
        /\ a.path = t.path
        /\ DOMAIN b = DOMAIN Idle /\ b.put = None /\ b.st = "lock" /\ b.pc = "unlink3"
        /\ b.path = t.path /\ b.ip = t.ip
    BY <2>1, Now, UseNow, IdleFields, Zenon
  <2>6. /\ a.path \in Seq(Name \cup {"."}) /\ b.path \in Seq(Name \cup {"."}) /\ valid[dp]
        /\ file[p] \in Inum \cup {None} /\ type[cwd[p]] = "dir"
    BY <2>1, <2>2, <2>5, Zenon DEF UseInv, InUse
  <2>7. valid'[ip] /\ valid'[dp] /\ \A i \in Inum : valid[i] => valid'[i]
    BY <2>4, <2>6 DEF Valid, LinkInv, TreeType
  <2> HIDE DEF a, b
  <2>8. CASE nlink' = nlink /\ Put(p, a, ip)
    <3>1. a.pc # "unlink3" /\ (a.pc = "unlink2" => valid'[a.tgt]) /\ \E x : Valid(x)
      BY <2>4, <2>5, Zenon
    <3> QED BY <2>1, <2>4, <2>5, <2>6, <2>8, <3>1, UseQuiet, Zenon
  <2>9. CASE /\ nlink' = [nlink EXCEPT ![dp] = IF type[ip] = "dir" THEN nlink[dp] - 1 ELSE nlink[dp]]
             /\ Put(p, b, dp)
    <3>1. \A i \in Inum \ {dp} : nlink'[i] = nlink[i]
      BY <2>9, Zenon DEF LinkInv, TreeType
    <3>2. th'[p].put = dp /\ th'[p].st = "lock"
      BY <2>5, <2>9, PutFields, Zenon
    <3>3. Growing(p)
      BY <2>4, <2>7, <3>1, <3>2, GrowingLess, Zenon
    <3>4. (b.pc = "unlink2" => valid'[b.tgt]) /\ (b.pc = "unlink3" => valid'[b.ip])
      BY <2>2, <2>5, <2>7, Zenon
    <3>5. /\ \A q \in Proc \ {p} : cwd'[q] = cwd[q] /\ file'[q] = file[q]
          /\ file'[p] \in Inum \cup {None} /\ type'[cwd'[p]] = "dir"
      BY <2>4, <2>6, Zenon
    <3> QED BY <2>1, <2>4, <2>5, <2>6, <2>9, <3>3, <3>4, <3>5, UseGoes, Zenon
  <2> QED BY <2>4, <2>8, <2>9, Zenon
<1>18. ASSUME NEW p \in Proc, create(p) PROVE UseInv'
  <2> USE <1>18
  <2> DEFINE t == th[p]
             dp == t.ip
             free == {i \in Inum : type[i] = "free"}
             ip == Min(free)
             dir == t.op = "mkdir"
             r == [t EXCEPT !.ip = ip, !.pc = "made"]
  <2>1. /\ t.pc = t.op /\ t.op \in {"creat", "mkdir"} /\ t.put = None /\ free # {}
        /\ type' = [type EXCEPT ![ip] = IF dir THEN "dir" ELSE "file"]
        /\ nlink' = [nlink EXCEPT ![ip] = 1, ![dp] = IF dir THEN @ + 1 ELSE @]
        /\ valid' = [valid EXCEPT ![ip] = TRUE, ![dp] = TRUE]
        /\ iget(ip) /\ Put(p, r, dp) /\ cwd' = cwd /\ file' = file /\ missed' = missed
        /\ panicked' = panicked
    BY Zenon DEF create, At
  <2>2. ip \in Inum /\ type[ip] = "free"
    <3>1. ip \in free
      <4>1. free \in SUBSET (0 .. NInode) /\ NInode \in Nat
        BY InodeAssumption DEF Inum
      <4> HIDE DEF free
      <4> QED BY <2>1, <4>1, Zenon DEF Laws
    <3> HIDE DEF ip
    <3> QED BY <3>1, Zenon
  <2>3. t.pc \in InDir
    BY <2>1, Zenon DEF InDir
  <2>4. dp \in Inum /\ type[dp] = "dir" /\ ref[dp] > 0
    BY <2>3, UseDir, Zenon
  <2>5. /\ DOMAIN r = DOMAIN Idle /\ r.put = None /\ r.st = "lock" /\ r.pc = "made"
        /\ r.path = t.path
    BY <2>1, Now, UseNow, IdleFields, Zenon
  <2>6. /\ cwd[p] \in Inum /\ type[cwd[p]] = "dir" /\ file[p] \in Inum \cup {None}
        /\ r.path \in Seq(Name \cup {"."})
    BY <2>5, UseNow, Zenon
  <2> HIDE DEF ip, r, free
  <2>7. /\ type'[ip] # "free" /\ (\A x \in Inum \ {ip} : type'[x] = type[x])
        /\ nlink'[ip] = 1 /\ nlink'[dp] = (IF dir THEN nlink[dp] + 1 ELSE nlink[dp])
        /\ (\A x \in Inum \ {ip, dp} : nlink'[x] = nlink[x])
        /\ \A x \in Inum : valid[x] => valid'[x]
    BY <2>1, <2>2, <2>4, Zenon DEF LinkInv, TreeType
  <2>8. ref \in [Inum -> Int] /\ \A x \in Inum : ref'[x] = ref[x] + One(ip = x)
    BY <2>1, Here, Iget, Zenon
  <2>9. ASSUME NEW x \in Inum
        PROVE  /\ ref'[x] >= ref[x] /\ (ref'[x] > ref[x] => type'[x] # "free" /\ nlink'[x] # 0)
    BY <2>7, <2>8 DEF One
  <2>10. ASSUME NEW x \in Inum, nlink[x] # 0 PROVE nlink'[x] # 0
    <3>1. nlink[x] \in Nat
      BY NlinkNat, Zenon
    <3> QED BY <2>7, <2>10, <3>1
  <2>11. ASSUME NEW x \in Inum
         PROVE  /\ type[x] # "free" => type'[x] = type[x]
                /\ type[x] = "free" /\ type'[x] # "free" => nlink'[x] # 0
    BY <2>2, <2>7
  <2>12. Growing(p)
    BY <2>7, <2>9, <2>10, <2>11, Zenon DEF Growing
  <2>13. /\ \A q \in Proc \ {p} : cwd'[q] = cwd[q] /\ file'[q] = file[q]
         /\ file'[p] \in Inum \cup {None}
    BY <2>1, <2>6, Zenon
  <2>14. type'[cwd'[p]] = "dir"
    BY <2>1, <2>2, <2>6, <2>7, SMTT(60)
  <2>15. (r.pc = "unlink2" => valid'[r.tgt]) /\ (r.pc = "unlink3" => valid'[r.ip])
    BY <2>5, Zenon
  <2>16. PICK j \in Inum \cup {None} : Put(p, r, j)
    BY <2>1, <2>4, Zenon
  <2> QED BY <2>1, <2>5, <2>6, <2>12, <2>13, <2>14, <2>15, <2>16, UseGoes, Zenon
<1>19. ASSUME NEW p \in Proc, NEW new \in Path, link(p, new) PROVE UseInv'
  <2> USE <1>19
  <2>1. th[p].pc = "link" /\ th[p].put = None
    BY Zenon DEF link, At
  <2>2. PICK i \in Inum : i = th[p].ip
    BY <2>1, AtIp, Zenon
  <2> DEFINE r == Begun(p, "link2", new, i)
             s == Start(p, new)
  <2>3. /\ Valid(i) /\ type' = type /\ cwd' = cwd /\ file' = file /\ missed' = missed
        /\ panicked' = panicked
        /\ \/ Put(p, Idle, i) /\ nlink' = nlink /\ ref' = ref
           \/ nlink' = [nlink EXCEPT ![i] = nlink[i] + 1] /\ iget(s) /\ Go(p, r)
    BY <2>2, HasType, Zenon DEF link, Begin, Begun
  <2>4. /\ \A q \in Proc \ {p} : cwd'[q] = cwd[q] /\ file'[q] = file[q]
        /\ file'[p] \in Inum \cup {None} /\ type'[cwd'[p]] = "dir"
    BY <2>3, UseNow, Zenon
  <2>5. (\E x : Valid(x)) /\ \A x \in Inum : valid[x] => valid'[x]
    BY <2>3, Zenon DEF Valid, LinkInv, TreeType
  <2>6. CASE Put(p, Idle, i) /\ nlink' = nlink /\ ref' = ref
    BY <2>1, <2>3, <2>4, <2>5, <2>6, UseEnd, Zenon
  <2>7. CASE nlink' = [nlink EXCEPT ![i] = nlink[i] + 1] /\ iget(s) /\ Go(p, r)
    <3>1. r = Begun(p, "link2", new, i) /\ "link2" \in Ops
      BY Zenon DEF Ops
    <3> HIDE DEF r, s
    <3>2. /\ DOMAIN r = DOMAIN Idle /\ r.put = None /\ r.st = "lock"
          /\ r.path \in Seq(Name \cup {"."}) /\ r.pc \in Ops \cup {"walk"}
      BY <3>1, UseBegun, SMTT(60)
    <3>3. (r.pc = "unlink2" => valid'[r.tgt]) /\ (r.pc = "unlink3" => valid'[r.ip])
      BY <3>2, Zenon DEF Ops
    <3>4. ref \in [Inum -> Int] /\ \A x \in Inum : ref'[x] = ref[x] + One(s = x)
      BY <2>7, Here, Iget, Zenon
    <3>5. Usable(s)
      BY StartUsable, Zenon DEF s
    <3>6. ASSUME NEW x \in Inum, nlink[x] # 0 PROVE nlink'[x] # 0
      <4>1. nlink[x] \in Nat /\ nlink'[x] = IF x = i THEN nlink[x] + 1 ELSE nlink[x]
        BY <2>7, NlinkNat, Zenon DEF LinkInv, TreeType
      <4> QED BY <3>6, <4>1
    <3>7. ASSUME NEW x \in Inum
          PROVE  ref'[x] >= ref[x]
                 /\ (ref'[x] > ref[x] => type[x] # "free" /\ (ref[x] > 0 \/ nlink[x] # 0))
      BY <3>4, <3>5 DEF One, Usable
    <3>8. Growing(p)
      BY <2>3, <2>5, <3>6, <3>7, Zenon DEF Growing
    <3>9. \E j \in Inum \cup {None} : Go(p, r)
      BY <2>7, Zenon
    <3> QED BY <2>1, <2>3, <2>4, <3>2, <3>3, <3>8, <3>9, UseGoes, Zenon
  <2> QED BY <2>3, <2>6, <2>7, Zenon
<1>20. ASSUME NEW p \in Proc, Step(p) PROVE UseInv'
  BY <1>20, <1>2, <1>3, <1>13, <1>4, <1>10, <1>18, <1>6, <1>5,
     <1>7, <1>11, <1>17, <1>15, <1>9, <1>19, <1>12, <1>16,
     <1>8, Zenon
     DEF Step
<1>21. ASSUME NEW p \in Proc, Call(p) PROVE UseInv'
  BY <1>21, <1>14, <1>7, Zenon DEF Call
<1> QED BY <1>1, <1>20, <1>21, Zenon DEF Next

LEMMA UseInit ==
  ASSUME Init
  PROVE  UseInv
<1>1. /\ type = [i \in Inum |-> IF i = Root THEN "dir" ELSE "free"]
      /\ nlink = [i \in Inum |-> IF i = Root THEN 1 ELSE 0]
      /\ cwd = [p \in Proc |-> Root] /\ file = [p \in Proc |-> None]
      /\ th = [p \in Proc |-> Idle] /\ ~panicked
  BY Zenon DEF Init
<1>2. Root \in Inum /\ None \notin Inum
  BY InodeAssumption DEF Root, Inum, None
<1>3. ASSUME NEW p \in Proc PROVE InUse(p)
  <2>1. /\ th[p].pc = "idle" /\ th[p].ip = None /\ th[p].tgt = None /\ th[p].put = None
        /\ th[p].st = "lock" /\ th[p].path = <<>> /\ file[p] = None /\ cwd[p] = Root
    BY <1>1, Zenon DEF Idle
  <2>2. type[Root] = "dir"
    BY <1>1, <1>2, Zenon
  <2>3. \A i \in Inum : Holds(p, i) => i = Root
    BY <1>2, <2>1, Zenon DEF Holds
  <2> QED BY <2>1, <2>2, <2>3 DEF InUse
<1>4. ASSUME NEW i \in Inum PROVE NoLinks(i)
  BY <1>1, <1>2 DEF NoLinks
<1> QED BY <1>1, <1>3, <1>4, Zenon DEF UseInv

-----------------------------------------------------------------------------
INSTANCE NumberFacts

LEMMA LawsHold == Laws
<1>1. \A S : IsFiniteSet(S) => Cardinality(S) \in Nat /\ (Cardinality(S) = 0 <=> S = {})
  BY FS_CardinalityType, FS_EmptySet, Zenon
<1>2. \A S : IsFiniteSet(S) => \A T \in SUBSET S : IsFiniteSet(T) /\ Cardinality(T) <= Cardinality(S)
  BY FS_Subset, Zenon
<1>3. \A S, x : IsFiniteSet(S) =>
       /\ IsFiniteSet(S \cup {x}) /\ IsFiniteSet(S \ {x})
       /\ Cardinality(S \cup {x}) = IF x \in S THEN Cardinality(S) ELSE Cardinality(S) + 1
       /\ Cardinality(S \ {x}) = IF x \in S THEN Cardinality(S) - 1 ELSE Cardinality(S)
  BY FS_AddElement, FS_RemoveElement, Zenon
<1>4. \A S, T : IsFiniteSet(S) /\ IsFiniteSet(T) => IsFiniteSet(S \X T)
  BY FS_Product, Zenon
<1>5. \A a, b \in Int : IsFiniteSet(a .. b)
  BY FS_Interval, Zenon
<1>6. \A N \in Nat : \A S \in SUBSET (0 .. N) : S # {} => Min(S) \in S
  BY MinIsLeast, Zenon
<1> QED BY <1>1, <1>2, <1>3, <1>4, <1>5, <1>6, Zenon DEF Laws

\* However the system calls of the processes interleave, and whatever the
\* paths, ip->ref is the number of pointers to the inode (iget, idup and
\* iput of fs.c and their callers in sysfile.c): none is leaked and none is
\* dropped twice.
THEOREM ReferencesCount == Spec => []RefsArePointers
<1>1. Init => PointerInv
  BY LawsHold, PointersInit, Zenon
<1>2. PointerInv /\ [Next]_vars => PointerInv'
  BY LawsHold, PointersStep, Zenon
<1>3. PointerInv => RefsArePointers
  BY Zenon DEF PointerInv
<1> QED BY <1>1, <1>2, <1>3, PTL DEF Spec

\* However the system calls of the processes interleave, no entry of a
\* directory leads to a freed inode, and the link count of an inode covers
\* the entries that lead to it (create, sys_link and sys_unlink of sysfile.c,
\* iput of fs.c): a link is counted before its entry is written and uncounted
\* after its entry is erased, and the ".." of a subdirectory is counted too.
THEOREM EntriesCount == Spec => []EntriesAreLinks
<1>1. Init => PointerInv /\ LinkInv
  BY LawsHold, PointersInit, LinkInit, Zenon
<1>2. PointerInv /\ LinkInv /\ [Next]_vars => PointerInv' /\ LinkInv'
  BY LawsHold, PointersStep, LinkNext, Zenon
<1>3. LinkInv => EntriesAreLinks
  BY LawsHold, LinksCount, Zenon
<1> QED BY <1>1, <1>2, <1>3, PTL DEF Spec

\* As long as no path goes up through "..", an inode is freed exactly when it
\* is unused, however the system calls interleave (iput of fs.c, and ilock,
\* which panics on a freed inode): what a process has open, stands in or is
\* about to lock keeps its type, and an inode without links has a process
\* left to free it, unless two last iputs overlapped (fs.c:336).
THEOREM FreedExactly ==
  ASSUME NoDotDot
  PROVE  Spec => []FreedWhenUnused
<1>1. Init => PointerInv /\ LinkInv /\ UseInv
  BY LawsHold, PointersInit, LinkInit, UseInit, Zenon
<1>2. PointerInv /\ LinkInv /\ UseInv /\ [Next]_vars => PointerInv' /\ LinkInv' /\ UseInv'
  BY LawsHold, PointersStep, LinkNext, UseNext, Zenon
<1>3. UseInv => FreedWhenUnused
  BY UseFreed, Zenon
<1> QED BY <1>1, <1>2, <1>3, PTL DEF Spec
=============================================================================
