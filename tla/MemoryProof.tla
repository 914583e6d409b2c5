---------------------------- MODULE MemoryProof -----------------------------
(***************************************************************************)
(* For every number of frames, processes and CPUs and for every page size, *)
(* image and size of the tables: no frame is lost or used twice, what the  *)
(* pointer checks let through is mapped, the boot order is safe, and no    *)
(* step of vm.c, fork or exec panics.                                      *)
(***************************************************************************)
EXTENDS Memory, TLAPS

-----------------------------------------------------------------------------
(* Sizes and pages.                                                        *)

\* The pages below page number a.
Below(a) == {j \in Pages : j < a}

\* What the constants and the address space are.
LEMMA SizeTypes ==
  /\ PGSIZE \in Nat /\ PGSIZE > 0 /\ UPAGES \in Nat /\ UPAGES > 0 /\ KTABS \in Nat
  /\ NPTE \in Nat /\ NPTE > 0
  /\ KERNBASE \in Nat /\ KERNBASE > 0 /\ WORD = KERNBASE + KERNBASE /\ WORD \in Nat
<1>1. PGSIZE \in Nat /\ PGSIZE > 0 /\ UPAGES \in Nat /\ UPAGES > 0 /\ KTABS \in Nat
      /\ NPTE \in Nat /\ NPTE > 0
  BY MemoryAssumption
<1>2. UPAGES * PGSIZE \in Nat /\ UPAGES * PGSIZE > 0
  BY <1>1
<1> QED BY <1>1, <1>2 DEF KERNBASE, WORD

\* Products keep the order.
LEMMA TimesMonotone ==
  ASSUME NEW b \in Nat, NEW x \in Int, NEW y \in Int, x <= y
  PROVE  x * b <= y * b
<1>1. (y - x) * b >= 0
  <2>1. y - x \in Nat
    OBVIOUS
  <2> QED BY <2>1
<1>2. (y - x) * b = y * b - x * b /\ x * b \in Int /\ y * b \in Int
  OBVIOUS
<1> QED BY <1>1, <1>2

\* PGROUNDUP rounds up: the pages that begin below s are those before
\* PGROUNDUP(s), and an address below s lies on one of them.
LEMMA RoundUp ==
  ASSUME NEW s \in Nat
  PROVE  /\ PGROUNDUP(s) \in Nat
         /\ \A j \in Int : j * PGSIZE < s <=> j < PGROUNDUP(s)
<1> DEFINE R == PGROUNDUP(s)
           m == (s + PGSIZE - 1) % PGSIZE
<1>1. R \in Int /\ m \in 0 .. PGSIZE - 1 /\ s + PGSIZE - 1 = PGSIZE * R + m
  BY SizeTypes DEF PGROUNDUP
<1>2. R * PGSIZE >= s /\ (R - 1) * PGSIZE < s
  <2>1. PGSIZE * R = R * PGSIZE /\ (R - 1) * PGSIZE = R * PGSIZE - PGSIZE
    BY <1>1, SizeTypes
  <2>2. R * PGSIZE \in Int
    BY <1>1, SizeTypes
  <2> HIDE DEF R, m
  <2> QED BY <1>1, <2>1, <2>2, SizeTypes
<1> HIDE DEF R, m
<1>3. R >= 0
  <2>1. SUFFICES ASSUME R <= -1 PROVE FALSE
    BY <1>1
  <2>2. R * PGSIZE <= (-1) * PGSIZE
    BY <1>1, <2>1, SizeTypes, TimesMonotone
  <2> QED BY <1>1, <1>2, <2>2, SizeTypes
<1>4. ASSUME NEW j \in Int PROVE j * PGSIZE < s <=> j < R
  <2>1. CASE j < R
    <3>1. j * PGSIZE <= (R - 1) * PGSIZE
      BY <1>1, <2>1, SizeTypes, TimesMonotone
    <3> QED BY <1>1, <1>2, <2>1, <3>1, SizeTypes
  <2>2. CASE j >= R
    <3>1. R * PGSIZE <= j * PGSIZE
      BY <1>1, <2>2, SizeTypes, TimesMonotone, Zenon
    <3> QED BY <1>1, <1>2, <2>2, <3>1, SizeTypes
  <2> QED BY <1>1, <2>1, <2>2
<1> QED BY <1>1, <1>3, <1>4 DEF R

\* The pages of an image of s bytes, as page numbers.
LEMMA CoveredIsBelow ==
  ASSUME NEW s \in Nat
  PROVE  Covered(s) = Below(PGROUNDUP(s))
<1>1. \A j \in Pages : j \in Int
  BY SizeTypes DEF Pages
<1> QED BY <1>1, RoundUp, Zenon DEF Covered, Below

\* A size in the user half has no page above it, and larger sizes have more.
LEMMA RoundUpBounds ==
  ASSUME NEW s \in Nat
  PROVE  /\ s <= KERNBASE => PGROUNDUP(s) <= UPAGES
         /\ \A t \in Nat : s <= t => PGROUNDUP(s) <= PGROUNDUP(t)
         /\ PGROUNDUP(0) = 0
<1>1. ASSUME s <= KERNBASE PROVE PGROUNDUP(s) <= UPAGES
  <2>1. ~(UPAGES * PGSIZE < s) /\ UPAGES \in Int
    BY <1>1, SizeTypes DEF KERNBASE
  <2> QED BY <2>1, RoundUp
<1>2. ASSUME NEW t \in Nat, s <= t PROVE PGROUNDUP(s) <= PGROUNDUP(t)
  <2>1. ~(PGROUNDUP(t) * PGSIZE < t)
    BY RoundUp
  <2>2. PGROUNDUP(t) \in Int /\ PGROUNDUP(t) * PGSIZE \in Int
    BY RoundUp, SizeTypes
  <2>3. ~(PGROUNDUP(t) * PGSIZE < s)
    BY <1>2, <2>1, <2>2
  <2>4. ~(PGROUNDUP(t) < PGROUNDUP(s))
    BY <2>2, <2>3, RoundUp, Zenon
  <2> QED BY <2>2, <2>4, RoundUp
<1>3. PGROUNDUP(0) = 0
  <2>1. 0 * PGSIZE = 0
    BY SizeTypes
  <2>2. ~(0 < PGROUNDUP(0)) /\ PGROUNDUP(0) \in Nat
    BY <2>1, RoundUp
  <2> QED BY <2>2
<1> QED BY <1>1, <1>2, <1>3, Zenon

\* A loop of vm.c over the pages below lim, at page a: it goes on, or is done.
LEMMA LoopNext ==
  ASSUME NEW a \in Nat, NEW lim \in Nat, a * PGSIZE < lim, lim <= KERNBASE
  PROVE  a < PGROUNDUP(lim) /\ a < UPAGES /\ PGROUNDUP(lim) \in Nat /\ a + 1 <= PGROUNDUP(lim)
<1>1. a < PGROUNDUP(lim) /\ PGROUNDUP(lim) \in Nat
  BY RoundUp
<1>2. PGROUNDUP(lim) <= UPAGES /\ UPAGES \in Nat
  BY RoundUpBounds, SizeTypes, Zenon
<1> DEFINE R == PGROUNDUP(lim)
<1> HIDE DEF R
<1> QED BY <1>1, <1>2 DEF R

\* The loop has mapped everything when it ends.
LEMMA LoopEnd ==
  ASSUME NEW a \in Nat, NEW lim \in Nat, a * PGSIZE >= lim, a <= PGROUNDUP(lim)
  PROVE  a = PGROUNDUP(lim)
<1>1. a * PGSIZE \in Nat
  BY SizeTypes
<1>2. ~(a * PGSIZE < lim)
  BY <1>1
<1>3. ~(a < PGROUNDUP(lim)) /\ PGROUNDUP(lim) \in Nat
  BY <1>2, RoundUp
<1> QED BY <1>3

\* Rounding up a size that is a whole number of pages changes nothing.
LEMMA RoundUpWhole ==
  ASSUME NEW k \in Nat
  PROVE  k * PGSIZE \in Nat /\ PGROUNDUP(k * PGSIZE) = k
<1> DEFINE s == k * PGSIZE
<1>1. s \in Nat
  BY SizeTypes
<1>2. ~(k * PGSIZE < s)
  BY <1>1
<1>3. (k - 1) * PGSIZE < s
  BY SizeTypes
<1> HIDE DEF s
<1>4. ~(k < PGROUNDUP(s)) /\ k - 1 < PGROUNDUP(s) /\ PGROUNDUP(s) \in Nat
  BY <1>1, <1>2, <1>3, RoundUp
<1>5. PGROUNDUP(s) = k
  BY <1>4
<1> QED BY <1>1, <1>5, Zenon DEF s

\* An address below s lies on a page of the image.
LEMMA PageOfAddress ==
  ASSUME NEW s \in Nat, s <= KERNBASE, NEW x \in Nat, x < s
  PROVE  x \div PGSIZE \in Below(PGROUNDUP(s))
<1> DEFINE d == x \div PGSIZE
           m == x % PGSIZE
<1>1. d \in Int /\ m \in 0 .. PGSIZE - 1 /\ x = PGSIZE * d + m
  BY SizeTypes
<1>2. PGSIZE * d = d * PGSIZE /\ d * PGSIZE \in Int
  BY <1>1, SizeTypes
<1> HIDE DEF d, m
<1>3. d * PGSIZE < s
  BY <1>1, <1>2, SizeTypes
<1>4. d < PGROUNDUP(s)
  BY <1>1, <1>3, RoundUp, Zenon
<1>5. d >= 0
  <2>1. SUFFICES ASSUME d <= -1 PROVE FALSE
    BY <1>1
  <2>2. d * PGSIZE <= (-1) * PGSIZE
    BY <1>1, <2>1, SizeTypes, TimesMonotone
  <2> QED BY <1>1, <1>2, <2>2, SizeTypes
<1>6. PGROUNDUP(s) <= UPAGES
  BY RoundUpBounds, Zenon
<1>7. d \in Pages
  BY <1>1, <1>4, <1>5, <1>6, RoundUp, SizeTypes DEF Pages
<1> QED BY <1>4, <1>7, Zenon DEF Below, d

-----------------------------------------------------------------------------
(* Entries of a page table, and the places that hold frames.               *)

\* A page of the user half has an entry of its own and a page table page.
LEMMA PageEntries ==
  ASSUME NEW j \in Pages
  PROVE  /\ Pte(j) \in Entry /\ Tab(PDX(j)) \in Entry /\ Pte(j) # Tab(PDX(j))
         /\ \A k \in Pages : Pte(j) = Pte(k) => j = k
<1>1. PDX(j) \in 0 .. UTABS - 1
  <2> DEFINE d == j \div NPTE
             m == j % NPTE
             u == UPAGES - 1
             du == u \div NPTE
             mu == u % NPTE
  <2>1. d \in Int /\ m \in 0 .. NPTE - 1 /\ j = NPTE * d + m /\ j \in Nat /\ j <= u
    BY SizeTypes DEF Pages
  <2>2. du \in Int /\ mu \in 0 .. NPTE - 1 /\ u = NPTE * du + mu
    BY SizeTypes
  <2>3. NPTE * d = d * NPTE /\ NPTE * du = du * NPTE /\ d * NPTE \in Int /\ du * NPTE \in Int
    BY <2>1, <2>2, SizeTypes
  <2>4. UTABS = du + 1
    BY Zenon DEF UTABS, PDX
  <2>5. PDX(j) = d
    BY Zenon DEF PDX
  <2> HIDE DEF d, m, u, du, mu
  <2>6. d >= 0
    <3>1. SUFFICES ASSUME d <= -1 PROVE FALSE
      BY <2>1
    <3>2. d * NPTE <= (-1) * NPTE
      BY <2>1, <3>1, SizeTypes, TimesMonotone
    <3> QED BY <2>1, <2>3, <3>2, SizeTypes
  <2>7. d <= du
    <3>1. SUFFICES ASSUME du + 1 <= d PROVE FALSE
      BY <2>1, <2>2
    <3>2. (du + 1) * NPTE <= d * NPTE
      BY <2>1, <2>2, <3>1, SizeTypes, TimesMonotone
    <3>3. (du + 1) * NPTE = du * NPTE + NPTE
      BY <2>2, SizeTypes
    <3> QED BY <2>1, <2>2, <2>3, <3>2, <3>3, SizeTypes
  <2> QED BY <2>1, <2>2, <2>4, <2>5, <2>6, <2>7
<1>2. UTABS \in Int
  BY SizeTypes DEF UTABS, PDX
<1>3. PDX(j) \in 0 .. UTABS + KTABS - 1
  BY <1>1, <1>2, SizeTypes
<1> HIDE DEF PDX
<1>4. Tab(PDX(j)) \in Entry /\ Pte(j) \in Entry
  BY <1>3, Zenon DEF Entry
<1> QED BY <1>4, Zenon DEF Pte, Tab

\* setupkvm's entries are entries, each used once, and not of user pages.
LEMMA KernelEntries ==
  ASSUME NEW i \in 0 .. KTABS
  PROVE  /\ KvmEntry(i) \in Entry
         /\ \A k \in 0 .. KTABS : KvmEntry(i) = KvmEntry(k) => i = k
         /\ \A j \in Pages : KvmEntry(i) # Pte(j)
<1>1. UTABS \in Nat
  <2>1. UPAGES - 1 \in Nat
    BY SizeTypes
  <2>2. (UPAGES - 1) \div NPTE \in Nat
    BY <2>1, SizeTypes
  <2> QED BY <2>2 DEF UTABS, PDX
<1>2. i = 0 \/ UTABS + i - 1 \in 0 .. UTABS + KTABS - 1
  BY <1>1, SizeTypes
<1>3. KvmEntry(i) \in Entry
  BY <1>2, Zenon DEF KvmEntry, Entry
<1>4. ASSUME NEW k \in 0 .. KTABS, KvmEntry(i) = KvmEntry(k) PROVE i = k
  BY <1>1, <1>4, SizeTypes DEF KvmEntry, Dir, Tab
<1>5. \A j \in Pages : KvmEntry(i) # Pte(j)
  BY Zenon DEF KvmEntry, Dir, Tab, Pte
<1> QED BY <1>3, <1>4, <1>5, Zenon

InKstack(p) == <<"kstack", p, Dir>>
InPgdir(p, e) == <<"pgdir", p, e>>
InNew(p, e) == <<"new", p, e>>
InApstack(c) == <<"apstack", c, Dir>>
InSlot == <<"slot", 0, Dir>>
InKpgdir(e) == <<"kpgdir", 0, e>>

\* What the places hold, for given values of the variables.
HeldAt(x, ks, pg, nw, as, sl, kp) ==
  CASE x[1] = "kstack" -> ks[x[2]]
    [] x[1] = "pgdir" -> pg[x[2]][x[3]]
    [] x[1] = "new" -> nw[x[2]][x[3]]
    [] x[1] = "apstack" -> as[x[2]]
    [] x[1] = "slot" -> sl
    [] x[1] = "kpgdir" -> kp[x[3]]
Holding(ks, pg, nw, as, sl, kp) == [x \in Place |-> HeldAt(x, ks, pg, nw, as, sl, kp)]

\* The kinds of places.
LEMMA Places ==
  /\ \A p \in Proc : InKstack(p) \in Place
  /\ \A p \in Proc, e \in Entry : InPgdir(p, e) \in Place /\ InNew(p, e) \in Place
  /\ \A c \in AP : InApstack(c) \in Place
  /\ \A e \in Entry : InKpgdir(e) \in Place
  /\ InSlot \in Place
<1> QED BY Zenon DEF Place, InKstack, InPgdir, InNew, InApstack, InSlot, InKpgdir

\* There are no others.
LEMMA PlaceKinds ==
  ASSUME NEW x \in Place
  PROVE  \/ \E p \in Proc : x = InKstack(p)
         \/ \E p \in Proc, e \in Entry : x = InPgdir(p, e)
         \/ \E p \in Proc, e \in Entry : x = InNew(p, e)
         \/ \E c \in AP : x = InApstack(c)
         \/ \E e \in Entry : x = InKpgdir(e)
         \/ x = InSlot
<1> QED BY DEF Place, InKstack, InPgdir, InNew, InApstack, InSlot, InKpgdir

\* Two places are the same only if they are of one kind, owner and entry.
LEMMA PlacesDiffer ==
  ASSUME NEW p, NEW q, NEW d, NEW e
  PROVE  /\ InKstack(p) = InKstack(q) => p = q
         /\ InPgdir(p, d) = InPgdir(q, e) => p = q /\ d = e
         /\ InNew(p, d) = InNew(q, e) => p = q /\ d = e
         /\ InApstack(p) = InApstack(q) => p = q
         /\ InKpgdir(d) = InKpgdir(e) => d = e
         /\ InKstack(p) \notin {InPgdir(q, e), InNew(q, e), InApstack(q), InKpgdir(e), InSlot}
         /\ InPgdir(p, d) \notin {InNew(q, e), InApstack(q), InKpgdir(e), InSlot}
         /\ InNew(p, d) \notin {InApstack(q), InKpgdir(e), InSlot}
         /\ InApstack(p) \notin {InKpgdir(e), InSlot}
         /\ InKpgdir(d) # InSlot
<1> QED BY Zenon DEF InKstack, InPgdir, InNew, InApstack, InSlot, InKpgdir

\* H says for each kind of place what it holds.
Shows(H, ks, pg, nw, as, sl, kp) ==
  /\ \A p \in Proc : H[InKstack(p)] = ks[p]
  /\ \A p \in Proc, e \in Entry : H[InPgdir(p, e)] = pg[p][e]
  /\ \A p \in Proc, e \in Entry : H[InNew(p, e)] = nw[p][e]
  /\ \A c \in AP : H[InApstack(c)] = as[c]
  /\ \A e \in Entry : H[InKpgdir(e)] = kp[e]
  /\ H[InSlot] = sl

\* Holding does.
LEMMA HoldingShows ==
  ASSUME NEW ks, NEW pg, NEW nw, NEW as, NEW sl, NEW kp
  PROVE  Shows(Holding(ks, pg, nw, as, sl, kp), ks, pg, nw, as, sl, kp)
<1> DEFINE H == Holding(ks, pg, nw, as, sl, kp)
<1>1. \A p \in Proc : H[InKstack(p)] = ks[p]
  BY Places, Zenon DEF Holding, HeldAt, InKstack
<1>2. \A p \in Proc, e \in Entry : H[InPgdir(p, e)] = pg[p][e]
  BY Places, Zenon DEF Holding, HeldAt, InPgdir
<1>3. \A p \in Proc, e \in Entry : H[InNew(p, e)] = nw[p][e]
  BY Places, Zenon DEF Holding, HeldAt, InNew
<1>4. \A c \in AP : H[InApstack(c)] = as[c]
  BY Places, Zenon DEF Holding, HeldAt, InApstack
<1>5. \A e \in Entry : H[InKpgdir(e)] = kp[e]
  BY Places, Zenon DEF Holding, HeldAt, InKpgdir
<1>6. H[InSlot] = sl
  BY Places, Zenon DEF Holding, HeldAt, InSlot
<1> QED BY <1>1, <1>2, <1>3, <1>4, <1>5, <1>6, Zenon DEF Shows

-----------------------------------------------------------------------------
(* Accounts: of the frames A, those of F are free, and every other is in   *)
(* exactly one place.                                                      *)

Accounted(H, F, A) ==
  /\ H \in [Place -> A \union {0}] /\ F \subseteq A
  /\ \A x, y \in Place : H[x] = H[y] /\ H[x] # 0 => x = y
  /\ \A x \in Place : H[x] \notin F
  /\ \A f \in A : f \in F \/ \E x \in Place : H[x] = f

\* A place that holds nothing takes a free frame.
LEMMA Take ==
  ASSUME NEW A, 0 \notin A, NEW H, NEW F, Accounted(H, F, A),
         NEW G, G = [y \in Place |-> G[y]],
         NEW x \in Place, H[x] = 0, NEW f \in F, G[x] = f,
         \A y \in Place : y # x => G[y] = H[y]
  PROVE  Accounted(G, F \ {f}, A)
<1>1. G \in [Place -> A \union {0}] /\ F \ {f} \subseteq A /\ f # 0
  BY Zenon DEF Accounted
<1>2. ASSUME NEW y \in Place, NEW z \in Place, G[y] = G[z], G[y] # 0 PROVE y = z
  BY <1>2 DEF Accounted
<1>3. \A y \in Place : G[y] \notin F \ {f}
  BY Zenon DEF Accounted
<1>4. ASSUME NEW g \in A PROVE g \in F \ {f} \/ \E y \in Place : G[y] = g
  <2>1. CASE g = f
    BY <2>1, Zenon
  <2>2. CASE g # f /\ g \notin F
    <3>1. PICK y \in Place : H[y] = g
      BY <2>2, Zenon DEF Accounted
    <3> QED BY <3>1, Zenon
  <2> QED BY <2>1, <2>2, Zenon
<1> QED BY <1>1, <1>2, <1>3, <1>4, Zenon DEF Accounted

\* The places of S give up what they hold.
LEMMA Give ==
  ASSUME NEW A, 0 \notin A, NEW H, NEW F, Accounted(H, F, A),
         NEW G, G = [y \in Place |-> G[y]],
         NEW S \in SUBSET Place, \A y \in Place : G[y] = IF y \in S THEN 0 ELSE H[y]
  PROVE  Accounted(G, F \union ({H[y] : y \in S} \ {0}), A)
<1> DEFINE E == F \union ({H[y] : y \in S} \ {0})
<1>1. G \in [Place -> A \union {0}] /\ E \subseteq A
  BY DEF Accounted
<1>2. ASSUME NEW y \in Place, NEW z \in Place, G[y] = G[z], G[y] # 0 PROVE y = z
  BY <1>2, Zenon DEF Accounted
<1>3. ASSUME NEW y \in Place PROVE G[y] \notin E
  <2>1. CASE y \in S
    BY <1>1, <2>1, Zenon DEF Accounted
  <2>2. CASE y \notin S
    BY <2>2 DEF Accounted
  <2> QED BY <2>1, <2>2, Zenon
<1>4. ASSUME NEW g \in A PROVE g \in E \/ \E y \in Place : G[y] = g
  <2>1. CASE g \notin F
    <3>1. PICK y \in Place : H[y] = g
      BY <2>1, Zenon DEF Accounted
    <3> QED BY <3>1, Zenon
  <2> QED BY <2>1, Zenon
<1> HIDE DEF E
<1>5. Accounted(G, E, A)
  BY <1>1, <1>2, <1>3, <1>4, Zenon DEF Accounted
<1> QED BY <1>5, Zenon DEF E

\* Places exchange what they hold.
LEMMA Exchange ==
  ASSUME NEW A, NEW H, NEW F, Accounted(H, F, A),
         NEW G, G = [y \in Place |-> G[y]],
         NEW m \in [Place -> Place], \A x \in Place : m[m[x]] = x /\ G[x] = H[m[x]]
  PROVE  Accounted(G, F, A)
<1>1. G \in [Place -> A \union {0}] /\ F \subseteq A
  BY Zenon DEF Accounted
<1>2. ASSUME NEW y \in Place, NEW z \in Place, G[y] = G[z], G[y] # 0 PROVE y = z
  <2>1. m[y] = m[z]
    BY <1>2 DEF Accounted
  <2> QED BY <2>1, Zenon
<1>3. \A y \in Place : G[y] \notin F
  BY Zenon DEF Accounted
<1>4. ASSUME NEW g \in A, g \notin F PROVE \E y \in Place : G[y] = g
  <2>1. PICK y \in Place : H[y] = g
    BY <1>4, Zenon DEF Accounted
  <2> QED BY <2>1
<1> QED BY <1>1, <1>2, <1>3, <1>4, Zenon DEF Accounted

\* allocproc: a kernel stack for p.
LEMMA TakeKstack ==
  ASSUME NEW ks \in [Proc -> Frame \union {0}], NEW pg, NEW nw, NEW as, NEW sl, NEW kp,
         NEW A, 0 \notin A, NEW F, NEW f \in F, NEW p \in Proc, ks[p] = 0,
         Accounted(Holding(ks, pg, nw, as, sl, kp), F, A)
  PROVE  Accounted(Holding([ks EXCEPT ![p] = f], pg, nw, as, sl, kp), F \ {f}, A)
<1> DEFINE H == Holding(ks, pg, nw, as, sl, kp)
           G == Holding([ks EXCEPT ![p] = f], pg, nw, as, sl, kp)
<1>1. Shows(H, ks, pg, nw, as, sl, kp)
  BY HoldingShows, Zenon
<1>2. Shows(G, [ks EXCEPT ![p] = f], pg, nw, as, sl, kp)
  BY HoldingShows, Zenon
<1>3. Accounted(H, F, A)
  BY Zenon
<1> HIDE DEF H, G
<1>4. InKstack(p) \in Place /\ H[InKstack(p)] = 0 /\ G[InKstack(p)] = f
  BY <1>1, <1>2, Places, Zenon DEF Shows
<1>5. ASSUME NEW y \in Place, y # InKstack(p) PROVE G[y] = H[y]
  <2>1. CASE y[1] = "kstack"
    <3>1. y[2] \in Proc /\ y[2] # p
      BY <1>5, <2>1 DEF Place, InKstack
    <3> QED BY <2>1, <3>1, Zenon DEF G, H, Holding, HeldAt
  <2>2. CASE y[1] # "kstack"
    BY <2>2, Zenon DEF G, H, Holding, HeldAt, Place
  <2> QED BY <2>1, <2>2, Zenon
<1>6. G = [y \in Place |-> G[y]]
  BY Zenon DEF G, Holding
<1>7. Accounted(G, F \ {f}, A)
  BY <1>3, <1>4, <1>5, <1>6, Take
<1> QED BY <1>7, Zenon DEF G

\* A frame for entry e of p's page table.
LEMMA TakePgdir ==
  ASSUME NEW ks, NEW pg \in [Proc -> [Entry -> Frame \union {0}]], NEW nw, NEW as, NEW sl, NEW kp,
         NEW A, 0 \notin A, NEW F, NEW f \in F, NEW p \in Proc, NEW e \in Entry, pg[p][e] = 0,
         Accounted(Holding(ks, pg, nw, as, sl, kp), F, A)
  PROVE  Accounted(Holding(ks, [pg EXCEPT ![p] = [pg[p] EXCEPT ![e] = f]], nw, as, sl, kp), F \ {f}, A)
<1> DEFINE H == Holding(ks, pg, nw, as, sl, kp)
           G == Holding(ks, [pg EXCEPT ![p] = [pg[p] EXCEPT ![e] = f]], nw, as, sl, kp)
<1>1. Shows(H, ks, pg, nw, as, sl, kp)
  BY HoldingShows, Zenon
<1>2. Shows(G, ks, [pg EXCEPT ![p] = [pg[p] EXCEPT ![e] = f]], nw, as, sl, kp)
  BY HoldingShows, Zenon
<1>3. Accounted(H, F, A)
  BY Zenon
<1> HIDE DEF H, G
<1>4. InPgdir(p, e) \in Place /\ H[InPgdir(p, e)] = 0 /\ G[InPgdir(p, e)] = f
  BY <1>1, <1>2, Places DEF Shows
<1>5. ASSUME NEW y \in Place, y # InPgdir(p, e) PROVE G[y] = H[y]
  BY <1>5 DEF G, H, Holding, HeldAt, Place, InPgdir
<1>6. G = [y \in Place |-> G[y]]
  BY Zenon DEF G, Holding
<1>7. Accounted(G, F \ {f}, A)
  BY <1>3, <1>4, <1>5, <1>6, Take
<1> QED BY <1>7, Zenon DEF G

\* A frame for entry e of the table that p is building.
LEMMA TakeNew ==
  ASSUME NEW ks, NEW pg, NEW nw \in [Proc -> [Entry -> Frame \union {0}]], NEW as, NEW sl, NEW kp,
         NEW A, 0 \notin A, NEW F, NEW f \in F, NEW p \in Proc, NEW e \in Entry, nw[p][e] = 0,
         Accounted(Holding(ks, pg, nw, as, sl, kp), F, A)
  PROVE  Accounted(Holding(ks, pg, [nw EXCEPT ![p] = [nw[p] EXCEPT ![e] = f]], as, sl, kp), F \ {f}, A)
<1> DEFINE H == Holding(ks, pg, nw, as, sl, kp)
           G == Holding(ks, pg, [nw EXCEPT ![p] = [nw[p] EXCEPT ![e] = f]], as, sl, kp)
<1>1. Shows(H, ks, pg, nw, as, sl, kp)
  BY HoldingShows, Zenon
<1>2. Shows(G, ks, pg, [nw EXCEPT ![p] = [nw[p] EXCEPT ![e] = f]], as, sl, kp)
  BY HoldingShows, Zenon
<1>3. Accounted(H, F, A)
  BY Zenon
<1> HIDE DEF H, G
<1>4. InNew(p, e) \in Place /\ H[InNew(p, e)] = 0 /\ G[InNew(p, e)] = f
  BY <1>1, <1>2, Places DEF Shows
<1>5. ASSUME NEW y \in Place, y # InNew(p, e) PROVE G[y] = H[y]
  BY <1>5 DEF G, H, Holding, HeldAt, Place, InNew
<1>6. G = [y \in Place |-> G[y]]
  BY Zenon DEF G, Holding
<1>7. Accounted(G, F \ {f}, A)
  BY <1>3, <1>4, <1>5, <1>6, Take
<1> QED BY <1>7, Zenon DEF G

\* A frame for entry e of kpgdir.
LEMMA TakeKpgdir ==
  ASSUME NEW ks, NEW pg, NEW nw, NEW as, NEW sl, NEW kp \in [Entry -> Frame \union {0}],
         NEW A, 0 \notin A, NEW F, NEW f \in F, NEW e \in Entry, kp[e] = 0,
         Accounted(Holding(ks, pg, nw, as, sl, kp), F, A)
  PROVE  Accounted(Holding(ks, pg, nw, as, sl, [kp EXCEPT ![e] = f]), F \ {f}, A)
<1> DEFINE H == Holding(ks, pg, nw, as, sl, kp)
           G == Holding(ks, pg, nw, as, sl, [kp EXCEPT ![e] = f])
<1>1. Shows(H, ks, pg, nw, as, sl, kp)
  BY HoldingShows, Zenon
<1>2. Shows(G, ks, pg, nw, as, sl, [kp EXCEPT ![e] = f])
  BY HoldingShows, Zenon
<1>3. Accounted(H, F, A)
  BY Zenon
<1> HIDE DEF H, G
<1>4. InKpgdir(e) \in Place /\ H[InKpgdir(e)] = 0 /\ G[InKpgdir(e)] = f
  BY <1>1, <1>2, Places, Zenon DEF Shows
<1>5. ASSUME NEW y \in Place, y # InKpgdir(e) PROVE G[y] = H[y]
  BY <1>5 DEF G, H, Holding, HeldAt, Place, InKpgdir
<1>6. G = [y \in Place |-> G[y]]
  BY Zenon DEF G, Holding
<1>7. Accounted(G, F \ {f}, A)
  BY <1>3, <1>4, <1>5, <1>6, Take
<1> QED BY <1>7, Zenon DEF G

\* startothers: the stack of the CPU that starts.
LEMMA TakeSlot ==
  ASSUME NEW ks, NEW pg, NEW nw, NEW as, NEW sl, NEW kp,
         NEW A, 0 \notin A, NEW F, NEW f \in F, sl = 0,
         Accounted(Holding(ks, pg, nw, as, sl, kp), F, A)
  PROVE  Accounted(Holding(ks, pg, nw, as, f, kp), F \ {f}, A)
<1> DEFINE H == Holding(ks, pg, nw, as, sl, kp)
           G == Holding(ks, pg, nw, as, f, kp)
<1>1. Shows(H, ks, pg, nw, as, sl, kp)
  BY HoldingShows, Zenon
<1>2. Shows(G, ks, pg, nw, as, f, kp)
  BY HoldingShows, Zenon
<1>3. Accounted(H, F, A)
  BY Zenon
<1> HIDE DEF H, G
<1>4. InSlot \in Place /\ H[InSlot] = 0 /\ G[InSlot] = f
  BY <1>1, <1>2, Places, Zenon DEF Shows
<1>5. ASSUME NEW y \in Place, y # InSlot PROVE G[y] = H[y]
  BY <1>5 DEF G, H, Holding, HeldAt, Place, InSlot
<1>6. G = [y \in Place |-> G[y]]
  BY Zenon DEF G, Holding
<1>7. Accounted(G, F \ {f}, A)
  BY <1>3, <1>4, <1>5, <1>6, Take
<1> QED BY <1>7, Zenon DEF G

\* The kernel stack of p is freed.
LEMMA GiveKstack ==
  ASSUME NEW ks \in [Proc -> Frame \union {0}], NEW pg, NEW nw, NEW as, NEW sl, NEW kp,
         NEW A, 0 \notin A, NEW F, NEW p \in Proc, ks[p] # 0,
         Accounted(Holding(ks, pg, nw, as, sl, kp), F, A)
  PROVE  Accounted(Holding([ks EXCEPT ![p] = 0], pg, nw, as, sl, kp), F \union {ks[p]}, A)
<1> DEFINE H == Holding(ks, pg, nw, as, sl, kp)
           G == Holding([ks EXCEPT ![p] = 0], pg, nw, as, sl, kp)
           S == {InKstack(p)}
<1>1. Shows(H, ks, pg, nw, as, sl, kp)
  BY HoldingShows, Zenon
<1>2. Shows(G, [ks EXCEPT ![p] = 0], pg, nw, as, sl, kp)
  BY HoldingShows, Zenon
<1>3. Accounted(H, F, A)
  BY Zenon
<1> HIDE DEF H, G
<1>4. InKstack(p) \in Place /\ H[InKstack(p)] = ks[p] /\ G[InKstack(p)] = 0
  BY <1>1, <1>2, Places, Zenon DEF Shows
<1>5. ASSUME NEW y \in Place, y # InKstack(p) PROVE G[y] = H[y]
  <2>1. CASE y[1] = "kstack"
    <3>1. y[2] \in Proc /\ y[2] # p
      BY <1>5, <2>1 DEF Place, InKstack
    <3> QED BY <2>1, <3>1, Zenon DEF G, H, Holding, HeldAt
  <2>2. CASE y[1] # "kstack"
    BY <2>2, Zenon DEF G, H, Holding, HeldAt, Place
  <2> QED BY <2>1, <2>2, Zenon
<1>6. G = [y \in Place |-> G[y]]
  BY Zenon DEF G, Holding
<1>7. S \in SUBSET Place /\ \A y \in Place : G[y] = IF y \in S THEN 0 ELSE H[y]
  BY <1>4, <1>5, Zenon
<1>8. {H[y] : y \in S} \ {0} = {ks[p]}
  BY <1>4, Zenon
<1> HIDE DEF S
<1>9. Accounted(G, F \union ({H[y] : y \in S} \ {0}), A)
  BY <1>3, <1>6, <1>7, Give, Zenon
<1> QED BY <1>8, <1>9, Zenon DEF G

\* freevm of the table that p is building.
LEMMA GiveNew ==
  ASSUME NEW ks, NEW pg, NEW nw \in [Proc -> [Entry -> Frame \union {0}]], NEW as, NEW sl, NEW kp,
         NEW A, 0 \notin A, NEW F, NEW p \in Proc,
         Accounted(Holding(ks, pg, nw, as, sl, kp), F, A)
  PROVE  Accounted(Holding(ks, pg, [nw EXCEPT ![p] = NoTable], as, sl, kp),
                   F \union FramesOf(nw[p]), A)
<1> DEFINE H == Holding(ks, pg, nw, as, sl, kp)
           G == Holding(ks, pg, [nw EXCEPT ![p] = NoTable], as, sl, kp)
           S == {InNew(p, e) : e \in Entry}
<1>1. Shows(H, ks, pg, nw, as, sl, kp)
  BY HoldingShows, Zenon
<1>2. Shows(G, ks, pg, [nw EXCEPT ![p] = NoTable], as, sl, kp)
  BY HoldingShows, Zenon
<1>3. Accounted(H, F, A)
  BY Zenon
<1> HIDE DEF H, G
<1>4. \A e \in Entry : InNew(p, e) \in Place /\ H[InNew(p, e)] = nw[p][e] /\ G[InNew(p, e)] = 0
  BY <1>1, <1>2, Places, Zenon DEF Shows, NoTable
<1>5. ASSUME NEW y \in Place, y \notin S PROVE G[y] = H[y]
  <2>1. CASE y[1] = "new"
    <3>1. y[2] \in Proc /\ y[2] # p
      BY <1>5, <2>1 DEF Place, InNew
    <3> QED BY <2>1, <3>1, Zenon DEF G, H, Holding, HeldAt
  <2>2. CASE y[1] # "new"
    BY <2>2, Zenon DEF G, H, Holding, HeldAt, Place
  <2> QED BY <2>1, <2>2, Zenon
<1>6. G = [y \in Place |-> G[y]]
  BY Zenon DEF G, Holding
<1>7. S \in SUBSET Place /\ \A y \in Place : G[y] = IF y \in S THEN 0 ELSE H[y]
  BY <1>4, <1>5, Zenon
<1>8. {H[y] : y \in S} \ {0} = FramesOf(nw[p])
  BY <1>4 DEF FramesOf
<1> HIDE DEF S
<1>9. Accounted(G, F \union ({H[y] : y \in S} \ {0}), A)
  BY <1>3, <1>6, <1>7, Give
<1> QED BY <1>8, <1>9, Zenon DEF G

\* deallocuvm and freevm: p's page table becomes t, which lost some entries.
LEMMA GivePgdir ==
  ASSUME NEW ks, NEW pg \in [Proc -> [Entry -> Frame \union {0}]], NEW nw, NEW as, NEW sl, NEW kp,
         NEW A, 0 \notin A, NEW F, NEW p \in Proc,
         NEW t \in [Entry -> Frame \union {0}], \A e \in Entry : t[e] = 0 \/ t[e] = pg[p][e],
         Accounted(Holding(ks, pg, nw, as, sl, kp), F, A)
  PROVE  Accounted(Holding(ks, [pg EXCEPT ![p] = t], nw, as, sl, kp),
                   F \union (FramesOf(pg[p]) \ FramesOf(t)), A)
<1> DEFINE H == Holding(ks, pg, nw, as, sl, kp)
           G == Holding(ks, [pg EXCEPT ![p] = t], nw, as, sl, kp)
           S == {InPgdir(p, e) : e \in {d \in Entry : t[d] = 0}}
<1>1. Shows(H, ks, pg, nw, as, sl, kp)
  BY HoldingShows, Zenon
<1>2. Shows(G, ks, [pg EXCEPT ![p] = t], nw, as, sl, kp)
  BY HoldingShows, Zenon
<1>3. Accounted(H, F, A)
  BY Zenon
<1> HIDE DEF H, G
<1>4. \A e \in Entry : InPgdir(p, e) \in Place /\ H[InPgdir(p, e)] = pg[p][e] /\ G[InPgdir(p, e)] = t[e]
  BY <1>1, <1>2, Places DEF Shows
<1>5. ASSUME NEW y \in Place, y \notin S PROVE G[y] = H[y]
  <2>1. CASE y[1] = "pgdir" /\ y[2] = p
    <3>1. y[3] \in Entry /\ y = InPgdir(p, y[3])
      BY <2>1 DEF Place, InPgdir
    <3>2. t[y[3]] # 0
      BY <1>5, <3>1, Zenon
    <3> QED BY <1>4, <3>1, <3>2
  <2>2. CASE y[1] = "pgdir" /\ y[2] # p
    <3>1. y[2] \in Proc
      BY <2>2, Zenon DEF Place
    <3> QED BY <2>2, <3>1, Zenon DEF G, H, Holding, HeldAt
  <2>3. CASE y[1] # "pgdir"
    BY <2>3, Zenon DEF G, H, Holding, HeldAt, Place
  <2> QED BY <2>1, <2>2, <2>3, Zenon
<1>6. G = [y \in Place |-> G[y]]
  BY Zenon DEF G, Holding
<1>7. S \in SUBSET Place /\ \A y \in Place : G[y] = IF y \in S THEN 0 ELSE H[y]
  BY <1>4, <1>5, Zenon
<1>8. {H[y] : y \in S} \ {0} = FramesOf(pg[p]) \ FramesOf(t)
  <2>1. {H[y] : y \in S} = {pg[p][e] : e \in {d \in Entry : t[d] = 0}}
    BY <1>4
  <2>2. ASSUME NEW e \in Entry, t[e] = 0, pg[p][e] # 0, NEW d \in Entry PROVE t[d] # pg[p][e]
    <3>1. SUFFICES ASSUME t[d] = pg[p][e] PROVE FALSE
      BY Zenon
    <3>2. pg[p][d] = pg[p][e]
      BY <2>2, <3>1, Zenon
    <3>3. InPgdir(p, d) = InPgdir(p, e)
      BY <1>3, <1>4, <2>2, <3>2 DEF Accounted
    <3> QED BY <2>2, <3>1, <3>3, Zenon DEF InPgdir
  <2>3. ASSUME NEW e \in Entry, pg[p][e] \notin FramesOf(t), pg[p][e] # 0 PROVE t[e] = 0
    BY <2>3, Zenon DEF FramesOf
  <2>4. ASSUME NEW f \in {H[y] : y \in S} \ {0} PROVE f \in FramesOf(pg[p]) \ FramesOf(t)
    <3>1. PICK e \in Entry : t[e] = 0 /\ f = pg[p][e]
      BY <2>1, Zenon
    <3>2. pg[p] \in [Entry -> Frame \union {0}]
      BY Zenon
    <3>3. f # 0
      BY Zenon
    <3>4. f \in FramesOf(pg[p])
      BY <3>1, <3>2, <3>3, Zenon DEF FramesOf
    <3>5. f \notin FramesOf(t)
      BY <2>2, <3>1, <3>3, Zenon DEF FramesOf
    <3> QED BY <3>4, <3>5, Zenon
  <2>5. ASSUME NEW f \in FramesOf(pg[p]) \ FramesOf(t) PROVE f \in {H[y] : y \in S} \ {0}
    <3>1. PICK e \in Entry : f = pg[p][e] /\ f # 0
      BY Zenon DEF FramesOf
    <3>2. t[e] = 0
      BY <2>3, <3>1, Zenon
    <3> QED BY <2>1, <3>1, <3>2, Zenon
  <2> QED BY <2>4, <2>5, Zenon
<1> HIDE DEF S
<1>9. Accounted(G, F \union ({H[y] : y \in S} \ {0}), A)
  BY <1>3, <1>6, <1>7, Give
<1> QED BY <1>8, <1>9, Zenon DEF G

\* The table that p has built becomes q's page table.
LEMMA MoveTable ==
  ASSUME NEW ks, NEW pg \in [Proc -> [Entry -> Frame \union {0}]],
         NEW nw \in [Proc -> [Entry -> Frame \union {0}]], NEW as, NEW sl, NEW kp,
         NEW A, NEW F, NEW p \in Proc, NEW q \in Proc, pg[q] = NoTable,
         Accounted(Holding(ks, pg, nw, as, sl, kp), F, A)
  PROVE  Accounted(Holding(ks, [pg EXCEPT ![q] = nw[p]], [nw EXCEPT ![p] = NoTable], as, sl, kp), F, A)
<1> DEFINE H == Holding(ks, pg, nw, as, sl, kp)
           G == Holding(ks, [pg EXCEPT ![q] = nw[p]], [nw EXCEPT ![p] = NoTable], as, sl, kp)
           Mate(x) == IF x[1] = "new" /\ x[2] = p THEN InPgdir(q, x[3])
                      ELSE IF x[1] = "pgdir" /\ x[2] = q THEN InNew(p, x[3]) ELSE x
           m == [x \in Place |-> Mate(x)]
<1>1. Shows(H, ks, pg, nw, as, sl, kp)
  BY HoldingShows, Zenon
<1>2. Shows(G, ks, [pg EXCEPT ![q] = nw[p]], [nw EXCEPT ![p] = NoTable], as, sl, kp)
  BY HoldingShows, Zenon
<1>3. Accounted(H, F, A)
  BY Zenon
<1>4. G = [y \in Place |-> G[y]]
  BY Zenon DEF Holding
<1> HIDE DEF H, G, m
<1>5. \A e \in Entry : /\ InNew(p, e) \in Place /\ InPgdir(q, e) \in Place
                       /\ m[InNew(p, e)] = InPgdir(q, e) /\ m[InPgdir(q, e)] = InNew(p, e)
  BY Places, Zenon DEF m, InNew, InPgdir
<1>6. \A e \in Entry : /\ G[InNew(p, e)] = H[InPgdir(q, e)]
                       /\ G[InPgdir(q, e)] = H[InNew(p, e)]
  BY <1>1, <1>2 DEF Shows, NoTable
<1>7. ASSUME NEW x \in Place PROVE m[x] \in Place /\ m[m[x]] = x /\ G[x] = H[m[x]]
  <2>1. CASE x[1] = "new" /\ x[2] = p
    <3>1. x[3] \in Entry /\ x = InNew(p, x[3])
      BY <2>1 DEF Place, InNew
    <3> QED BY <1>5, <1>6, <3>1, Zenon
  <2>2. CASE x[1] = "pgdir" /\ x[2] = q
    <3>1. x[3] \in Entry /\ x = InPgdir(q, x[3])
      BY <2>2 DEF Place, InPgdir
    <3> QED BY <1>5, <1>6, <3>1, Zenon
  <2>3. CASE ~(x[1] = "new" /\ x[2] = p) /\ ~(x[1] = "pgdir" /\ x[2] = q)
    <3>1. m[x] = x
      BY <2>3, Zenon DEF m
    <3>2. G[x] = H[x]
      BY <2>3, Zenon DEF G, H, Holding, HeldAt, Place
    <3> QED BY <3>1, <3>2, Zenon
  <2> QED BY <2>1, <2>2, <2>3, Zenon
<1>8. m \in [Place -> Place]
  <2>1. m = [x \in Place |-> m[x]]
    BY Zenon DEF m
  <2> QED BY <1>7, <2>1, Zenon
<1>9. \A x \in Place : m[m[x]] = x /\ G[x] = H[m[x]]
  BY <1>7, Zenon
<1>10. Accounted(G, F, A)
  BY <1>3, <1>4, <1>8, <1>9, Exchange, SMTT(60)
<1> QED BY <1>10, Zenon DEF G

\* mpenter: the stack in code-4 becomes the stack of CPU c.
LEMMA MoveStack ==
  ASSUME NEW ks, NEW pg, NEW nw, NEW as \in [AP -> Frame \union {0}], NEW sl, NEW kp,
         NEW A, NEW F, NEW c \in AP, as[c] = 0,
         Accounted(Holding(ks, pg, nw, as, sl, kp), F, A)
  PROVE  Accounted(Holding(ks, pg, nw, [as EXCEPT ![c] = sl], 0, kp), F, A)
<1> DEFINE H == Holding(ks, pg, nw, as, sl, kp)
           G == Holding(ks, pg, nw, [as EXCEPT ![c] = sl], 0, kp)
           m == [x \in Place |-> IF x = InSlot THEN InApstack(c)
                                 ELSE IF x = InApstack(c) THEN InSlot ELSE x]
<1>1. Shows(H, ks, pg, nw, as, sl, kp)
  BY HoldingShows, Zenon
<1>2. Shows(G, ks, pg, nw, [as EXCEPT ![c] = sl], 0, kp)
  BY HoldingShows, Zenon
<1>3. Accounted(H, F, A)
  BY Zenon
<1>4. G = [y \in Place |-> G[y]]
  BY Zenon DEF Holding
<1> HIDE DEF H, G
<1>5. InSlot \in Place /\ InApstack(c) \in Place /\ InSlot # InApstack(c)
  BY Places, Zenon DEF InSlot, InApstack
<1>6. G[InSlot] = H[InApstack(c)] /\ G[InApstack(c)] = H[InSlot]
  BY <1>1, <1>2, Zenon DEF Shows
<1>7. ASSUME NEW x \in Place, x # InSlot, x # InApstack(c) PROVE G[x] = H[x]
  BY <1>7 DEF G, H, Holding, HeldAt, Place, InSlot, InApstack
<1>8. m \in [Place -> Place] /\ \A x \in Place : m[m[x]] = x /\ G[x] = H[m[x]]
  BY <1>5, <1>6, <1>7, Zenon
<1> HIDE DEF m
<1>9. Accounted(G, F, A)
  BY <1>3, <1>4, <1>8, Exchange
<1> QED BY <1>9, Zenon DEF G

\* The frame kalloc pops is free, and is a low one when all are.
LEMMA KallocIsFree ==
  ASSUME NEW S, S # {}
  PROVE  kalloc(S) \in S
<1>1. \E f \in S : f \in Low => S \subseteq Low
  BY Zenon
<1> QED BY <1>1, Zenon DEF kalloc

-----------------------------------------------------------------------------
(* Tables.                                                                 *)

Table == [Entry -> Frame \union {0}]

\* mappages maps page j and leaves the other pages alone.
LEMMA MapTable ==
  ASSUME NEW t \in Table, free \subseteq Frame, NEW j \in Pages, CanMap(t, j)
  PROVE  mappages(t, j) \in Table /\ Mapped(mappages(t, j)) = Mapped(t) \union {j}
<1> DEFINE f == kalloc(free)
           g == kalloc(free \ {f})
           u == mappages(t, j)
<1>1. f \in free /\ (walkpgdirAllocates(t, j) => g \in free)
  BY KallocIsFree, Zenon DEF CanMap
<1>2. Pte(j) \in Entry /\ Tab(PDX(j)) \in Entry /\ f # 0
  BY <1>1, PageEntries, MemoryAssumption, Zenon
<1> HIDE DEF f, g
<1>3. u = [t EXCEPT ![Pte(j)] = f,
                    ![Tab(PDX(j))] = IF walkpgdirAllocates(t, j) THEN g ELSE @]
  BY Zenon DEF mappages, f, g
<1> HIDE DEF u
<1>4. u \in Table
  BY <1>1, <1>2, <1>3, Zenon DEF Table
<1>5. u[Pte(j)] = f
  BY <1>2, <1>3, PageEntries, Zenon DEF Table
<1>6. ASSUME NEW k \in Pages, k # j PROVE u[Pte(k)] = t[Pte(k)]
  <2>1. Pte(k) \in Entry /\ Pte(k) # Pte(j) /\ Pte(k) # Tab(PDX(j))
    BY <1>6, PageEntries, Zenon DEF Pte, Tab
  <2> QED BY <1>3, <2>1, Zenon DEF Table
<1>7. Mapped(u) = Mapped(t) \union {j}
  BY <1>2, <1>5, <1>6, Zenon DEF Mapped
<1> QED BY <1>4, <1>7, Zenon DEF u

\* One more page at the end of the pages below a.
LEMMA MapNext ==
  ASSUME NEW t \in Table, free \subseteq Frame, NEW a \in Nat, a < UPAGES,
         Mapped(t) = Below(a)
  PROVE  /\ a \in Pages /\ t[Pte(a)] = 0
         /\ CanMap(t, a) => Mapped(mappages(t, a)) = Below(a + 1)
<1>1. a \in Pages /\ \A j \in Pages : j \in Nat
  BY SizeTypes DEF Pages
<1>2. a \notin Mapped(t)
  BY <1>1 DEF Below
<1>3. t[Pte(a)] = 0
  BY <1>1, <1>2, Zenon DEF Mapped
<1>4. Below(a) \union {a} = Below(a + 1)
  <2>1. \A j \in Pages : j < a + 1 <=> j < a \/ j = a
    BY <1>1
  <2> QED BY <1>1, <2>1, Zenon DEF Below
<1> QED BY <1>1, <1>3, <1>4, MapTable, Zenon

\* deallocuvm from oldsz to newsz leaves the pages of newsz.
LEMMA DeallocTable ==
  ASSUME NEW t \in Table, NEW oldsz \in Nat, NEW newsz \in Nat, NEW a \in Nat,
         a <= PGROUNDUP(oldsz), PGROUNDUP(newsz) <= a, Mapped(t) = Below(a)
  PROVE  /\ deallocuvm(t, oldsz, newsz) \in Table
         /\ Mapped(deallocuvm(t, oldsz, newsz)) = Covered(newsz)
         /\ \A e \in Entry : \/ deallocuvm(t, oldsz, newsz)[e] = 0
                             \/ deallocuvm(t, oldsz, newsz)[e] = t[e]
<1> DEFINE u == deallocuvm(t, oldsz, newsz)
           D == Dropped(oldsz, newsz)
<1>1. u = [e \in Entry |-> IF \E j \in D : e = Pte(j) THEN 0 ELSE t[e]]
  BY Zenon DEF deallocuvm
<1>2. u \in Table /\ \A e \in Entry : u[e] = 0 \/ u[e] = t[e]
  BY <1>1, Zenon DEF Table
<1>3. \A j \in Pages : j \in D <=> PGROUNDUP(newsz) <= j /\ j < PGROUNDUP(oldsz)
  <2>1. \A j \in Pages : j \in Int
    BY SizeTypes DEF Pages
  <2> QED BY <2>1, RoundUp, Zenon DEF Dropped
<1> HIDE DEF D, u
<1>4. ASSUME NEW j \in Pages PROVE u[Pte(j)] = IF j \in D THEN 0 ELSE t[Pte(j)]
  <2>1. Pte(j) \in Entry /\ \A k \in Pages : Pte(j) = Pte(k) => j = k
    BY PageEntries, Zenon
  <2>2. D \subseteq Pages
    BY Zenon DEF D, Dropped
  <2> QED BY <1>1, <2>1, <2>2, Zenon
<1>5. \A j \in Pages : j \in Mapped(u) <=> j \in Mapped(t) /\ j \notin D
  BY <1>4, Zenon DEF Mapped
<1>6. \A j \in Pages : j \in Nat
  BY SizeTypes DEF Pages
<1>7. Mapped(u) = Below(PGROUNDUP(newsz))
  <2>1. \A j \in Pages : j \in Mapped(u) <=> j < PGROUNDUP(newsz)
    BY <1>3, <1>5, <1>6, RoundUp DEF Below
  <2>2. Mapped(u) \subseteq Pages
    BY Zenon DEF Mapped
  <2> QED BY <2>1, <2>2, Zenon DEF Below
<1> QED BY <1>2, <1>7, CoveredIsBelow, Zenon DEF u

\* A page and, if it has to be allocated, a page table page for p's table.
LEMMA MapPgdir ==
  ASSUME NEW ks, NEW pg \in [Proc -> Table], NEW nw, NEW as, NEW sl, NEW kp,
         NEW A, 0 \notin A, NEW p \in Proc, NEW j \in Pages,
         pg[p][Pte(j)] = 0, CanMap(pg[p], j), free \subseteq Frame,
         Accounted(Holding(ks, pg, nw, as, sl, kp), free, A)
  PROVE  Accounted(Holding(ks, [pg EXCEPT ![p] = mappages(pg[p], j)], nw, as, sl, kp),
                   free \ MapFrames(pg[p], j), A)
<1> DEFINE f == kalloc(free)
           g == kalloc(free \ {f})
           t == pg[p]
           t1 == [t EXCEPT ![Pte(j)] = f]
           pg1 == [pg EXCEPT ![p] = t1]
<1>1. f \in free /\ (walkpgdirAllocates(t, j) => g \in free \ {f})
  BY KallocIsFree, Zenon DEF CanMap
<1>2. Pte(j) \in Entry /\ Tab(PDX(j)) \in Entry /\ Pte(j) # Tab(PDX(j))
  BY PageEntries, Zenon
<1>3. t \in Table /\ t1 \in Table /\ pg1 \in [Proc -> Table] /\ pg1[p] = t1
  BY <1>1, <1>2, Zenon DEF Table
<1>4. Accounted(Holding(ks, pg1, nw, as, sl, kp), free \ {f}, A)
  BY <1>1, <1>2, TakePgdir, Zenon DEF Table
<1>5. mappages(t, j) = [t EXCEPT ![Pte(j)] = f,
                    ![Tab(PDX(j))] = IF walkpgdirAllocates(t, j) THEN g ELSE @]
  BY Zenon DEF mappages
<1>6. MapFrames(t, j) = {f} \union IF walkpgdirAllocates(t, j) THEN {g} ELSE {}
  BY Zenon DEF MapFrames
<1>7. CASE ~walkpgdirAllocates(t, j)
  <2>1. mappages(t, j) = t1 /\ MapFrames(t, j) = {f}
    BY <1>2, <1>3, <1>5, <1>6, <1>7, Zenon DEF Table
  <2> QED BY <1>4, <2>1, Zenon
<1>8. CASE walkpgdirAllocates(t, j)
  <2> DEFINE t2 == [t1 EXCEPT ![Tab(PDX(j))] = g]
  <2>1. pg1[p][Tab(PDX(j))] = 0
    BY <1>2, <1>3, <1>8, Zenon DEF walkpgdirAllocates, Table
  <2>2. [pg1 EXCEPT ![p] = [pg1[p] EXCEPT ![Tab(PDX(j))] = g]] = [pg EXCEPT ![p] = t2]
    BY <1>3, Zenon
  <2>3. mappages(t, j) = t2
    BY <1>2, <1>3, <1>5, <1>8, Zenon DEF Table
  <2>4. free \ MapFrames(t, j) = (free \ {f}) \ {g} /\ g \in free \ {f}
    BY <1>1, <1>6, <1>8, Zenon
  <2> HIDE DEF f, g, pg1, t1
  <2>5. Accounted(Holding(ks, [pg1 EXCEPT ![p] = [pg1[p] EXCEPT ![Tab(PDX(j))] = g]],
                          nw, as, sl, kp), (free \ {f}) \ {g}, A)
    BY <1>2, <1>3, <1>4, <2>1, <2>4, TakePgdir, Zenon DEF Table
  <2> QED BY <2>2, <2>3, <2>4, <2>5, Zenon
<1> QED BY <1>7, <1>8, Zenon

\* A page and, if it has to be allocated, a page table page for the table p builds.
LEMMA MapNew ==
  ASSUME NEW ks, NEW pg, NEW nw \in [Proc -> Table], NEW as, NEW sl, NEW kp,
         NEW A, 0 \notin A, NEW p \in Proc, NEW j \in Pages,
         nw[p][Pte(j)] = 0, CanMap(nw[p], j), free \subseteq Frame,
         Accounted(Holding(ks, pg, nw, as, sl, kp), free, A)
  PROVE  Accounted(Holding(ks, pg, [nw EXCEPT ![p] = mappages(nw[p], j)], as, sl, kp),
                   free \ MapFrames(nw[p], j), A)
<1> DEFINE f == kalloc(free)
           g == kalloc(free \ {f})
           t == nw[p]
           t1 == [t EXCEPT ![Pte(j)] = f]
           nw1 == [nw EXCEPT ![p] = t1]
<1>1. f \in free /\ (walkpgdirAllocates(t, j) => g \in free \ {f})
  BY KallocIsFree, Zenon DEF CanMap
<1>2. Pte(j) \in Entry /\ Tab(PDX(j)) \in Entry /\ Pte(j) # Tab(PDX(j))
  BY PageEntries, Zenon
<1>3. t \in Table /\ t1 \in Table /\ nw1 \in [Proc -> Table] /\ nw1[p] = t1
  BY <1>1, <1>2, Zenon DEF Table
<1>4. Accounted(Holding(ks, pg, nw1, as, sl, kp), free \ {f}, A)
  BY <1>1, <1>2, TakeNew, Zenon DEF Table
<1>5. mappages(t, j) = [t EXCEPT ![Pte(j)] = f,
                    ![Tab(PDX(j))] = IF walkpgdirAllocates(t, j) THEN g ELSE @]
  BY Zenon DEF mappages
<1>6. MapFrames(t, j) = {f} \union IF walkpgdirAllocates(t, j) THEN {g} ELSE {}
  BY Zenon DEF MapFrames
<1>7. CASE ~walkpgdirAllocates(t, j)
  <2>1. mappages(t, j) = t1 /\ MapFrames(t, j) = {f}
    BY <1>2, <1>3, <1>5, <1>6, <1>7, Zenon DEF Table
  <2> QED BY <1>4, <2>1, Zenon
<1>8. CASE walkpgdirAllocates(t, j)
  <2> DEFINE t2 == [t1 EXCEPT ![Tab(PDX(j))] = g]
  <2>1. nw1[p][Tab(PDX(j))] = 0
    BY <1>2, <1>3, <1>8, Zenon DEF walkpgdirAllocates, Table
  <2>2. [nw1 EXCEPT ![p] = [nw1[p] EXCEPT ![Tab(PDX(j))] = g]] = [nw EXCEPT ![p] = t2]
    BY <1>3, Zenon
  <2>3. mappages(t, j) = t2
    BY <1>2, <1>3, <1>5, <1>8, Zenon DEF Table
  <2>4. free \ MapFrames(t, j) = (free \ {f}) \ {g} /\ g \in free \ {f}
    BY <1>1, <1>6, <1>8, Zenon
  <2> HIDE DEF f, g, nw1, t1
  <2>5. Accounted(Holding(ks, pg, [nw1 EXCEPT ![p] = [nw1[p] EXCEPT ![Tab(PDX(j))] = g]],
                          as, sl, kp), (free \ {f}) \ {g}, A)
    BY <1>2, <1>3, <1>4, <2>1, <2>4, TakeNew, Zenon DEF Table
  <2> QED BY <2>2, <2>3, <2>4, <2>5, Zenon
<1> QED BY <1>7, <1>8, Zenon

-----------------------------------------------------------------------------
(* The inductive invariant.                                                *)

\* setupkvm has filled the entries before the i-th of table n, and no other.
KvmBuilt(n, i) ==
  /\ i <= KTABS + 1
  /\ \A e \in Entry : n[e] # 0 => \E k \in 0 .. KTABS : k < i /\ e = KvmEntry(k)

\* What a process in a system call knows of its size s, its page table t, the
\* table n it builds and its locals l, at label c.
CallOK(s, t, c, n, l) ==
  /\ c = "user" => n = NoTable /\ l = Idle
  /\ c = "grow" => /\ n = NoTable /\ Mapped(t) = Below(l.a)
                   /\ PGROUNDUP(s) <= l.a /\ l.a <= PGROUNDUP(l.lim)
                   /\ s < l.lim /\ l.lim < KERNBASE
  /\ c \in {"kvmfork", "kvmexec"} => KvmBuilt(n, l.a)
  /\ c = "kvmexec" => l.esz = 0
  /\ c = "copy" => Mapped(n) = Below(l.a) /\ l.a <= PGROUNDUP(s)
  /\ c = "load" => Mapped(n) = Covered(l.esz) /\ l.esz < KERNBASE
  /\ c \in {"seg", "stack"} => /\ Mapped(n) = Below(l.a)
                               /\ l.a <= PGROUNDUP(l.lim) /\ l.lim < KERNBASE
  /\ c = "seg" => /\ l.segs # <<>>
                  /\ Head(l.segs).vaddr + Head(l.segs).filesz <= l.lim

\* A process in state st with kernel stack ks: it has a stack from allocproc
\* to wait, and outside growproc exactly the pages of its size, unless
\* sbrk(-sz) took them all.
ProcOK(st, ks, s, t, c, n, l) ==
  /\ st = "UNUSED" => ks = 0 /\ t = NoTable
  /\ st # "UNUSED" => ks # 0
  /\ st = "EMBRYO" => Mapped(t) = {}
  /\ st # "LIVE" => c = "user"
  /\ st = "LIVE" => s <= KERNBASE
  /\ st = "LIVE" /\ c # "grow" => Mapped(t) = Covered(s) \/ (c = "user" /\ Mapped(t) = {})
  /\ CallOK(s, t, c, n, l)

Procs == \A p \in Proc : ProcOK(state[p], kstack[p], sz[p], pgdir[p], pc[p], new[p], loc[p])

\* Whoever forks has a child of its own, which has no table yet.
Forking(p) == pc[p] \in {"kvmfork", "copy"}
Forks ==
  \A p \in Proc : Forking(p) =>
    /\ state[loc[p].np] = "EMBRYO" /\ pgdir[loc[p].np] = NoTable
    /\ \A q \in Proc : Forking(q) /\ loc[q].np = loc[p].np => q = p

\* The boot CPU starts one CPU after the other, each with a stack, and the
\* first process is the last thing it makes.
Booting ==
  /\ use_lock <=> boot \in {"userinit", "sched"}
  /\ boot # "sched" => \A p \in Proc : state[p] \in {"UNUSED", "EMBRYO"}
  /\ Starting => boot = "startothers" /\ slot # 0
  /\ \A c, d \in AP : ap[c] = "starting" /\ ap[d] = "starting" => c = d
  /\ \A c \in AP : ap[c] = "up" <=> apstack[c] # 0

Stack == IF Starting THEN slot ELSE 0
Accounts == Accounted(Holding(kstack, pgdir, new, apstack, Stack, kpgdir), free, Managed)

MInv == TypeOK /\ Procs /\ Forks /\ Booting /\ Accounts /\ NoPanic

\* One process: what Procs says of it.
POK(p) == ProcOK(state[p], kstack[p], sz[p], pgdir[p], pc[p], new[p], loc[p])

Same(r) == /\ state'[r] = state[r] /\ kstack'[r] = kstack[r] /\ sz'[r] = sz[r]
           /\ pgdir'[r] = pgdir[r] /\ pc'[r] = pc[r] /\ new'[r] = new[r] /\ loc'[r] = loc[r]

\* A process that a step does not touch stays as it was.
LEMMA OthersKept ==
  ASSUME Procs, NEW p \in Proc, NEW q \in Proc, \A r \in Proc : r # p /\ r # q => Same(r),
         POK(p)', POK(q)'
  PROVE  Procs'
<1>1. ASSUME NEW r \in Proc PROVE POK(r)'
  <2>1. CASE r = p \/ r = q
    BY <2>1, Zenon
  <2>2. CASE r # p /\ r # q
    <3>1. POK(r)
      BY Zenon DEF Procs, POK
    <3> QED BY <2>2, <3>1, Zenon DEF POK, Same
  <2> QED BY <2>1, <2>2, Zenon
<1> QED BY <1>1, Zenon DEF Procs, POK

\* The same for a step of one process.
LEMMA OneKept ==
  ASSUME MInv, NEW p \in Proc, \A r \in Proc \ {p} : Same(r), POK(p)'
  PROVE  Procs'
<1>1. \A r \in Proc : r # p /\ r # p => Same(r)
  BY Zenon
<1> QED BY <1>1, OthersKept, Zenon DEF MInv

\* No fork begins, and no child is touched.
LEMMA ForksKept ==
  ASSUME TypeOK, Forks,
         \A r \in Proc : Forking(r)' => Forking(r) /\ loc'[r].np = loc[r].np,
         \A r \in Proc : state[r] = "EMBRYO" => state'[r] = "EMBRYO" /\ pgdir'[r] = pgdir[r]
  PROVE  Forks'
<1> SUFFICES ASSUME NEW p \in Proc, Forking(p)'
             PROVE  /\ state'[loc'[p].np] = "EMBRYO" /\ pgdir'[loc'[p].np] = NoTable
                    /\ \A q \in Proc : Forking(q)' /\ loc'[q].np = loc'[p].np => q = p
  BY Zenon DEF Forks
<1>1. Forking(p) /\ loc'[p].np = loc[p].np /\ loc[p].np \in Proc
  BY Zenon DEF TypeOK
<1>2. state[loc[p].np] = "EMBRYO" /\ pgdir[loc[p].np] = NoTable
  BY <1>1, Zenon DEF Forks
<1>3. ASSUME NEW q \in Proc, Forking(q)', loc'[q].np = loc'[p].np PROVE q = p
  <2>1. Forking(q) /\ loc[q].np = loc[p].np
    BY <1>1, <1>3, Zenon
  <2> QED BY <1>1, <2>1, Zenon DEF Forks
<1> QED BY <1>1, <1>2, <1>3

\* A process runs only when the boot CPU is done with booting, and a step of
\* a process touches none of it.
LEMMA BootKept ==
  ASSUME MInv, UNCHANGED bootvars, NEW p \in Proc, state[p] = "LIVE"
  PROVE  Booting' /\ Managed' = Managed /\ Stack' = Stack
<1>1. boot = "sched" /\ UNCHANGED <<boot, ap, slot, apstack, use_lock>>
  BY Zenon DEF MInv, Booting, bootvars
<1>2. Starting' <=> Starting
  BY <1>1, Zenon DEF Starting
<1>3. Stack' = Stack
  BY <1>1, <1>2, Zenon DEF Stack
<1>4. Managed' = Managed
  BY <1>1, Zenon DEF Managed
<1>5. Booting'
  BY <1>1, <1>2, Zenon DEF MInv, Booting
<1> QED BY <1>3, <1>4, <1>5, Zenon

\* No frame the allocator manages is 0.
LEMMA ManagedFrames == 0 \notin Managed /\ Managed \subseteq Frame
<1>1. Low \subseteq Frame /\ 0 \notin Frame
  BY MemoryAssumption, Zenon
<1> QED BY <1>1, Zenon DEF Managed

-----------------------------------------------------------------------------
(* Boot.                                                                   *)

\* A step that leaves every process alone.
LEMMA ProcsKept ==
  ASSUME MInv, UNCHANGED <<state, kstack, sz, pgdir, pc, new, loc>>
  PROVE  Procs' /\ Forks'
<1>1. Procs'
  BY Zenon DEF MInv, Procs
<1>2. Forks'
  BY Zenon DEF MInv, Forks, Forking
<1> QED BY <1>1, <1>2, Zenon

\* Nothing is held before the allocator has its first frames.
LEMMA InvInit == Init => MInv
<1> SUFFICES ASSUME Init PROVE MInv
  BY Zenon
<1>1. Low \subseteq Frame /\ 0 \notin Frame /\ initproc \in Proc
  BY MemoryAssumption, Zenon
<1>2. NoTable \in Table /\ Mapped(NoTable) = {}
  BY PageEntries, Zenon DEF NoTable, Table, Mapped
<1>3. Idle \in [a : Nat, lim : Nat, esz : Nat, segs : Seq(Header), np : Proc]
  BY <1>1 DEF Idle
<1>4. TypeOK
  BY <1>1, <1>2, <1>3, Zenon DEF Init, TypeOK, Bootpcs, Pcs, Table
<1>5. ASSUME NEW p \in Proc PROVE POK(p)
  <2>1. /\ state[p] = "UNUSED" /\ kstack[p] = 0 /\ pgdir[p] = NoTable /\ pc[p] = "user"
        /\ new[p] = NoTable /\ loc[p] = Idle
    BY Zenon DEF Init
  <2> QED BY <2>1, Zenon DEF POK, ProcOK, CallOK
<1>6. Procs
  BY <1>5, Zenon DEF Procs, POK
<1>7. Forks
  BY Zenon DEF Init, Forks, Forking
<1>8. Booting /\ ~Starting
  BY Zenon DEF Init, Booting, Starting
<1>9. Accounts
  <2> DEFINE H == Holding(kstack, pgdir, new, apstack, Stack, kpgdir)
  <2>1. H = [x \in Place |-> 0]
    BY <1>8, Zenon DEF Holding, HeldAt, Place, Init, Stack, NoTable
  <2>2. Managed = {} /\ free = {}
    BY Zenon DEF Init, Managed
  <2> HIDE DEF H
  <2>3. Accounted(H, free, Managed)
    BY <2>1, <2>2, Zenon DEF Accounted
  <2> QED BY <2>3, Zenon DEF H, Accounts
<1> QED BY <1>4, <1>6, <1>7, <1>8, <1>9, Zenon DEF MInv, NoPanic, Init

\* kinit1 gives the low frames to the allocator.
LEMMA StepKinit1 ==
  ASSUME MInv, kinit1 PROVE MInv'
<1>1. /\ boot = "kinit1" /\ boot' = "kvmalloc" /\ free' = Low /\ use_lock' = FALSE
      /\ UNCHANGED <<state, kstack, sz, pgdir, pc, new, loc, parent>>
      /\ UNCHANGED <<ap, slot, apstack, kpgdir, panicked>>
  BY Zenon DEF kinit1, procvars
<1>2. Low \subseteq Frame /\ 0 \notin Frame
  BY MemoryAssumption, Zenon
<1>3. TypeOK'
  BY <1>1, <1>2, Zenon DEF MInv, TypeOK, Bootpcs
<1>4. ~Starting /\ ~Starting'
  BY <1>1, Zenon DEF MInv, Booting, Starting
<1>5. Booting'
  BY <1>1, <1>4, Zenon DEF MInv, Booting
<1>6. Accounts'
  <2> DEFINE H == Holding(kstack, pgdir, new, apstack, Stack, kpgdir)
  <2>1. H' = H
    BY <1>1, <1>4 DEF Stack, Holding, HeldAt
  <2>2. Managed = {} /\ Managed' = Low
    BY <1>1, Zenon DEF Managed
  <2>3. Accounted(H, free, Managed)
    BY Zenon DEF MInv, Accounts
  <2> HIDE DEF H
  <2>4. Accounted(H, Low, Low)
    BY <1>2, <2>2, <2>3, Zenon DEF Accounted
  <2> QED BY <1>1, <2>1, <2>2, <2>4, Zenon DEF Accounts, H
<1> QED BY <1>1, <1>3, <1>5, <1>6, ProcsKept, Zenon DEF MInv, NoPanic

\* kinit2 gives it the others.
LEMMA StepKinit2 ==
  ASSUME MInv, kinit2 PROVE MInv'
<1>1. /\ boot = "kinit2" /\ boot' = "uselock" /\ free' = free \union (Frame \ Low)
      /\ UNCHANGED <<state, kstack, sz, pgdir, pc, new, loc, parent>>
      /\ UNCHANGED <<use_lock, ap, slot, apstack, kpgdir, panicked>>
  BY Zenon DEF kinit2, procvars
<1>2. Low \subseteq Frame /\ 0 \notin Frame
  BY MemoryAssumption, Zenon
<1>3. TypeOK'
  BY <1>1, <1>2, Zenon DEF MInv, TypeOK, Bootpcs
<1>4. ~Starting /\ ~Starting'
  BY <1>1, Zenon DEF MInv, Booting, Starting
<1>5. Booting'
  BY <1>1, <1>4, Zenon DEF MInv, Booting
<1>6. Accounts'
  <2> DEFINE H == Holding(kstack, pgdir, new, apstack, Stack, kpgdir)
  <2>1. H' = H
    BY <1>1, <1>4 DEF Stack, Holding, HeldAt
  <2>2. Managed = Low /\ Managed' = Frame
    BY <1>1, Zenon DEF Managed
  <2>3. Accounted(H, free, Managed)
    BY Zenon DEF MInv, Accounts
  <2> HIDE DEF H
  <2>4. Accounted(H, free \union (Frame \ Low), Frame)
    BY <1>2, <2>2, <2>3, Zenon DEF Accounted
  <2> QED BY <1>1, <2>1, <2>2, <2>4, Zenon DEF Accounts, H
<1> QED BY <1>1, <1>3, <1>5, <1>6, ProcsKept, Zenon DEF MInv, NoPanic

\* The steps of main() that take no frame.
LEMMA StepMain ==
  ASSUME MInv, startothersDone \/ kinit2Lock PROVE MInv'
<1>1. /\ \/ boot = "startothers" /\ boot' = "kinit2" /\ use_lock' = use_lock
            /\ (\A c \in AP : ap[c] = "up")
         \/ boot = "uselock" /\ boot' = "userinit" /\ use_lock' = TRUE
      /\ UNCHANGED <<state, kstack, sz, pgdir, pc, new, loc, parent>>
      /\ UNCHANGED <<free, ap, slot, apstack, kpgdir, panicked>>
  BY Zenon DEF startothersDone, kinit2Lock, procvars
<1>2. TypeOK'
  BY <1>1, Zenon DEF MInv, TypeOK, Bootpcs
<1>3. ~Starting /\ ~Starting'
  BY <1>1, Zenon DEF MInv, Booting, Starting
<1>4. Booting'
  BY <1>1, <1>3 DEF MInv, Booting
<1>5. Accounts'
  <2>1. Managed' = Managed /\ Stack' = Stack
    BY <1>1, <1>3, Zenon DEF Managed, Stack
  <2> QED BY <1>1, <2>1, Zenon DEF MInv, Accounts
<1> QED BY <1>1, <1>2, <1>4, <1>5, ProcsKept, Zenon DEF MInv, NoPanic

\* setupkvm for kpgdir takes one low frame per entry.
LEMMA StepKvmalloc ==
  ASSUME MInv, kvmalloc PROVE MInv'
<1>1. /\ boot = "kvmalloc" /\ boot' \in {"kvmalloc", "startothers"}
      /\ UNCHANGED <<state, kstack, sz, pgdir, pc, new, loc, parent>>
      /\ UNCHANGED <<use_lock, ap, slot, apstack, panicked>>
  BY Zenon DEF kvmalloc, procvars
<1>2. ~Starting /\ ~Starting'
  BY <1>1, Zenon DEF MInv, Booting, Starting
<1>3. Booting'
  BY <1>1, <1>2, Zenon DEF MInv, Booting
<1>4. Managed' = Managed /\ Stack' = Stack /\ 0 \notin Managed
  BY <1>1, <1>2, ManagedFrames, Zenon DEF Managed, Stack
<1>5. TypeOK
  BY Zenon DEF MInv
<1>6. Accounted(Holding(kstack, pgdir, new, apstack, Stack, kpgdir), free, Managed)
  BY Zenon DEF MInv, Accounts
<1>7. TypeOK' /\ Accounts'
  <2>1. CASE UNCHANGED <<kpgdir, free>>
    <3>1. TypeOK'
      BY <1>1, <1>5, <2>1, Zenon DEF TypeOK, Bootpcs
    <3> QED BY <1>1, <1>4, <1>6, <2>1, <3>1, Zenon DEF Accounts
  <2>2. ASSUME NEW i \in 0 .. KTABS, kpgdir[KvmEntry(i)] = 0, free # {},
               kpgdir' = [kpgdir EXCEPT ![KvmEntry(i)] = kalloc(free)],
               free' = free \ {kalloc(free)}
        PROVE  TypeOK' /\ Accounts'
    <3>1. kalloc(free) \in free /\ KvmEntry(i) \in Entry
      BY <2>2, KallocIsFree, KernelEntries, Zenon
    <3>2. kpgdir \in [Entry -> Frame \union {0}] /\ free \subseteq Frame
      BY <1>5, Zenon DEF TypeOK
    <3>3. kpgdir' \in [Entry -> Frame \union {0}] /\ free' \subseteq Frame
      BY <2>2, <3>1, <3>2, Zenon
    <3>4. TypeOK'
      BY <1>1, <1>5, <3>3, Zenon DEF TypeOK, Bootpcs
    <3>5. Accounted(Holding(kstack, pgdir, new, apstack, Stack, kpgdir'), free', Managed)
      BY <1>4, <1>6, <2>2, <3>1, <3>2, TakeKpgdir, Zenon
    <3> QED BY <1>1, <1>4, <3>4, <3>5, Zenon DEF Accounts
  <2> QED BY <2>1, <2>2, Zenon DEF kvmalloc
<1> QED BY <1>1, <1>3, <1>7, ProcsKept, Zenon DEF MInv, NoPanic

\* startothers takes a stack while no other CPU is starting.
LEMMA StepStartothers ==
  ASSUME MInv, NEW c \in AP, startothers(c) PROVE MInv'
<1>1. /\ boot = "startothers" /\ ap[c] = "off" /\ (\A d \in AP : ap[d] # "starting")
      /\ free # {} /\ slot' = kalloc(free) /\ free' = free \ {kalloc(free)}
      /\ ap' = [ap EXCEPT ![c] = "starting"]
      /\ UNCHANGED <<state, kstack, sz, pgdir, pc, new, loc, parent>>
      /\ UNCHANGED <<use_lock, boot, apstack, kpgdir, panicked>>
  BY Zenon DEF startothers, procvars
<1>2. TypeOK
  BY Zenon DEF MInv
<1>3. kalloc(free) \in free /\ free \subseteq Frame /\ 0 \notin Frame
  BY <1>1, <1>2, KallocIsFree, MemoryAssumption, Zenon DEF TypeOK
<1>4. ap'[c] = "starting" /\ \A d \in AP : d # c => ap'[d] = ap[d]
  BY <1>1, <1>2, Zenon DEF TypeOK
<1>5. ~Starting /\ Starting'
  BY <1>1, <1>4, Zenon DEF Starting
<1>6. TypeOK'
  BY <1>1, <1>2, <1>3, Zenon DEF TypeOK
<1>7. Booting'
  <2>1. \A d \in AP : ap'[d] = "up" <=> apstack'[d] # 0
    BY <1>1, <1>4, Zenon DEF MInv, Booting
  <2>2. \A d, e \in AP : ap'[d] = "starting" /\ ap'[e] = "starting" => d = e
    BY <1>1, <1>4, Zenon
  <2> QED BY <1>1, <1>3, <2>1, <2>2, Zenon DEF MInv, Booting
<1>8. Stack = 0 /\ Stack' = kalloc(free) /\ Managed' = Managed /\ 0 \notin Managed
  BY <1>1, <1>5, ManagedFrames, Zenon DEF Stack, Managed
<1>9. Accounted(Holding(kstack, pgdir, new, apstack, Stack, kpgdir), free, Managed)
  BY Zenon DEF MInv, Accounts
<1>10. Accounted(Holding(kstack, pgdir, new, apstack, kalloc(free), kpgdir), free', Managed)
  BY <1>1, <1>3, <1>8, <1>9, TakeSlot, Zenon
<1>11. Accounts'
  BY <1>1, <1>8, <1>10, Zenon DEF Accounts
<1> QED BY <1>1, <1>6, <1>7, <1>11, ProcsKept, Zenon DEF MInv, NoPanic

\* The CPU that starts takes its stack from code-4.
LEMMA StepMpenter ==
  ASSUME MInv, NEW c \in AP, mpenter(c) PROVE MInv'
<1>1. /\ ap[c] = "starting" /\ apstack' = [apstack EXCEPT ![c] = slot]
      /\ ap' = [ap EXCEPT ![c] = "up"]
      /\ UNCHANGED <<state, kstack, sz, pgdir, pc, new, loc, parent>>
      /\ UNCHANGED <<free, use_lock, boot, slot, kpgdir, panicked>>
  BY Zenon DEF mpenter, procvars
<1>2. TypeOK
  BY Zenon DEF MInv
<1>3. /\ ap'[c] = "up" /\ \A d \in AP : d # c => ap'[d] = ap[d]
      /\ apstack'[c] = slot /\ \A d \in AP : d # c => apstack'[d] = apstack[d]
  BY <1>1, <1>2, Zenon DEF TypeOK
<1>4. Starting /\ slot # 0 /\ boot = "startothers"
  BY <1>1, Zenon DEF Starting, MInv, Booting
<1>5. \A d \in AP : ap[d] = "starting" => d = c
  BY <1>1, Zenon DEF MInv, Booting
<1>6. ~Starting'
  BY <1>3, <1>5, Zenon DEF Starting
<1>7. TypeOK'
  BY <1>1, <1>2, Zenon DEF TypeOK
<1>8. Booting'
  <2>1. \A d \in AP : ap'[d] = "up" <=> apstack'[d] # 0
    BY <1>3, <1>4, Zenon DEF MInv, Booting
  <2>2. \A d, e \in AP : ap'[d] = "starting" /\ ap'[e] = "starting" => d = e
    BY <1>3, <1>5, Zenon
  <2> QED BY <1>1, <1>6, <2>1, <2>2, Zenon DEF MInv, Booting
<1>9. Stack = slot /\ Stack' = 0 /\ Managed' = Managed /\ apstack[c] = 0
  BY <1>1, <1>4, <1>6, Zenon DEF Stack, Managed, MInv, Booting
<1>10. Accounted(Holding(kstack, pgdir, new, apstack, slot, kpgdir), free, Managed)
  BY <1>9, Zenon DEF MInv, Accounts
<1>11. apstack \in [AP -> Frame \union {0}]
  BY <1>2, Zenon DEF TypeOK
<1>12. Accounted(Holding(kstack, pgdir, new, apstack', 0, kpgdir), free, Managed)
  BY <1>1, <1>9, <1>10, <1>11, MoveStack, Zenon
<1>13. Accounts'
  BY <1>1, <1>9, <1>12, Zenon DEF Accounts
<1> QED BY <1>1, <1>7, <1>8, <1>13, ProcsKept, Zenon DEF MInv, NoPanic

\* userinit: the first process gets a stack, the kernel's entries and a page.
LEMMA StepUserinit ==
  ASSUME MInv, userinit PROVE MInv'
<1> DEFINE p == initproc
           f == kalloc(free)
<1>1. /\ boot = "userinit" /\ free # {} /\ boot' \in {"userinit", "sched"}
      /\ UNCHANGED <<pc, new, loc, parent>>
      /\ UNCHANGED <<use_lock, ap, slot, apstack, kpgdir, panicked>>
  BY Zenon DEF userinit
<1>2. TypeOK /\ p \in Proc
  BY MemoryAssumption, Zenon DEF MInv
<1>3. f \in free /\ free \subseteq Frame /\ 0 \notin Frame
  BY <1>1, <1>2, KallocIsFree, MemoryAssumption, Zenon DEF TypeOK
<1>4. /\ state \in [Proc -> {"UNUSED", "EMBRYO", "LIVE", "ZOMBIE"}]
      /\ kstack \in [Proc -> Frame \union {0}] /\ pgdir \in [Proc -> Table] /\ sz \in [Proc -> Nat]
  BY <1>2, Zenon DEF TypeOK, Table
<1>5. \A r \in Proc : state[r] \in {"UNUSED", "EMBRYO"} /\ pc[r] = "user" /\ POK(r)
  BY <1>1, Zenon DEF MInv, Booting, Procs, ProcOK, POK
<1>6. Forks'
  BY <1>1, <1>5, Zenon DEF Forks, Forking
<1>7. ~Starting /\ ~Starting'
  BY <1>1, Zenon DEF MInv, Booting, Starting
<1>8. Managed' = Managed /\ Stack' = Stack /\ 0 \notin Managed
  BY <1>1, <1>7, ManagedFrames, Zenon DEF Managed, Stack
<1>9. Accounted(Holding(kstack, pgdir, new, apstack, Stack, kpgdir), free, Managed)
  BY Zenon DEF MInv, Accounts
<1>10. Mapped(NoTable) = {}
  BY PageEntries, Zenon DEF NoTable, Mapped
<1> HIDE DEF p, f
<1>11. ASSUME kstack[p] = 0, kstack' = [kstack EXCEPT ![p] = f],
              state' = [state EXCEPT ![p] = "EMBRYO"], free' = free \ {f},
              UNCHANGED <<pgdir, sz, boot>>
       PROVE  MInv'
  <2>1. kstack' \in [Proc -> Frame \union {0}] /\ free' \subseteq Frame
        /\ state' \in [Proc -> {"UNUSED", "EMBRYO", "LIVE", "ZOMBIE"}]
    BY <1>2, <1>3, <1>4, <1>11, Zenon
  <2>2. TypeOK'
    BY <1>1, <1>2, <1>11, <2>1, Zenon DEF TypeOK
  <2>3. \A r \in Proc \ {p} : Same(r)
    BY <1>1, <1>2, <1>4, <1>11, Zenon DEF Same
  <2>4. kstack'[p] = f /\ state'[p] = "EMBRYO" /\ f # 0
    BY <1>2, <1>3, <1>4, <1>11, Zenon
  <2>5. POK(p)'
    BY <1>1, <1>2, <1>5, <1>10, <1>11, <2>4, Zenon DEF POK, ProcOK
  <2>6. Procs'
    BY <1>2, <2>3, <2>5, OneKept, Zenon
  <2>7. \A r \in Proc : state'[r] \in {"UNUSED", "EMBRYO"}
    BY <1>2, <1>4, <1>5, <1>11, Zenon
  <2>8. Booting'
    BY <1>1, <1>7, <1>11, <2>7, Zenon DEF MInv, Booting
  <2>9. Accounted(Holding(kstack', pgdir, new, apstack, Stack, kpgdir), free', Managed)
    BY <1>2, <1>3, <1>4, <1>8, <1>9, <1>11, TakeKstack, Zenon
  <2>10. Accounts'
    BY <1>1, <1>8, <1>11, <2>9, Zenon DEF Accounts
  <2> QED BY <1>1, <1>6, <2>2, <2>6, <2>8, <2>10, Zenon DEF MInv, NoPanic
<1>12. ASSUME kstack[p] # 0, NEW i \in 0 .. KTABS, pgdir[p][KvmEntry(i)] = 0,
              pgdir' = [pgdir EXCEPT ![p][KvmEntry(i)] = f], free' = free \ {f},
              UNCHANGED <<kstack, state, sz, boot>>
       PROVE  MInv'
  <2> DEFINE t == [pgdir[p] EXCEPT ![KvmEntry(i)] = f]
  <2>1. /\ KvmEntry(i) \in Entry /\ pgdir[p] \in Table /\ t \in Table
        /\ pgdir' = [pgdir EXCEPT ![p] = t]
    BY <1>2, <1>3, <1>4, <1>12, KernelEntries, Zenon DEF Table
  <2>2. pgdir' \in [Proc -> Table] /\ free' \subseteq Frame /\ pgdir'[p] = t
    BY <1>2, <1>3, <1>4, <1>12, <2>1, Zenon
  <2>3. TypeOK'
    BY <1>1, <1>2, <1>12, <2>2, Zenon DEF TypeOK, Table
  <2>4. \A r \in Proc \ {p} : Same(r)
    BY <1>1, <1>2, <1>4, <1>12, <2>1, Zenon DEF Same
  <2>5. \A j \in Pages : t[Pte(j)] = pgdir[p][Pte(j)]
    BY <2>1, KernelEntries, PageEntries, Zenon DEF Table
  <2>6. Mapped(t) = Mapped(pgdir[p])
    BY <2>5, Zenon DEF Mapped
  <2>7. state[p] = "EMBRYO" /\ pc[p] = "user"
    BY <1>2, <1>5, <1>12, Zenon DEF POK, ProcOK
  <2>8. new[p] = NoTable /\ loc[p] = Idle /\ Mapped(pgdir[p]) = {}
    BY <1>2, <1>5, <2>7, Zenon DEF POK, ProcOK, CallOK
  <2> HIDE DEF t
  <2>9. POK(p)'
    BY <1>1, <1>12, <2>2, <2>6, <2>7, <2>8, Zenon DEF POK, ProcOK, CallOK
  <2>10. Procs'
    BY <1>2, <2>4, <2>9, OneKept, Zenon
  <2>11. Booting'
    BY <1>1, <1>7, <1>12, Zenon DEF MInv, Booting
  <2>12. Accounted(Holding(kstack, pgdir', new, apstack, Stack, kpgdir), free', Managed)
    <3>1. pgdir' = [pgdir EXCEPT ![p] = [pgdir[p] EXCEPT ![KvmEntry(i)] = f]]
      BY <2>1, Zenon DEF t
    <3>2. /\ p \in Proc /\ f \in free /\ KvmEntry(i) \in Entry /\ pgdir[p][KvmEntry(i)] = 0
          /\ pgdir \in [Proc -> [Entry -> Frame \union {0}]] /\ free' = free \ {f}
      BY <1>2, <1>3, <1>4, <1>12, <2>1, Zenon DEF Table
    <3> QED BY <1>8, <1>9, <3>1, <3>2, TakePgdir, Zenon
  <2>13. Accounts'
    BY <1>1, <1>8, <1>12, <2>12, Zenon DEF Accounts
  <2> QED BY <1>1, <1>6, <2>3, <2>10, <2>11, <2>13, Zenon DEF MInv, NoPanic
<1>13. ASSUME kstack[p] # 0, CanMap(pgdir[p], 0),
              pgdir' = [pgdir EXCEPT ![p] = mappages(pgdir[p], 0)],
              free' = free \ MapFrames(pgdir[p], 0), sz' = [sz EXCEPT ![p] = PGSIZE],
              state' = [state EXCEPT ![p] = "LIVE"], boot' = "sched", UNCHANGED kstack
       PROVE  MInv'
  <2> DEFINE t == mappages(pgdir[p], 0)
  <2>1. state[p] = "EMBRYO" /\ pc[p] = "user"
    BY <1>2, <1>5, <1>13, Zenon DEF POK, ProcOK
  <2>2. new[p] = NoTable /\ loc[p] = Idle /\ Mapped(pgdir[p]) = {}
    BY <1>2, <1>5, <2>1, Zenon DEF POK, ProcOK, CallOK
  <2>3. Below(0) = {} /\ 0 < UPAGES /\ 0 \in Nat
    BY SizeTypes DEF Below, Pages
  <2>4. pgdir[p] \in Table
    BY <1>2, <1>4, Zenon
  <2>5. 0 \in Pages /\ pgdir[p][Pte(0)] = 0 /\ Mapped(t) = Below(0 + 1)
    BY <1>3, <1>13, <2>2, <2>3, <2>4, MapNext, Zenon
  <2>6. t \in Table
    BY <1>3, <1>13, <2>4, <2>5, MapTable, Zenon
  <2>7. PGSIZE \in Nat /\ PGSIZE <= KERNBASE /\ Covered(PGSIZE) = Below(0 + 1)
    <3>1. PGROUNDUP(1 * PGSIZE) = 1
      BY RoundUpWhole, Zenon
    <3>2. 1 * PGSIZE <= UPAGES * PGSIZE
      BY SizeTypes, TimesMonotone
    <3> QED BY <3>1, <3>2, CoveredIsBelow, SizeTypes DEF KERNBASE
  <2> HIDE DEF t
  <2>8. /\ pgdir' \in [Proc -> Table] /\ free' \subseteq Frame /\ sz' \in [Proc -> Nat]
        /\ state' \in [Proc -> {"UNUSED", "EMBRYO", "LIVE", "ZOMBIE"}]
        /\ pgdir'[p] = t /\ sz'[p] = PGSIZE /\ state'[p] = "LIVE"
    BY <1>2, <1>3, <1>4, <1>13, <2>6, <2>7, Zenon DEF t
  <2>9. TypeOK'
    BY <1>1, <1>2, <1>13, <2>8, Zenon DEF TypeOK, Table, Bootpcs
  <2>10. \A r \in Proc \ {p} : Same(r)
    BY <1>1, <1>2, <1>4, <1>13, Zenon DEF Same
  <2>11. POK(p)'
    BY <1>1, <1>13, <2>1, <2>2, <2>5, <2>7, <2>8, Zenon DEF POK, ProcOK, CallOK
  <2>12. Procs'
    BY <1>2, <2>10, <2>11, OneKept, Zenon
  <2>13. Booting'
    BY <1>1, <1>7, <1>13, Zenon DEF MInv, Booting
  <2>14. Accounted(Holding(kstack, pgdir', new, apstack, Stack, kpgdir), free', Managed)
    BY <1>2, <1>3, <1>4, <1>8, <1>9, <1>13, <2>5, MapPgdir, Zenon
  <2>15. Accounts'
    BY <1>1, <1>8, <1>13, <2>14, Zenon DEF Accounts
  <2> QED BY <1>1, <1>6, <2>9, <2>12, <2>13, <2>15, Zenon DEF MInv, NoPanic
<1> QED BY <1>11, <1>12, <1>13, Zenon DEF userinit, p, f

-----------------------------------------------------------------------------
(* Steps of a process.                                                     *)

Locals == [a : Nat, lim : Nat, esz : Nat, segs : Seq(Header), np : Proc]

\* What the steps below start from.
LEMMA Types ==
  ASSUME MInv
  PROVE  /\ state \in [Proc -> {"UNUSED", "EMBRYO", "LIVE", "ZOMBIE"}] /\ sz \in [Proc -> Nat]
         /\ kstack \in [Proc -> Frame \union {0}] /\ pgdir \in [Proc -> Table]
         /\ new \in [Proc -> Table] /\ pc \in [Proc -> Pcs] /\ loc \in [Proc -> Locals]
         /\ parent \in [Proc -> Proc] /\ free \subseteq Frame /\ panicked = FALSE
         /\ 0 \notin Frame /\ 0 \notin Managed /\ NoTable \in Table /\ Mapped(NoTable) = {}
         /\ Accounted(Holding(kstack, pgdir, new, apstack, Stack, kpgdir), free, Managed)
<1>1. NoTable \in Table /\ Mapped(NoTable) = {}
  BY PageEntries, Zenon DEF NoTable, Table, Mapped
<1>2. panicked = FALSE
  BY Zenon DEF MInv, TypeOK, NoPanic
<1>3. Accounted(Holding(kstack, pgdir, new, apstack, Stack, kpgdir), free, Managed)
  BY Zenon DEF MInv, Accounts
<1> QED BY <1>1, <1>2, <1>3, MemoryAssumption, ManagedFrames, Zenon DEF MInv, TypeOK, Table, Locals

\* The same for one process.
LEMMA TypesOf ==
  ASSUME MInv, NEW p \in Proc
  PROVE  /\ sz[p] \in Nat /\ pgdir[p] \in Table /\ new[p] \in Table /\ loc[p] \in Locals
         /\ loc[p].a \in Nat /\ loc[p].lim \in Nat /\ loc[p].esz \in Nat
         /\ loc[p].segs \in Seq(Header) /\ loc[p].np \in Proc /\ POK(p)
<1>1. POK(p)
  BY Zenon DEF MInv, Procs, POK
<1> QED BY <1>1, Types, Zenon DEF Locals

\* Updates of one or two of the locals of p, as updates of all of them.
LEMMA LocalUpdates ==
  ASSUME NEW f \in [Proc -> Locals], NEW p \in Proc, NEW x \in Nat, NEW y \in Nat,
         NEW z \in Seq(Header), NEW q \in Proc
  PROVE  /\ [f EXCEPT ![p].a = x] = [f EXCEPT ![p] = [f[p] EXCEPT !.a = x]]
         /\ [f EXCEPT ![p].segs = z] = [f EXCEPT ![p] = [f[p] EXCEPT !.segs = z]]
         /\ [f EXCEPT ![p].np = q] = [f EXCEPT ![p] = [f[p] EXCEPT !.np = q]]
         /\ [f EXCEPT ![p].a = x, ![p].lim = y] = [f EXCEPT ![p] = [f[p] EXCEPT !.a = x, !.lim = y]]
         /\ [f EXCEPT ![p].esz = y, ![p].segs = z] = [f EXCEPT ![p] = [f[p] EXCEPT !.esz = y, !.segs = z]]
         /\ [f[p] EXCEPT !.a = x] \in Locals /\ [f[p] EXCEPT !.segs = z] \in Locals
         /\ [f[p] EXCEPT !.np = q] \in Locals /\ [f[p] EXCEPT !.a = x, !.lim = y] \in Locals
         /\ [f[p] EXCEPT !.esz = y, !.segs = z] \in Locals
<1>1. [f EXCEPT ![p].a = x] = [f EXCEPT ![p] = [f[p] EXCEPT !.a = x]]
  BY Zenon
<1>2. [f EXCEPT ![p].segs = z] = [f EXCEPT ![p] = [f[p] EXCEPT !.segs = z]]
  BY Zenon
<1>3. [f EXCEPT ![p].np = q] = [f EXCEPT ![p] = [f[p] EXCEPT !.np = q]]
  BY Zenon
<1>4. [f EXCEPT ![p].a = x, ![p].lim = y] = [f EXCEPT ![p] = [f[p] EXCEPT !.a = x, !.lim = y]]
  BY Zenon
<1>5. [f EXCEPT ![p].esz = y, ![p].segs = z] = [f EXCEPT ![p] = [f[p] EXCEPT !.esz = y, !.segs = z]]
  BY Zenon
<1>6. [f[p] EXCEPT !.a = x] \in Locals /\ [f[p] EXCEPT !.segs = z] \in Locals
      /\ [f[p] EXCEPT !.np = q] \in Locals
  BY SMTT(60) DEF Locals
<1>7. [f[p] EXCEPT !.a = x, !.lim = y] \in Locals
  <2>1. [f[p] EXCEPT !.a = x, !.lim = y] = [[f[p] EXCEPT !.a = x] EXCEPT !.lim = y]
    BY Zenon DEF Locals
  <2>2. \A r \in Locals : [r EXCEPT !.lim = y] \in Locals
    BY Zenon DEF Locals
  <2> QED BY <1>6, <2>1, <2>2, Zenon
<1>8. [f[p] EXCEPT !.esz = y, !.segs = z] \in Locals
  <2>1. [f[p] EXCEPT !.esz = y, !.segs = z] = [[f[p] EXCEPT !.esz = y] EXCEPT !.segs = z]
    BY Zenon DEF Locals
  <2>2. \A r \in Locals : [r EXCEPT !.esz = y] \in Locals /\ [r EXCEPT !.segs = z] \in Locals
    BY Zenon DEF Locals
  <2>3. f[p] \in Locals
    BY Zenon
  <2> QED BY <2>1, <2>2, <2>3, Zenon
<1> QED BY <1>1, <1>2, <1>3, <1>4, <1>5, <1>6, <1>7, <1>8, Zenon

\* A step that changes only where p is and its locals, and begins no fork.
LEMMA LocalStep ==
  ASSUME MInv, NEW p \in Proc, state[p] = "LIVE", NEW c \in Pcs, NEW l \in Locals,
         UNCHANGED <<free, bootvars, procvars, new, panicked>>,
         pc' = [pc EXCEPT ![p] = c], loc' = [loc EXCEPT ![p] = l],
         c \in {"kvmfork", "copy"} => Forking(p) /\ l.np = loc[p].np,
         ProcOK(state[p], kstack[p], sz[p], pgdir[p], c, new[p], l)
  PROVE  MInv'
<1>1. UNCHANGED <<state, parent, sz, kstack, pgdir, kpgdir, apstack>>
  BY Zenon DEF procvars, bootvars
<1>2. pc'[p] = c /\ loc'[p] = l /\ pc' \in [Proc -> Pcs] /\ loc' \in [Proc -> Locals]
  BY Types, Zenon
<1>3. TypeOK'
  BY <1>1, <1>2, Zenon DEF MInv, TypeOK, bootvars, Locals
<1>4. \A r \in Proc \ {p} : Same(r)
  BY <1>1, Types, Zenon DEF Same
<1>5. POK(p)'
  BY <1>1, <1>2, Zenon DEF POK
<1>6. Procs'
  BY <1>4, <1>5, OneKept, Zenon
<1>7. \A r \in Proc : Forking(r)' => Forking(r) /\ loc'[r].np = loc[r].np
  BY <1>2, <1>4, Zenon DEF Forking, Same
<1>8. Forks'
  BY <1>1, <1>7, ForksKept, Zenon DEF MInv
<1>9. Booting' /\ Managed' = Managed /\ Stack' = Stack
  BY BootKept, Zenon
<1>10. Accounts'
  BY <1>1, <1>9, Types, Zenon DEF Accounts
<1> QED BY <1>3, <1>6, <1>8, <1>9, <1>10, Zenon DEF MInv, NoPanic

\* A step that adds to the table p builds.
LEMMA BuildStep ==
  ASSUME MInv, NEW p \in Proc, state[p] = "LIVE", NEW t \in Table, NEW l \in Locals,
         UNCHANGED <<bootvars, procvars, pc, panicked>>, free' \subseteq free,
         new' = [new EXCEPT ![p] = t], loc' = [loc EXCEPT ![p] = l], l.np = loc[p].np,
         ProcOK(state[p], kstack[p], sz[p], pgdir[p], pc[p], t, l),
         Accounted(Holding(kstack, pgdir, [new EXCEPT ![p] = t], apstack, Stack, kpgdir),
                   free', Managed)
  PROVE  MInv'
<1>1. UNCHANGED <<state, parent, sz, kstack, pgdir, kpgdir, apstack>>
  BY Zenon DEF procvars, bootvars
<1>2. new'[p] = t /\ loc'[p] = l /\ new' \in [Proc -> Table] /\ loc' \in [Proc -> Locals]
      /\ free' \subseteq Frame
  BY Types, Zenon
<1>3. TypeOK'
  BY <1>1, <1>2, Zenon DEF MInv, TypeOK, bootvars, Locals, Table
<1>4. \A r \in Proc \ {p} : Same(r)
  BY <1>1, Types, Zenon DEF Same
<1>5. POK(p)'
  BY <1>1, <1>2, Zenon DEF POK
<1>6. Procs'
  BY <1>4, <1>5, OneKept, Zenon
<1>7. \A r \in Proc : Forking(r)' => Forking(r) /\ loc'[r].np = loc[r].np
  BY <1>2, <1>4, Zenon DEF Forking, Same
<1>8. Forks'
  BY <1>1, <1>7, ForksKept, Zenon DEF MInv
<1>9. Booting' /\ Managed' = Managed /\ Stack' = Stack
  BY BootKept, Zenon
<1>10. Accounts'
  BY <1>1, <1>9, Zenon DEF Accounts
<1> QED BY <1>3, <1>6, <1>8, <1>9, <1>10, Zenon DEF MInv, NoPanic

\* A step that changes p's own table, size and locals outside of fork.
LEMMA ImageStep ==
  ASSUME MInv, NEW p \in Proc, state[p] = "LIVE", NEW t \in Table, NEW n \in Table,
         NEW s \in Nat, NEW c \in {"user", "grow"}, NEW l \in Locals,
         UNCHANGED <<bootvars, state, parent, kstack, panicked>>, free' \subseteq Frame,
         pgdir' = [pgdir EXCEPT ![p] = t], sz' = [sz EXCEPT ![p] = s],
         new' = [new EXCEPT ![p] = n], pc' = [pc EXCEPT ![p] = c],
         loc' = [loc EXCEPT ![p] = l], ProcOK(state[p], kstack[p], s, t, c, n, l),
         Accounted(Holding(kstack, [pgdir EXCEPT ![p] = t], [new EXCEPT ![p] = n], apstack,
                           Stack, kpgdir), free', Managed)
  PROVE  MInv'
<1>1. UNCHANGED <<kpgdir, apstack>> /\ c \in Pcs
  BY Zenon DEF bootvars, Pcs
<1>2. /\ pgdir'[p] = t /\ new'[p] = n /\ sz'[p] = s /\ pc'[p] = c /\ loc'[p] = l
      /\ pgdir' \in [Proc -> Table] /\ new' \in [Proc -> Table] /\ sz' \in [Proc -> Nat]
      /\ pc' \in [Proc -> Pcs] /\ loc' \in [Proc -> Locals]
  BY <1>1, Types, Zenon
<1>3. TypeOK'
  BY <1>2, Zenon DEF MInv, TypeOK, bootvars, Locals, Table
<1>4. \A r \in Proc \ {p} : Same(r)
  BY Types, Zenon DEF Same
<1>5. POK(p)'
  BY <1>2, Zenon DEF POK
<1>6. Procs'
  BY <1>4, <1>5, OneKept, Zenon
<1>7. \A r \in Proc : Forking(r)' => Forking(r) /\ loc'[r].np = loc[r].np
  BY <1>2, <1>4, Zenon DEF Forking, Same
<1>8. \A r \in Proc : state[r] = "EMBRYO" => state'[r] = "EMBRYO" /\ pgdir'[r] = pgdir[r]
  BY <1>4, Zenon DEF Same
<1>9. Forks'
  BY <1>7, <1>8, ForksKept, Zenon DEF MInv
<1>10. Booting' /\ Managed' = Managed /\ Stack' = Stack
  BY BootKept, Zenon
<1>11. Accounts'
  BY <1>1, <1>10, Zenon DEF Accounts
<1> QED BY <1>3, <1>6, <1>9, <1>10, <1>11, Zenon DEF MInv, NoPanic

\* sbrk with n > 0 enters allocuvm's loop at the first page beyond the image.
LEMMA StepSbrkGrow ==
  ASSUME MInv, NEW p \in Proc, NEW n \in Deltas, sbrkGrow(p, n) PROVE MInv'
<1> DEFINE l == [loc[p] EXCEPT !.a = PGROUNDUP(sz[p]), !.lim = sz[p] + n]
<1>1. /\ state[p] = "LIVE" /\ pc[p] = "user" /\ Mapped(pgdir[p]) # {}
      /\ n > 0 /\ sz[p] + n < KERNBASE
      /\ pc' = [pc EXCEPT ![p] = "grow"]
      /\ loc' = [loc EXCEPT ![p].a = PGROUNDUP(sz[p]), ![p].lim = sz[p] + n]
      /\ UNCHANGED <<free, bootvars, procvars, new, panicked>>
  BY Zenon DEF sbrkGrow, Calls, InUser
<1>2. n \in Int /\ sz[p] + n \in Nat /\ sz[p] < sz[p] + n
  BY <1>1, TypesOf, SizeTypes, SMTT(60) DEF Deltas
<1>3. PGROUNDUP(sz[p]) \in Nat /\ PGROUNDUP(sz[p]) <= PGROUNDUP(sz[p] + n)
  BY <1>2, TypesOf, RoundUp, RoundUpBounds, SMTT(60)
<1>4. l \in Locals /\ loc' = [loc EXCEPT ![p] = l]
  <2>1. loc \in [Proc -> Locals] /\ Idle \in Locals
    BY Types, MemoryAssumption DEF Idle, Locals
  <2>2. \A z \in Seq(Header) : l \in Locals /\ loc' = [loc EXCEPT ![p] = l]
    BY <1>1, <1>2, <1>3, <2>1, LocalUpdates, ZenonT(60)
  <2> QED BY <2>2, TypesOf, Zenon
<1>5. l.a = PGROUNDUP(sz[p]) /\ l.lim = sz[p] + n
  BY TypesOf DEF Locals
<1>6. /\ kstack[p] # 0 /\ sz[p] <= KERNBASE /\ Mapped(pgdir[p]) = Covered(sz[p])
      /\ new[p] = NoTable
  BY <1>1, TypesOf, Zenon DEF POK, ProcOK, CallOK
<1>7. Mapped(pgdir[p]) = Below(l.a)
  BY <1>5, <1>6, TypesOf, CoveredIsBelow, Zenon
<1> HIDE DEF l
<1>8. CallOK(sz[p], pgdir[p], "grow", new[p], l)
  BY <1>1, <1>2, <1>3, <1>5, <1>6, <1>7 DEF CallOK
<1>9. ProcOK(state[p], kstack[p], sz[p], pgdir[p], "grow", new[p], l)
  BY <1>1, <1>6, <1>8, Zenon DEF ProcOK
<1>10. "grow" \in Pcs
  BY Zenon DEF Pcs
<1> QED BY <1>1, <1>4, <1>9, <1>10, LocalStep, Zenon

\* One iteration of allocuvm's loop, or its failure.
LEMMA StepGrow ==
  ASSUME MInv, NEW p \in Proc, growStep(p) PROVE MInv'
<1> DEFINE s == sz[p]
           a == loc[p].a
           lim == loc[p].lim
           t == pgdir[p]
<1>1. /\ state[p] = "LIVE" /\ pc[p] = "grow" /\ a * PGSIZE < lim
      /\ UNCHANGED <<bootvars, state, parent, sz, kstack, new>>
  BY Zenon DEF growStep, InCall
<1>2. s \in Nat /\ a \in Nat /\ lim \in Nat /\ t \in Table /\ loc[p] \in Locals
  BY TypesOf, Zenon
<1>3. /\ kstack[p] # 0 /\ s <= KERNBASE /\ new[p] = NoTable /\ Mapped(t) = Below(a)
      /\ PGROUNDUP(s) <= a /\ a <= PGROUNDUP(lim) /\ s < lim /\ lim < KERNBASE
  BY <1>1, TypesOf, Zenon DEF POK, ProcOK, CallOK
<1>4. a < PGROUNDUP(lim) /\ a < UPAGES /\ PGROUNDUP(lim) \in Nat /\ PGROUNDUP(s) \in Nat
  BY <1>1, <1>2, <1>3, RoundUp, RoundUpBounds, SizeTypes
<1>5. a \in Pages /\ t[Pte(a)] = 0
  BY <1>2, <1>3, <1>4, Types, MapNext, Zenon
<1>6. sz' = [sz EXCEPT ![p] = s] /\ new' = [new EXCEPT ![p] = NoTable]
      /\ [new EXCEPT ![p] = NoTable] = new
  BY <1>1, <1>3, Types, Zenon
<1>7. CASE CanMap(t, a)
  <2> DEFINE l == [loc[p] EXCEPT !.a = a + 1]
             u == mappages(t, a)
  <2>1. /\ panicked' = (t[Pte(a)] # 0) /\ pgdir' = [pgdir EXCEPT ![p] = u]
        /\ free' = free \ MapFrames(t, a) /\ loc' = [loc EXCEPT ![p].a = loc[p].a + 1]
        /\ pc' = pc
    BY <1>1, <1>7, Zenon DEF growStep
  <2>2. l \in Locals /\ loc' = [loc EXCEPT ![p] = l]
    <3>1. a + 1 \in Nat /\ loc \in [Proc -> Locals] /\ <<>> \in Seq(Header)
      BY <1>2, Types
    <3> QED BY <2>1, <3>1, LocalUpdates, Zenon
  <2>3. l.a = a + 1 /\ l.lim = lim
    BY <1>2, Zenon DEF Locals
  <2>4. u \in Table /\ Mapped(u) = Below(a + 1)
    BY <1>2, <1>3, <1>4, <1>5, <1>7, Types, MapTable, MapNext, Zenon
  <2>5. pc' = [pc EXCEPT ![p] = "grow"]
    BY <1>1, <2>1, Types, Zenon
  <2>6. Accounted(Holding(kstack, [pgdir EXCEPT ![p] = u], new, apstack, Stack, kpgdir),
                  free \ MapFrames(t, a), Managed)
    BY <1>5, <1>7, Types, MapPgdir, Zenon
  <2> HIDE DEF l, u, a, s, t, lim
  <2>7. ProcOK("LIVE", kstack[p], s, u, "grow", NoTable, l)
    BY <1>2, <1>3, <1>4, <2>3, <2>4 DEF ProcOK, CallOK
  <2>8. panicked' = panicked /\ free' \subseteq Frame
    BY <1>5, <2>1, Types, Zenon
  <2>9. /\ ProcOK(state[p], kstack[p], s, u, "grow", NoTable, l) /\ NoTable \in Table
        /\ UNCHANGED <<bootvars, state, parent, kstack, panicked>>
    BY <1>1, <2>7, <2>8, Types, Zenon
  <2>10. Accounted(Holding(kstack, [pgdir EXCEPT ![p] = u], [new EXCEPT ![p] = NoTable], apstack,
                           Stack, kpgdir), free', Managed)
    BY <1>6, <2>1, <2>6, Zenon
  <2>11. state[p] = "LIVE" /\ s \in Nat /\ u \in Table /\ pgdir' = [pgdir EXCEPT ![p] = u]
    BY <1>1, <1>2, <2>1, <2>4, Zenon
  <2> QED BY <1>6, <2>2, <2>5, <2>8, <2>9, <2>10, <2>11, ImageStep, Zenon
<1>8. CASE ~CanMap(t, a)
  <2> DEFINE u == deallocuvm(t, lim, s)
  <2>1. /\ pgdir' = [pgdir EXCEPT ![p] = u]
        /\ free' = free \union (FramesOf(t) \ FramesOf(pgdir'[p]))
        /\ pc' = [pc EXCEPT ![p] = "user"] /\ loc' = [loc EXCEPT ![p] = Idle]
        /\ panicked' = panicked
    BY <1>1, <1>8, Zenon DEF growStep
  <2>2. /\ u \in Table /\ Mapped(u) = Covered(s)
        /\ \A e \in Entry : u[e] = 0 \/ u[e] = t[e]
    BY <1>2, <1>3, DeallocTable, Zenon
  <2> HIDE DEF u
  <2>3. free' = free \union (FramesOf(t) \ FramesOf(u))
    BY <2>1, Types, Zenon
  <2>4. Accounted(Holding(kstack, [pgdir EXCEPT ![p] = u], new, apstack, Stack, kpgdir),
                  free', Managed)
    BY <2>2, <2>3, Types, GivePgdir, Zenon DEF Table
  <2>5. Idle \in Locals
    BY MemoryAssumption DEF Idle, Locals
  <2>6. FramesOf(t) \subseteq Frame
    BY <1>2, Zenon DEF FramesOf, Table
  <2> HIDE DEF a, s, t, lim
  <2>7. ProcOK("LIVE", kstack[p], s, u, "user", NoTable, Idle)
    BY <1>3, <2>2, Zenon DEF ProcOK, CallOK
  <2>8. free' \subseteq Frame
    BY <2>3, <2>6, Types, Zenon
  <2>9. /\ ProcOK(state[p], kstack[p], s, u, "user", NoTable, Idle) /\ NoTable \in Table
        /\ UNCHANGED <<bootvars, state, parent, kstack, panicked>>
    BY <1>1, <2>1, <2>7, Types, Zenon
  <2>10. Accounted(Holding(kstack, [pgdir EXCEPT ![p] = u], [new EXCEPT ![p] = NoTable], apstack,
                           Stack, kpgdir), free', Managed)
    BY <1>6, <2>4, Zenon
  <2> QED BY <1>1, <1>2, <1>6, <2>1, <2>2, <2>5, <2>8, <2>9, <2>10, ImageStep, Zenon
<1> QED BY <1>7, <1>8, Zenon

\* allocuvm is done: the size becomes what the pages already are.
LEMMA StepGrowDone ==
  ASSUME MInv, NEW p \in Proc, growDone(p) PROVE MInv'
<1> DEFINE a == loc[p].a
           lim == loc[p].lim
           t == pgdir[p]
<1>1. /\ state[p] = "LIVE" /\ pc[p] = "grow" /\ a * PGSIZE >= lim
      /\ sz' = [sz EXCEPT ![p] = lim] /\ pc' = [pc EXCEPT ![p] = "user"]
      /\ loc' = [loc EXCEPT ![p] = Idle]
      /\ UNCHANGED <<free, bootvars, state, parent, kstack, pgdir, new, panicked>>
  BY Zenon DEF growDone, InCall
<1>2. a \in Nat /\ lim \in Nat /\ t \in Table
  BY TypesOf, Zenon
<1>3. /\ kstack[p] # 0 /\ new[p] = NoTable /\ Mapped(t) = Below(a)
      /\ a <= PGROUNDUP(lim) /\ lim < KERNBASE
  BY <1>1, TypesOf, Zenon DEF POK, ProcOK, CallOK
<1>4. a = PGROUNDUP(lim)
  BY <1>1, <1>2, <1>3, LoopEnd, Zenon
<1>5. Mapped(t) = Covered(lim)
  BY <1>2, <1>3, <1>4, CoveredIsBelow, Zenon
<1>6. Idle \in Locals /\ NoTable \in Table /\ free \subseteq Frame
  BY Types, MemoryAssumption DEF Idle, Locals
<1>7. /\ pgdir' = [pgdir EXCEPT ![p] = t] /\ [pgdir EXCEPT ![p] = t] = pgdir
      /\ new' = [new EXCEPT ![p] = NoTable] /\ [new EXCEPT ![p] = NoTable] = new
  BY <1>1, <1>3, Types, Zenon
<1>8. lim <= KERNBASE
  BY <1>2, <1>3, SizeTypes
<1> HIDE DEF a, lim, t
<1>9. ProcOK(state[p], kstack[p], lim, t, "user", NoTable, Idle)
  BY <1>1, <1>3, <1>5, <1>8, Zenon DEF ProcOK, CallOK
<1>10. Accounted(Holding(kstack, [pgdir EXCEPT ![p] = t], [new EXCEPT ![p] = NoTable], apstack,
                         Stack, kpgdir), free', Managed)
  BY <1>1, <1>7, Types, Zenon
<1> QED BY <1>1, <1>2, <1>6, <1>7, <1>9, <1>10, ImageStep, Zenon

\* sbrk with n < 0 drops the pages above the new size; with nothing left to
\* keep it drops them all and keeps the old size.
LEMMA StepSbrkShrink ==
  ASSUME MInv, NEW p \in Proc, NEW n \in Deltas, sbrkShrink(p, n) PROVE MInv'
<1> DEFINE s == sz[p]
           t == pgdir[p]
           newsz == (sz[p] + n) % WORD
           u == deallocuvm(t, s, newsz)
           z == IF newsz = 0 THEN s ELSE newsz
<1>1. /\ state[p] = "LIVE" /\ pc[p] = "user" /\ Mapped(t) # {} /\ newsz < s
      /\ pgdir' = [pgdir EXCEPT ![p] = u]
      /\ free' = free \union (FramesOf(t) \ FramesOf(pgdir'[p]))
      /\ sz' = [sz EXCEPT ![p] = z]
      /\ UNCHANGED <<bootvars, state, parent, kstack, pc, new, loc, panicked>>
  BY Zenon DEF sbrkShrink, Calls, InUser
<1>2. s \in Nat /\ t \in Table /\ newsz \in Nat
  <2>1. n \in Int /\ s \in Nat /\ t \in Table
    BY TypesOf, SizeTypes DEF Deltas
  <2>2. s + n \in Int /\ WORD \in Nat /\ WORD > 0
    BY <2>1, SizeTypes
  <2>3. (s + n) % WORD \in Nat
    BY <2>2
  <2> QED BY <2>1, <2>3, Zenon
<1>3. /\ kstack[p] # 0 /\ s <= KERNBASE /\ Mapped(t) = Covered(s)
      /\ new[p] = NoTable /\ loc[p] = Idle
  BY <1>1, TypesOf, Zenon DEF POK, ProcOK, CallOK
<1> HIDE DEF s, t, newsz
<1>4. PGROUNDUP(s) \in Nat /\ PGROUNDUP(newsz) <= PGROUNDUP(s) /\ PGROUNDUP(s) <= PGROUNDUP(s)
  <2>1. PGROUNDUP(s) \in Nat /\ newsz <= s
    BY <1>1, <1>2, RoundUp
  <2> QED BY <1>2, <2>1, RoundUpBounds
<1>5. Mapped(t) = Below(PGROUNDUP(s))
  BY <1>2, <1>3, CoveredIsBelow, Zenon
<1>6. /\ u \in Table /\ Mapped(u) = Covered(newsz)
      /\ \A e \in Entry : u[e] = 0 \/ u[e] = t[e]
  BY <1>2, <1>4, <1>5, DeallocTable, Zenon
<1>7. Covered(0) = {}
  <2>1. \A j \in Pages : ~(j < PGROUNDUP(0))
    BY RoundUpBounds, SizeTypes DEF Pages
  <2> QED BY <2>1, CoveredIsBelow, Zenon DEF Below
<1> HIDE DEF u
<1>8. free' = free \union (FramesOf(t) \ FramesOf(u))
  BY <1>1, Types, Zenon
<1>9. Accounted(Holding(kstack, [pgdir EXCEPT ![p] = u], new, apstack, Stack, kpgdir),
                free', Managed)
  BY <1>6, <1>8, Types, GivePgdir, Zenon DEF Table, t
<1>10. FramesOf(t) \subseteq Frame
  BY <1>2, Zenon DEF FramesOf, Table
<1>11. free' \subseteq Frame /\ Idle \in Locals /\ NoTable \in Table
  BY <1>8, <1>10, Types, MemoryAssumption, SMTT(60) DEF Idle, Locals
<1>12. /\ new' = [new EXCEPT ![p] = NoTable] /\ [new EXCEPT ![p] = NoTable] = new
       /\ pc' = [pc EXCEPT ![p] = "user"] /\ loc' = [loc EXCEPT ![p] = Idle]
  BY <1>1, <1>3, Types, Zenon
<1>13. z \in Nat /\ z <= KERNBASE
  BY <1>1, <1>2, <1>3, SizeTypes
<1>14. Mapped(u) = Covered(z) \/ Mapped(u) = {}
  BY <1>6, <1>7, Zenon
<1> HIDE DEF z
<1>15. ProcOK(state[p], kstack[p], z, u, "user", NoTable, Idle)
  BY <1>1, <1>3, <1>13, <1>14, Zenon DEF ProcOK, CallOK
<1>16. Accounted(Holding(kstack, [pgdir EXCEPT ![p] = u], [new EXCEPT ![p] = NoTable], apstack,
                         Stack, kpgdir), free', Managed)
  BY <1>9, <1>12, Zenon
<1> QED BY <1>1, <1>6, <1>11, <1>12, <1>13, <1>15, <1>16, ImageStep, Zenon

\* bad: the table under construction is freed, and fork gives up the child.
LEMMA StepBad ==
  ASSUME MInv, NEW p \in Proc, state[p] = "LIVE", pc[p] \notin {"user", "grow"}, bad(p)
  PROVE  MInv'
<1>0. PICK q \in Proc : q = loc[p].np
  BY TypesOf, Zenon
<1>1. /\ new' = [new EXCEPT ![p] = NoTable] /\ pc' = [pc EXCEPT ![p] = "user"]
      /\ loc' = [loc EXCEPT ![p] = Idle]
      /\ UNCHANGED <<bootvars, parent, sz, pgdir, panicked>>
  BY Zenon DEF bad
<1>2. /\ Idle \in Locals /\ NoTable \in Table /\ "user" \in Pcs
      /\ FramesOf(new[p]) \subseteq Frame
  <2>1. new[p] \in Table
    BY TypesOf, Zenon
  <2>2. FramesOf(new[p]) \subseteq Frame
    BY <2>1, Zenon DEF FramesOf, Table
  <2> QED BY <2>2, Types, MemoryAssumption DEF Idle, Locals, Pcs
<1>3. /\ kstack[p] # 0 /\ sz[p] <= KERNBASE /\ Mapped(pgdir[p]) = Covered(sz[p])
  BY TypesOf, Zenon DEF POK, ProcOK
<1>4. ProcOK("LIVE", kstack[p], sz[p], pgdir[p], "user", NoTable, Idle)
  BY <1>3, Zenon DEF ProcOK, CallOK
<1>5. Booting' /\ Managed' = Managed /\ Stack' = Stack
  BY <1>1, BootKept, Zenon
<1>6. Accounted(Holding(kstack, pgdir, new', apstack, Stack, kpgdir),
                free \union FramesOf(new[p]), Managed)
  BY <1>1, Types, GiveNew, Zenon DEF Table
<1>7. /\ new'[p] = NoTable /\ pc'[p] = "user" /\ loc'[p] = Idle
      /\ new' \in [Proc -> Table] /\ pc' \in [Proc -> Pcs] /\ loc' \in [Proc -> Locals]
      /\ UNCHANGED <<kpgdir, apstack, boot, ap, slot, use_lock>>
      /\ \A r \in Proc : r # p => new'[r] = new[r] /\ pc'[r] = pc[r] /\ loc'[r] = loc[r]
  BY <1>1, <1>2, Types, Zenon DEF bootvars
<1>8. CASE ~Forking(p)
  <2>1. free' = free \union FramesOf(new[p]) /\ UNCHANGED <<kstack, state>>
    BY <1>8, Zenon DEF bad, Forking
  <2>2. TypeOK'
    BY <1>1, <1>2, <1>7, <2>1, Zenon DEF MInv, TypeOK, Table, Locals
  <2>3. \A r \in Proc \ {p} : Same(r)
    BY <1>1, <1>7, <2>1, Zenon DEF Same
  <2>4. POK(p)'
    BY <1>1, <1>4, <1>7, <2>1, Zenon DEF POK
  <2>5. Procs'
    BY <2>3, <2>4, OneKept, Zenon
  <2>6. \A r \in Proc : Forking(r)' => Forking(r) /\ loc'[r].np = loc[r].np
    BY <1>7, Zenon DEF Forking
  <2>7. Forks'
    BY <1>1, <2>1, <2>6, ForksKept, Zenon DEF MInv
  <2>8. Accounts'
    BY <1>1, <1>5, <1>6, <1>7, <2>1, Zenon DEF Accounts
  <2> QED BY <1>1, <1>5, <2>2, <2>5, <2>7, <2>8, Zenon DEF MInv, NoPanic
<1>9. CASE Forking(p)
  <2>1. /\ free' = free \union FramesOf(new[p]) \union {kstack[q]}
        /\ kstack' = [kstack EXCEPT ![q] = 0] /\ state' = [state EXCEPT ![q] = "UNUSED"]
    BY <1>0, <1>9, Zenon DEF bad, Forking
  <2>2. state[q] = "EMBRYO" /\ pgdir[q] = NoTable /\ q # p
        /\ \A r \in Proc : Forking(r) /\ loc[r].np = q => r = p
    BY <1>0, <1>9, Zenon DEF MInv, Forks
  <2>3. kstack[q] # 0 /\ pc[q] = "user" /\ new[q] = NoTable /\ loc[q] = Idle
    BY <1>2, <2>2, TypesOf, Zenon DEF POK, ProcOK, CallOK
  <2>4. /\ kstack'[q] = 0 /\ state'[q] = "UNUSED" /\ kstack' \in [Proc -> Frame \union {0}]
        /\ state' \in [Proc -> {"UNUSED", "EMBRYO", "LIVE", "ZOMBIE"}]
        /\ \A r \in Proc : r # q => kstack'[r] = kstack[r] /\ state'[r] = state[r]
        /\ free' \subseteq Frame
    BY <1>2, <2>1, <2>3, Types, Zenon
  <2>5. TypeOK'
    BY <1>1, <1>7, <2>4, Zenon DEF MInv, TypeOK, Table, Locals
  <2>6. \A r \in Proc : r # p /\ r # q => Same(r)
    BY <1>1, <1>7, <2>4, Zenon DEF Same
  <2>7. POK(p)'
    BY <1>1, <1>4, <1>7, <2>2, <2>4, Zenon DEF POK
  <2>8. POK(q)'
    BY <1>1, <1>2, <1>7, <2>2, <2>3, <2>4, Zenon DEF POK, ProcOK, CallOK
  <2>9. Procs'
    BY <1>2, <2>6, <2>7, <2>8, OthersKept, Zenon DEF MInv
  <2>10. Forks'
    <3>1. ASSUME NEW r \in Proc, Forking(r)'
          PROVE  Forking(r) /\ loc'[r].np = loc[r].np /\ loc[r].np # q /\ loc[r].np \in Proc
      BY <1>7, <2>2, <3>1, TypesOf, Zenon DEF Forking
    <3>2. ASSUME NEW r \in Proc, Forking(r)'
          PROVE  state'[loc'[r].np] = "EMBRYO" /\ pgdir'[loc'[r].np] = NoTable
      BY <1>1, <2>4, <3>1, <3>2, SMTT(60) DEF MInv, Forks
    <3>3. ASSUME NEW r \in Proc, Forking(r)', NEW k \in Proc, Forking(k)', loc'[k].np = loc'[r].np
          PROVE  k = r
      BY <3>1, <3>3, Zenon DEF MInv, Forks
    <3> QED BY <3>2, <3>3, Zenon DEF Forks
  <2>11. Accounted(Holding(kstack', pgdir, new', apstack, Stack, kpgdir),
                   (free \union FramesOf(new[p])) \union {kstack[q]}, Managed)
    BY <1>2, <1>6, <2>1, <2>3, Types, GiveKstack, Zenon
  <2>12. Accounts'
    BY <1>1, <1>5, <1>7, <2>1, <2>11, Zenon DEF Accounts
  <2> QED BY <1>1, <1>5, <2>5, <2>9, <2>10, <2>12, Zenon DEF MInv, NoPanic
<1> QED BY <1>8, <1>9, Zenon

\* fork takes an UNUSED entry, which is nobody else's child.
LEMMA StepFork ==
  ASSUME MInv, NEW p \in Proc, NEW q \in Proc, fork(p, q) PROVE MInv'
<1> DEFINE f == kalloc(free)
           l == [loc[p] EXCEPT !.np = q]
<1>1. /\ state[p] = "LIVE" /\ pc[p] = "user" /\ Mapped(pgdir[p]) # {}
      /\ state[q] = "UNUSED" /\ free # {} /\ state' = [state EXCEPT ![q] = "EMBRYO"]
      /\ kstack' = [kstack EXCEPT ![q] = f] /\ free' = free \ {f}
      /\ loc' = [loc EXCEPT ![p].np = q] /\ pc' = [pc EXCEPT ![p] = "kvmfork"]
      /\ UNCHANGED <<bootvars, parent, sz, pgdir, new, panicked>>
  BY Zenon DEF fork, Calls, InUser
<1>2. /\ f \in free /\ f # 0 /\ f \in Frame /\ "kvmfork" \in Pcs /\ p # q
      /\ UNCHANGED <<kpgdir, apstack, boot, ap, slot, use_lock>>
  BY <1>1, Types, KallocIsFree, Zenon DEF Pcs, bootvars
<1>3. /\ kstack[q] = 0 /\ pgdir[q] = NoTable /\ pc[q] = "user" /\ new[q] = NoTable /\ loc[q] = Idle
  BY <1>1, TypesOf, Zenon DEF POK, ProcOK, CallOK
<1>4. /\ kstack[p] # 0 /\ sz[p] <= KERNBASE /\ Mapped(pgdir[p]) = Covered(sz[p])
      /\ new[p] = NoTable /\ loc[p] = Idle
  BY <1>1, TypesOf, Zenon DEF POK, ProcOK, CallOK
<1>5. l \in Locals /\ loc' = [loc EXCEPT ![p] = l]
  <2>1. loc \in [Proc -> Locals] /\ <<>> \in Seq(Header) /\ 0 \in Nat
    BY Types
  <2> QED BY <1>1, <2>1, LocalUpdates, Zenon
<1>6. l.np = q /\ l.a = 0
  BY <1>4, MemoryAssumption DEF Idle
<1> HIDE DEF f, l
<1>7. /\ kstack' \in [Proc -> Frame \union {0}] /\ free' \subseteq Frame
      /\ state' \in [Proc -> {"UNUSED", "EMBRYO", "LIVE", "ZOMBIE"}]
      /\ pc' \in [Proc -> Pcs] /\ loc' \in [Proc -> Locals]
      /\ kstack'[q] = f /\ state'[q] = "EMBRYO" /\ pc'[p] = "kvmfork" /\ loc'[p] = l
  BY <1>1, <1>2, <1>5, Types
<1>8. /\ \A r \in Proc : r # q => kstack'[r] = kstack[r] /\ state'[r] = state[r]
      /\ \A r \in Proc : r # p => pc'[r] = pc[r] /\ loc'[r] = loc[r]
  BY <1>1, <1>5, Types
<1>9. TypeOK'
  BY <1>1, <1>2, <1>7, Zenon DEF MInv, TypeOK, Locals
<1>10. \A r \in Proc : r # p /\ r # q => Same(r)
  BY <1>1, <1>8, Zenon DEF Same
<1>11. KvmBuilt(NoTable, 0)
  BY SizeTypes DEF KvmBuilt, NoTable
<1>12. ProcOK("LIVE", kstack[p], sz[p], pgdir[p], "kvmfork", NoTable, l)
  BY <1>4, <1>6, <1>11, Zenon DEF ProcOK, CallOK
<1>13. POK(p)'
  BY <1>1, <1>2, <1>4, <1>7, <1>8, <1>12, Zenon DEF POK
<1>14. ProcOK("EMBRYO", f, sz[q], NoTable, "user", NoTable, Idle)
  BY <1>2, Types, Zenon DEF ProcOK, CallOK
<1>15. POK(q)'
  BY <1>1, <1>2, <1>3, <1>7, <1>8, <1>14, Zenon DEF POK
<1>16. Procs'
  BY <1>10, <1>13, <1>15, OthersKept, Zenon DEF MInv
<1>17. Forks'
  <2>1. ASSUME NEW r \in Proc, r # p, Forking(r)'
        PROVE  /\ Forking(r) /\ loc'[r].np = loc[r].np /\ loc[r].np \in Proc /\ loc[r].np # q
               /\ state[loc[r].np] = "EMBRYO" /\ pgdir[loc[r].np] = NoTable
    <3>1. Forking(r) /\ loc'[r].np = loc[r].np /\ loc[r].np \in Proc
      BY <1>8, <2>1, TypesOf, Zenon DEF Forking
    <3>2. state[loc[r].np] = "EMBRYO" /\ pgdir[loc[r].np] = NoTable
      BY <3>1, Zenon DEF MInv, Forks
    <3> QED BY <1>1, <3>1, <3>2, Zenon
  <2>2. loc'[p].np = q
    BY <1>6, <1>7, Zenon
  <2>3. ASSUME NEW r \in Proc, Forking(r)'
        PROVE  state'[loc'[r].np] = "EMBRYO" /\ pgdir'[loc'[r].np] = NoTable
    BY <1>1, <1>3, <1>7, <1>8, <2>1, <2>2, <2>3
  <2>4. ASSUME NEW r \in Proc, Forking(r)', NEW k \in Proc, Forking(k)', loc'[k].np = loc'[r].np
        PROVE  k = r
    <3>1. CASE r # p /\ k # p
      BY <2>1, <2>4, <3>1, Zenon DEF MInv, Forks
    <3>2. CASE r = p \/ k = p
      BY <2>1, <2>2, <2>4, <3>2, Zenon
    <3> QED BY <3>1, <3>2, Zenon
  <2> QED BY <2>3, <2>4, Zenon DEF Forks
<1>18. Booting' /\ Managed' = Managed /\ Stack' = Stack
  <2>1. boot = "sched"
    BY <1>1, Zenon DEF MInv, Booting
  <2>2. Starting' <=> Starting
    BY <1>2, Zenon DEF Starting
  <2> QED BY <1>2, <2>1, <2>2, Zenon DEF MInv, Booting, Managed, Stack
<1>19. Accounted(Holding(kstack', pgdir, new, apstack, Stack, kpgdir), free', Managed)
  BY <1>1, <1>2, <1>3, Types, TakeKstack, Zenon
<1>20. Accounts'
  BY <1>1, <1>2, <1>18, <1>19, Zenon DEF Accounts
<1> QED BY <1>1, <1>9, <1>16, <1>17, <1>18, <1>20, Zenon DEF MInv, NoPanic

\* setupkvm fills the kernel's entries one by one, or gives up.
LEMMA StepSetupkvm ==
  ASSUME MInv, NEW p \in Proc, setupkvm(p) PROVE MInv'
<1> DEFINE a == loc[p].a
           n == new[p]
<1>1. state[p] = "LIVE" /\ pc[p] \in {"kvmfork", "kvmexec"}
  BY Zenon DEF setupkvm, InCall
<1>2. a \in Nat /\ n \in Table /\ loc[p] \in Locals
  BY TypesOf, Zenon
<1>3. /\ kstack[p] # 0 /\ sz[p] <= KERNBASE /\ Mapped(pgdir[p]) = Covered(sz[p])
      /\ KvmBuilt(n, a) /\ (pc[p] = "kvmexec" => loc[p].esz = 0)
  BY <1>1, TypesOf, Zenon DEF POK, ProcOK, CallOK
<1>4. Mapped(n) = {}
  <2>1. ASSUME NEW j \in Pages PROVE n[Pte(j)] = 0
    <3>1. Pte(j) \in Entry /\ \A i \in 0 .. KTABS : KvmEntry(i) # Pte(j)
      BY PageEntries, KernelEntries, Zenon
    <3> QED BY <1>3, <3>1, Zenon DEF KvmBuilt
  <2> QED BY <2>1, Zenon DEF Mapped
<1>5. Below(0) = {} /\ Covered(0) = {} /\ PGROUNDUP(0) = 0
  <2>1. Below(0) = {}
    BY SizeTypes DEF Below, Pages
  <2> QED BY <2>1, CoveredIsBelow, RoundUpBounds, Zenon
<1>6. CASE a > KTABS
  <2> DEFINE c == IF pc[p] = "kvmfork" THEN "copy" ELSE "load"
             l == [loc[p] EXCEPT !.a = 0]
  <2>1. /\ pc' = [pc EXCEPT ![p] = c] /\ loc' = [loc EXCEPT ![p].a = 0]
        /\ UNCHANGED <<free, new, procvars, bootvars, panicked>>
    BY <1>6, Zenon DEF setupkvm
  <2>2. l \in Locals /\ loc' = [loc EXCEPT ![p] = l]
    <3>1. loc \in [Proc -> Locals] /\ <<>> \in Seq(Header) /\ 0 \in Nat
      BY Types
    <3> QED BY <2>1, <3>1, LocalUpdates, Zenon
  <2>3. l.a = 0 /\ l.esz = loc[p].esz /\ l.np = loc[p].np
    BY <1>2, Zenon DEF Locals
  <2> HIDE DEF l
  <2>4. PGROUNDUP(sz[p]) \in Nat /\ 0 < KERNBASE
    BY TypesOf, RoundUp, SizeTypes, Zenon
  <2>5. CallOK(sz[p], pgdir[p], c, n, l)
    BY <1>1, <1>3, <1>4, <1>5, <2>3, <2>4 DEF CallOK
  <2>6. ProcOK(state[p], kstack[p], sz[p], pgdir[p], c, new[p], l)
    BY <1>1, <1>3, <2>5, Zenon DEF ProcOK
  <2>7. c \in Pcs /\ (c \in {"kvmfork", "copy"} => Forking(p) /\ l.np = loc[p].np)
    BY <1>1, <2>3, Zenon DEF Pcs, Forking
  <2>8. UNCHANGED <<free, bootvars, procvars, new, panicked>>
    BY <2>1, Zenon
  <2> HIDE DEF c
  <2> QED BY <1>1, <2>1, <2>2, <2>6, <2>7, <2>8, LocalStep, Zenon
<1>7. CASE ~(a > KTABS) /\ free # {}
  <2> DEFINE f == kalloc(free)
             e == KvmEntry(a)
             t == [n EXCEPT ![e] = f]
             l == [loc[p] EXCEPT !.a = a + 1]
  <2>1. /\ new' = [new EXCEPT ![p][e] = f] /\ free' = free \ {f}
        /\ loc' = [loc EXCEPT ![p].a = loc[p].a + 1]
        /\ UNCHANGED <<pc, procvars, bootvars, panicked>>
    BY <1>7, Zenon DEF setupkvm
  <2>2. /\ a \in 0 .. KTABS /\ e \in Entry /\ f \in free /\ f \in Frame
        /\ \A k \in 0 .. KTABS : e = KvmEntry(k) => a = k
    BY <1>2, <1>7, Types, KallocIsFree, KernelEntries, SizeTypes, SMTT(60)
  <2>3. n[e] = 0
    BY <1>2, <1>3, <2>2, SizeTypes, SMTT(60) DEF KvmBuilt
  <2>4. l \in Locals /\ loc' = [loc EXCEPT ![p] = l]
    <3>1. loc \in [Proc -> Locals] /\ <<>> \in Seq(Header) /\ a + 1 \in Nat
      BY <1>2, Types, SMTT(60)
    <3> QED BY <2>1, <3>1, LocalUpdates, Zenon
  <2>5. l.a = a + 1 /\ l.esz = loc[p].esz /\ l.np = loc[p].np
    BY <1>2, Zenon DEF Locals
  <2>6. t \in Table /\ new' = [new EXCEPT ![p] = t]
    BY <1>2, <2>1, <2>2, Types, Zenon DEF Table
  <2>7. KvmBuilt(t, a + 1)
    <3>1. a + 1 <= KTABS + 1
      BY <2>2, SizeTypes
    <3>2. ASSUME NEW d \in Entry, t[d] # 0
          PROVE  \E k \in 0 .. KTABS : k < a + 1 /\ d = KvmEntry(k)
      <4>1. CASE d = e
        BY <2>2, <4>1, SizeTypes
      <4>2. CASE d # e
        <5>1. n[d] # 0
          BY <1>2, <2>2, <3>2, <4>2, Zenon DEF Table
        <5>2. PICK k \in 0 .. KTABS : k < a /\ d = KvmEntry(k)
          BY <1>3, <5>1, Zenon DEF KvmBuilt
        <5> QED BY <1>2, <5>2, SizeTypes
      <4> QED BY <4>1, <4>2, Zenon
    <3> QED BY <3>1, <3>2, Zenon DEF KvmBuilt
  <2>8. Accounted(Holding(kstack, pgdir, [new EXCEPT ![p] = t], apstack, Stack, kpgdir),
                  free', Managed)
    <3>1. new \in [Proc -> [Entry -> Frame \union {0}]] /\ 0 \notin Managed
      BY Types, Zenon DEF Table
    <3>2. Accounted(Holding(kstack, pgdir, new, apstack, Stack, kpgdir), free, Managed)
      BY Types, Zenon
    <3>3. new[p][e] = 0
      BY <2>3, Zenon
    <3> HIDE DEF f, e
    <3> QED BY <2>1, <2>2, <3>1, <3>2, <3>3, TakeNew, Zenon
  <2> HIDE DEF l, t
  <2>9. ProcOK(state[p], kstack[p], sz[p], pgdir[p], pc[p], t, l)
    BY <1>1, <1>3, <2>5, <2>7, Zenon DEF ProcOK, CallOK
  <2>10. free' \subseteq free /\ UNCHANGED <<bootvars, procvars, pc, panicked>>
    BY <2>1, Zenon
  <2> QED BY <1>1, <2>4, <2>5, <2>6, <2>8, <2>9, <2>10, BuildStep, Zenon
<1>8. CASE ~(a > KTABS) /\ free = {}
  BY <1>1, <1>8, StepBad, Zenon DEF setupkvm
<1> QED BY <1>6, <1>7, <1>8, Zenon

\* copyuvm finds every page of the parent and maps the next one of the child.
LEMMA StepCopyuvm ==
  ASSUME MInv, NEW p \in Proc, copyuvm(p) PROVE MInv'
<1> DEFINE a == loc[p].a
           n == new[p]
<1>1. state[p] = "LIVE" /\ pc[p] = "copy" /\ a * PGSIZE < sz[p]
  BY Zenon DEF copyuvm, InCall
<1>2. a \in Nat /\ n \in Table /\ sz[p] \in Nat /\ loc[p] \in Locals
  BY TypesOf, Zenon
<1>3. /\ kstack[p] # 0 /\ sz[p] <= KERNBASE /\ Mapped(pgdir[p]) = Covered(sz[p])
      /\ Mapped(n) = Below(a) /\ a <= PGROUNDUP(sz[p])
  BY <1>1, TypesOf, Zenon DEF POK, ProcOK, CallOK
<1>4. a < PGROUNDUP(sz[p]) /\ a < UPAGES /\ a + 1 <= PGROUNDUP(sz[p])
  BY <1>1, <1>2, <1>3, LoopNext, Zenon
<1>5. a \in Pages /\ n[Pte(a)] = 0
  BY <1>2, <1>3, <1>4, Types, MapNext, Zenon
<1>6. pgdir[p][Pte(a)] # 0
  BY <1>1, <1>3, <1>5, Zenon DEF Covered, Mapped
<1>7. CASE CanMap(n, a)
  <2> DEFINE t == mappages(n, a)
             l == [loc[p] EXCEPT !.a = a + 1]
  <2>1. /\ new' = [new EXCEPT ![p] = t] /\ free' = free \ MapFrames(n, a)
        /\ loc' = [loc EXCEPT ![p].a = loc[p].a + 1]
        /\ UNCHANGED <<pc, procvars, bootvars, panicked>>
    BY <1>6, <1>7, Zenon DEF copyuvm
  <2>2. l \in Locals /\ loc' = [loc EXCEPT ![p] = l]
    <3>1. loc \in [Proc -> Locals] /\ <<>> \in Seq(Header) /\ a + 1 \in Nat
      BY <1>2, Types
    <3> QED BY <2>1, <3>1, LocalUpdates, Zenon
  <2>3. l.a = a + 1 /\ l.np = loc[p].np
    BY <1>2, Zenon DEF Locals
  <2>4. t \in Table /\ Mapped(t) = Below(a + 1)
    BY <1>2, <1>3, <1>4, <1>5, <1>7, Types, MapTable, MapNext, Zenon
  <2>5. Accounted(Holding(kstack, pgdir, [new EXCEPT ![p] = t], apstack, Stack, kpgdir),
                  free', Managed)
    BY <1>5, <1>7, <2>1, Types, MapNew, Zenon
  <2> HIDE DEF l, t
  <2>7. ProcOK(state[p], kstack[p], sz[p], pgdir[p], pc[p], t, l)
    BY <1>1, <1>3, <1>4, <2>3, <2>4, Zenon DEF ProcOK, CallOK
  <2>8. free' \subseteq free /\ UNCHANGED <<bootvars, procvars, pc, panicked>>
    BY <2>1, Zenon
  <2>9. new' = [new EXCEPT ![p] = t] /\ t \in Table
    BY <2>1, <2>4, Zenon
  <2> QED BY <1>1, <2>2, <2>3, <2>5, <2>7, <2>8, <2>9, BuildStep, Zenon
<1>8. CASE ~CanMap(n, a)
  <2>1. bad(p)
    BY <1>6, <1>8, Zenon DEF copyuvm
  <2>2. pc[p] \notin {"user", "grow"}
    BY <1>1, Zenon
  <2> QED BY <1>1, <2>1, <2>2, StepBad, Zenon
<1> QED BY <1>7, <1>8, Zenon

\* fork hands the finished table to the child and makes it runnable.
LEMMA StepForkDone ==
  ASSUME MInv, NEW p \in Proc, forkDone(p) PROVE MInv'
<1> DEFINE a == loc[p].a
           n == new[p]
<1>0. PICK q \in Proc : q = loc[p].np
  BY TypesOf, Zenon
<1>1. /\ state[p] = "LIVE" /\ pc[p] = "copy" /\ a * PGSIZE >= sz[p]
      /\ pgdir' = [pgdir EXCEPT ![q] = n] /\ new' = [new EXCEPT ![p] = NoTable]
      /\ sz' = [sz EXCEPT ![q] = sz[p]] /\ parent' = [parent EXCEPT ![q] = p]
      /\ state' = [state EXCEPT ![q] = "LIVE"]
      /\ pc' = [pc EXCEPT ![p] = "user", ![q] = "user"]
      /\ loc' = [loc EXCEPT ![p] = Idle]
      /\ UNCHANGED <<free, bootvars, kstack, panicked>>
  BY <1>0, Zenon DEF forkDone, InCall
<1>2. a \in Nat /\ n \in Table /\ sz[p] \in Nat
  BY TypesOf, Zenon
<1>3. /\ kstack[p] # 0 /\ sz[p] <= KERNBASE /\ Mapped(pgdir[p]) = Covered(sz[p])
      /\ Mapped(n) = Below(a) /\ a <= PGROUNDUP(sz[p])
  BY <1>1, TypesOf, Zenon DEF POK, ProcOK, CallOK
<1>4. Mapped(n) = Covered(sz[p])
  <2>1. a = PGROUNDUP(sz[p])
    BY <1>1, <1>2, <1>3, LoopEnd, Zenon
  <2> QED BY <1>2, <1>3, <2>1, CoveredIsBelow, Zenon
<1>5. /\ state[q] = "EMBRYO" /\ pgdir[q] = NoTable /\ q # p
      /\ \A r \in Proc : Forking(r) /\ loc[r].np = q => r = p
  <2>1. Forking(p)
    BY <1>1, Zenon DEF Forking
  <2> QED BY <1>0, <1>1, <2>1, Zenon DEF MInv, Forks
<1>6. kstack[q] # 0 /\ pc[q] = "user" /\ new[q] = NoTable /\ loc[q] = Idle
  BY <1>5, TypesOf, Zenon DEF POK, ProcOK, CallOK
<1>7. Idle \in Locals /\ NoTable \in Table /\ "user" \in Pcs
  BY Types, MemoryAssumption DEF Idle, Locals, Pcs
<1> HIDE DEF n, a
<1>8. /\ pgdir' \in [Proc -> Table] /\ new' \in [Proc -> Table] /\ sz' \in [Proc -> Nat]
      /\ parent' \in [Proc -> Proc] /\ state' \in [Proc -> {"UNUSED", "EMBRYO", "LIVE", "ZOMBIE"}]
      /\ loc' \in [Proc -> Locals]
      /\ pgdir'[q] = n /\ new'[p] = NoTable /\ sz'[q] = sz[p] /\ state'[q] = "LIVE"
      /\ loc'[p] = Idle
  BY <1>1, <1>2, <1>7, Types, Zenon
<1>9. pc' \in [Proc -> Pcs] /\ pc'[p] = "user" /\ pc'[q] = "user"
      /\ \A r \in Proc : r # p => pc'[r] = pc[r]
  BY <1>1, <1>6, <1>7, Types, Zenon
<1>10. /\ \A r \in Proc : r # p => new'[r] = new[r] /\ loc'[r] = loc[r]
       /\ \A r \in Proc : r # q => pgdir'[r] = pgdir[r] /\ sz'[r] = sz[r] /\ state'[r] = state[r]
       /\ UNCHANGED <<kpgdir, apstack, boot, ap, slot, use_lock>>
  BY <1>1, Types, Zenon DEF bootvars
<1>11. TypeOK'
  BY <1>1, <1>8, <1>9, <1>10, Zenon DEF MInv, TypeOK, Locals, Table
<1>12. \A r \in Proc : r # p /\ r # q => Same(r)
  BY <1>1, <1>9, <1>10, Zenon DEF Same
<1>13. ProcOK("LIVE", kstack[p], sz[p], pgdir[p], "user", NoTable, Idle)
  BY <1>3, Zenon DEF ProcOK, CallOK
<1>14. ProcOK("LIVE", kstack[q], sz[p], n, "user", NoTable, Idle)
  BY <1>3, <1>4, <1>6, Zenon DEF ProcOK, CallOK
<1>15. POK(p)'
  BY <1>1, <1>5, <1>8, <1>9, <1>10, <1>13, ZenonT(60) DEF POK
<1>16. POK(q)'
  BY <1>1, <1>5, <1>6, <1>8, <1>9, <1>10, <1>14, SMTT(60) DEF POK
<1>17. Procs'
  BY <1>12, <1>15, <1>16, OthersKept, Zenon DEF MInv
<1>18. Forks'
  <2>1. ASSUME NEW r \in Proc, Forking(r)'
        PROVE  Forking(r) /\ loc'[r].np = loc[r].np /\ loc[r].np # q /\ loc[r].np \in Proc
    BY <1>5, <1>9, <1>10, <2>1, TypesOf, Zenon DEF Forking
  <2>2. ASSUME NEW r \in Proc, Forking(r)'
        PROVE  state'[loc'[r].np] = "EMBRYO" /\ pgdir'[loc'[r].np] = NoTable
    BY <1>10, <2>1, <2>2, SMTT(60) DEF MInv, Forks
  <2>3. ASSUME NEW r \in Proc, Forking(r)', NEW k \in Proc, Forking(k)', loc'[k].np = loc'[r].np
        PROVE  k = r
    BY <2>1, <2>3, Zenon DEF MInv, Forks
  <2> QED BY <2>2, <2>3, Zenon DEF Forks
<1>19. Booting' /\ Managed' = Managed /\ Stack' = Stack
  <2>1. boot = "sched"
    BY <1>1, Zenon DEF MInv, Booting
  <2>2. Starting' <=> Starting
    BY <1>10, Zenon DEF Starting
  <2> QED BY <1>10, <2>1, <2>2, Zenon DEF MInv, Booting, Managed, Stack
<1>20. Accounted(Holding(kstack, pgdir', new', apstack, Stack, kpgdir), free, Managed)
  <2>1. /\ pgdir \in [Proc -> [Entry -> Frame \union {0}]]
        /\ new \in [Proc -> [Entry -> Frame \union {0}]]
        /\ Accounted(Holding(kstack, pgdir, new, apstack, Stack, kpgdir), free, Managed)
    BY Types, Zenon DEF Table
  <2>2. pgdir' = [pgdir EXCEPT ![q] = new[p]] /\ new' = [new EXCEPT ![p] = NoTable]
    BY <1>1, Zenon DEF n
  <2> QED BY <1>5, <2>1, <2>2, MoveTable, Zenon
<1>21. Accounts'
  BY <1>1, <1>10, <1>19, <1>20, Zenon DEF Accounts
<1> QED BY <1>1, <1>11, <1>17, <1>18, <1>19, <1>21, Zenon DEF MInv, NoPanic

\* exit keeps the stack and the table: wait returns them.
LEMMA StepExit ==
  ASSUME MInv, NEW p \in Proc, exit(p) PROVE MInv'
<1>1. /\ state[p] = "LIVE" /\ pc[p] = "user" /\ state' = [state EXCEPT ![p] = "ZOMBIE"]
      /\ parent' = [q \in Proc |-> IF parent[q] = p THEN initproc ELSE parent[q]]
      /\ UNCHANGED <<free, bootvars, sz, kstack, pgdir, pc, new, loc, panicked>>
  BY Zenon DEF exit, InUser
<1>2. /\ state' \in [Proc -> {"UNUSED", "EMBRYO", "LIVE", "ZOMBIE"}] /\ parent' \in [Proc -> Proc]
      /\ state'[p] = "ZOMBIE" /\ \A r \in Proc : r # p => state'[r] = state[r]
      /\ UNCHANGED <<kpgdir, apstack, boot, ap, slot, use_lock>>
  BY <1>1, Types, MemoryAssumption, Zenon DEF bootvars
<1>3. TypeOK'
  BY <1>1, <1>2, Zenon DEF MInv, TypeOK
<1>4. \A r \in Proc \ {p} : Same(r)
  BY <1>1, <1>2, Zenon DEF Same
<1>5. POK(p)'
  BY <1>1, <1>2, TypesOf, Zenon DEF POK, ProcOK
<1>6. Procs'
  BY <1>4, <1>5, OneKept, Zenon
<1>7. Forks'
  <2>1. \A r \in Proc : Forking(r)' => Forking(r) /\ loc'[r].np = loc[r].np
    BY <1>1, Zenon DEF Forking
  <2>2. \A r \in Proc : state[r] = "EMBRYO" => state'[r] = "EMBRYO" /\ pgdir'[r] = pgdir[r]
    BY <1>1, <1>2, Zenon
  <2> QED BY <2>1, <2>2, ForksKept, Zenon DEF MInv
<1>8. Booting' /\ Managed' = Managed /\ Stack' = Stack
  <2>1. boot = "sched"
    BY <1>1, Zenon DEF MInv, Booting
  <2>2. Starting' <=> Starting
    BY <1>2, Zenon DEF Starting
  <2> QED BY <1>2, <2>1, <2>2, Zenon DEF MInv, Booting, Managed, Stack
<1>9. Accounts'
  BY <1>1, <1>2, <1>8, Zenon DEF MInv, Accounts
<1> QED BY <1>1, <1>3, <1>6, <1>7, <1>8, <1>9, Zenon DEF MInv, NoPanic

\* wait returns the stack and every frame of the table of a zombie.
LEMMA StepWait ==
  ASSUME MInv, NEW p \in Proc, NEW q \in Proc, wait(p, q) PROVE MInv'
<1>1. /\ state[p] = "LIVE" /\ state[q] = "ZOMBIE"
      /\ free' = free \union {kstack[q]} \union FramesOf(pgdir[q])
      /\ kstack' = [kstack EXCEPT ![q] = 0] /\ pgdir' = [pgdir EXCEPT ![q] = NoTable]
      /\ parent' = [parent EXCEPT ![q] = initproc] /\ state' = [state EXCEPT ![q] = "UNUSED"]
      /\ UNCHANGED <<bootvars, sz, pc, new, loc, panicked>>
  BY Zenon DEF wait, Calls, InUser
<1>2. kstack[q] # 0 /\ pc[q] = "user" /\ new[q] = NoTable /\ loc[q] = Idle /\ NoTable \in Table
  BY <1>1, Types, TypesOf, Zenon DEF POK, ProcOK, CallOK
<1>3. /\ state' \in [Proc -> {"UNUSED", "EMBRYO", "LIVE", "ZOMBIE"}] /\ parent' \in [Proc -> Proc]
      /\ kstack' \in [Proc -> Frame \union {0}] /\ pgdir' \in [Proc -> Table]
      /\ state'[q] = "UNUSED" /\ kstack'[q] = 0 /\ pgdir'[q] = NoTable
      /\ \A r \in Proc : r # q =>
           state'[r] = state[r] /\ kstack'[r] = kstack[r] /\ pgdir'[r] = pgdir[r]
      /\ UNCHANGED <<kpgdir, apstack, boot, ap, slot, use_lock>>
  BY <1>1, <1>2, Types, MemoryAssumption, Zenon DEF bootvars
<1>4. FramesOf(pgdir[q]) \subseteq Frame /\ kstack[q] \in Frame /\ FramesOf(NoTable) = {}
  <2>1. pgdir[q] \in Table /\ kstack[q] \in Frame
    BY <1>2, Types, TypesOf, Zenon
  <2> QED BY <2>1, Zenon DEF FramesOf, Table, NoTable
<1>5. free' \subseteq Frame
  BY <1>1, <1>4, Types, Zenon
<1>6. TypeOK'
  BY <1>1, <1>3, <1>5, Zenon DEF MInv, TypeOK, Table
<1>7. \A r \in Proc \ {q} : Same(r)
  BY <1>1, <1>3, Zenon DEF Same
<1>8. ProcOK("UNUSED", 0, sz[q], NoTable, "user", NoTable, Idle)
  BY Zenon DEF ProcOK, CallOK
<1>9. POK(q)'
  BY <1>1, <1>2, <1>3, <1>8, Zenon DEF POK
<1>10. Procs'
  BY <1>7, <1>9, OneKept, Zenon
<1>11. Forks'
  <2>1. \A r \in Proc : Forking(r)' => Forking(r) /\ loc'[r].np = loc[r].np
    BY <1>1, Zenon DEF Forking
  <2>2. \A r \in Proc : state[r] = "EMBRYO" => state'[r] = "EMBRYO" /\ pgdir'[r] = pgdir[r]
    BY <1>1, <1>3, Zenon
  <2> QED BY <2>1, <2>2, ForksKept, Zenon DEF MInv
<1>12. Booting' /\ Managed' = Managed /\ Stack' = Stack
  <2>1. boot = "sched"
    BY <1>1, Zenon DEF MInv, Booting
  <2>2. Starting' <=> Starting
    BY <1>3, Zenon DEF Starting
  <2> QED BY <1>3, <2>1, <2>2, Zenon DEF MInv, Booting, Managed, Stack
<1>13. Accounted(Holding(kstack', pgdir, new, apstack, Stack, kpgdir),
                 free \union {kstack[q]}, Managed)
  BY <1>1, <1>2, Types, GiveKstack, Zenon
<1>14. Accounted(Holding(kstack', pgdir', new, apstack, Stack, kpgdir), free', Managed)
  <2>1. \A e \in Entry : NoTable[e] = 0
    BY Zenon DEF NoTable
  <2>2. /\ NoTable \in [Entry -> Frame \union {0}] /\ 0 \notin Managed
        /\ pgdir \in [Proc -> [Entry -> Frame \union {0}]]
    BY <1>2, Types, Zenon DEF Table
  <2>3. Accounted(Holding(kstack', [pgdir EXCEPT ![q] = NoTable], new, apstack, Stack, kpgdir),
                  (free \union {kstack[q]}) \union (FramesOf(pgdir[q]) \ FramesOf(NoTable)), Managed)
    BY <1>13, <2>1, <2>2, GivePgdir, Zenon
  <2>4. (free \union {kstack[q]}) \union (FramesOf(pgdir[q]) \ FramesOf(NoTable)) = free'
    BY <1>1, <1>4, Zenon
  <2> QED BY <1>1, <2>3, <2>4, Zenon
<1>15. Accounts'
  BY <1>1, <1>3, <1>12, <1>14, Zenon DEF Accounts
<1> QED BY <1>1, <1>6, <1>10, <1>11, <1>12, <1>15, Zenon DEF MInv, NoPanic

\* exec starts with an empty table.
LEMMA StepExec ==
  ASSUME MInv, NEW p \in Proc, NEW im \in Image, exec(p, im) PROVE MInv'
<1> DEFINE l == [loc[p] EXCEPT !.segs = im]
<1>1. /\ state[p] = "LIVE" /\ pc[p] = "user" /\ Mapped(pgdir[p]) # {}
      /\ loc' = [loc EXCEPT ![p].segs = im] /\ pc' = [pc EXCEPT ![p] = "kvmexec"]
      /\ UNCHANGED <<free, bootvars, procvars, new, panicked>>
  BY Zenon DEF exec, Calls, InUser
<1>2. /\ kstack[p] # 0 /\ sz[p] <= KERNBASE /\ Mapped(pgdir[p]) = Covered(sz[p])
      /\ new[p] = NoTable /\ loc[p] = Idle
  BY <1>1, TypesOf, Zenon DEF POK, ProcOK, CallOK
<1>3. im \in Seq(Header)
  BY ImageAssumption, Zenon
<1>4. l \in Locals /\ loc' = [loc EXCEPT ![p] = l]
  <2>1. loc \in [Proc -> Locals] /\ 0 \in Nat
    BY Types, Zenon
  <2> QED BY <1>1, <1>3, <2>1, LocalUpdates, Zenon
<1>5. l.a = 0 /\ l.esz = 0
  BY <1>2 DEF Idle
<1>6. KvmBuilt(NoTable, 0)
  BY SizeTypes DEF KvmBuilt, NoTable
<1> HIDE DEF l
<1>7. ProcOK(state[p], kstack[p], sz[p], pgdir[p], "kvmexec", new[p], l)
  BY <1>1, <1>2, <1>5, <1>6, Zenon DEF ProcOK, CallOK
<1>8. "kvmexec" \in Pcs
  BY Zenon DEF Pcs
<1> QED BY <1>1, <1>4, <1>7, <1>8, LocalStep, Zenon

\* allocuvm, entered by exec with the pages below oldsz mapped.
LEMMA StepEnterAllocuvm ==
  ASSUME MInv, NEW p \in Proc, state[p] = "LIVE", pc[p] = "load",
         NEW oldsz \in Nat, NEW newsz \in Nat, NEW where \in {"seg", "stack"},
         Mapped(new[p]) = Below(PGROUNDUP(oldsz)), newsz < oldsz => oldsz < KERNBASE,
         where = "seg" => /\ loc[p].segs # <<>>
                          /\ Head(loc[p].segs).vaddr \in Nat /\ Head(loc[p].segs).filesz \in Nat
                          /\ Head(loc[p].segs).vaddr + Head(loc[p].segs).filesz <= newsz,
         EnterAllocuvm(p, oldsz, newsz, where)
  PROVE  MInv'
<1> DEFINE result == IF newsz < oldsz THEN oldsz ELSE newsz
           a == PGROUNDUP(oldsz)
           l == [loc[p] EXCEPT !.a = a, !.lim = result]
<1>1. CASE newsz >= KERNBASE \/ result = 0
  <2>1. bad(p)
    BY <1>1, Zenon DEF EnterAllocuvm
  <2>2. pc[p] \notin {"user", "grow"}
    BY Zenon
  <2> QED BY <2>1, <2>2, StepBad, Zenon
<1>2. CASE ~(newsz >= KERNBASE \/ result = 0)
  <2>1. /\ pc' = [pc EXCEPT ![p] = where]
        /\ loc' = [loc EXCEPT ![p].a = a, ![p].lim = result]
        /\ UNCHANGED <<free, bootvars, procvars, new, panicked>>
    BY <1>2, Zenon DEF EnterAllocuvm
  <2>2. result \in Nat /\ oldsz <= result /\ newsz <= result /\ result < KERNBASE /\ KERNBASE \in Nat
    BY <1>2, SizeTypes
  <2>3. a \in Nat /\ a <= PGROUNDUP(result)
    BY <2>2, RoundUp, RoundUpBounds, Zenon
  <2> HIDE DEF result, a
  <2>4. l \in Locals /\ loc' = [loc EXCEPT ![p] = l]
    <3>1. loc \in [Proc -> Locals] /\ <<>> \in Seq(Header)
      BY Types, SMTT(60)
    <3> QED BY <2>1, <2>2, <2>3, <3>1, LocalUpdates, Zenon
  <2>5. l.a = a /\ l.lim = result /\ l.segs = loc[p].segs
    BY TypesOf DEF Locals
  <2> HIDE DEF l
  <2>6. /\ kstack[p] # 0 /\ sz[p] <= KERNBASE /\ Mapped(pgdir[p]) = Covered(sz[p])
    BY TypesOf, Zenon DEF POK, ProcOK
  <2>7. where = "seg" => /\ l.segs # <<>>
                         /\ Head(l.segs).vaddr + Head(l.segs).filesz <= l.lim
    <3>1. \A v, f \in Nat : v + f <= newsz => v + f <= result
      BY <2>2
    <3> QED BY <2>5, <3>1, Zenon
  <2>8. Mapped(new[p]) = Below(l.a) /\ l.a <= PGROUNDUP(l.lim) /\ l.lim < KERNBASE
    BY <2>2, <2>3, <2>5, Zenon DEF a
  <2>9. CallOK(sz[p], pgdir[p], where, new[p], l)
    BY <2>7, <2>8, Zenon DEF CallOK
  <2>10. ProcOK(state[p], kstack[p], sz[p], pgdir[p], where, new[p], l)
    BY <2>6, <2>9, Zenon DEF ProcOK
  <2>11. where \in Pcs /\ where \notin {"kvmfork", "copy"}
    BY Zenon DEF Pcs
  <2> QED BY <2>1, <2>4, <2>10, <2>11, LocalStep, Zenon
<1> QED BY <1>1, <1>2, Zenon

\* A program header that exec accepts ends inside the new size.
LEMMA HeaderFits ==
  ASSUME NEW ph \in Header, ~(ph.memsz < ph.filesz), ~(((ph.vaddr + ph.memsz) % WORD) < ph.vaddr)
  PROVE  /\ (ph.vaddr + ph.memsz) % WORD \in Nat /\ ph.vaddr \in Nat /\ ph.filesz \in Nat
         /\ ph.vaddr + ph.filesz <= (ph.vaddr + ph.memsz) % WORD
<1>1. WORD \in Nat /\ WORD > 0
  BY SizeTypes DEF WORD
<1>2. ph.vaddr \in 0 .. WORD - 1 /\ ph.memsz \in 0 .. WORD - 1 /\ ph.filesz \in 0 .. WORD - 1
  BY Zenon DEF Header
<1> DEFINE W == WORD
           v == ph.vaddr
           m == ph.memsz
           f == ph.filesz
<1>3. W \in Nat /\ W > 0 /\ v \in 0 .. W - 1 /\ m \in 0 .. W - 1 /\ f \in 0 .. W - 1
      /\ ~(m < f) /\ ~(((v + m) % W) < v)
  BY <1>1, <1>2, Zenon
<1> HIDE DEF W, v, m, f
<1>4. (v + m) % W = IF v + m < W THEN v + m ELSE v + m - W
  <2>1. CASE v + m < W
    BY <1>3, <2>1
  <2>2. CASE ~(v + m < W)
    BY <1>3, <2>2
  <2> QED BY <2>1, <2>2, Zenon
<1>5. (v + m) % W \in Nat /\ v \in Nat /\ f \in Nat /\ v + f <= (v + m) % W
  BY <1>3, <1>4
<1> QED BY <1>5, Zenon DEF W, v, m, f

\* exec reads the next program header.
LEMMA StepLoadHeader ==
  ASSUME MInv, NEW p \in Proc, NEW full \in BOOLEAN, loadHeader(p, full) PROVE MInv'
<1> DEFINE ph == Head(loc[p].segs)
           end == (ph.vaddr + ph.memsz) % WORD
<1>1. state[p] = "LIVE" /\ pc[p] = "load" /\ loc[p].segs # <<>>
  BY Zenon DEF loadHeader, InCall
<1>2. /\ loc[p] \in Locals /\ loc[p].segs \in Seq(Header) /\ loc[p].esz \in Nat
      /\ loc[p].np \in Proc
  BY TypesOf, Zenon
<1>3. ph \in Header /\ Tail(loc[p].segs) \in Seq(Header)
  BY <1>1, <1>2
<1>4. /\ kstack[p] # 0 /\ sz[p] <= KERNBASE /\ Mapped(pgdir[p]) = Covered(sz[p])
      /\ Mapped(new[p]) = Covered(loc[p].esz) /\ loc[p].esz < KERNBASE
  BY <1>1, TypesOf, Zenon DEF POK, ProcOK, CallOK
<1>5. pc[p] \notin {"user", "grow"}
  BY <1>1, Zenon
<1>6. CASE bad(p)
  BY <1>1, <1>5, <1>6, StepBad, Zenon
<1>7. CASE /\ full /\ ~ph.load /\ loc' = [loc EXCEPT ![p].segs = Tail(loc[p].segs)]
           /\ UNCHANGED <<free, bootvars, procvars, pc, new, panicked>>
  <2> DEFINE l == [loc[p] EXCEPT !.segs = Tail(loc[p].segs)]
  <2>1. l \in Locals /\ loc' = [loc EXCEPT ![p] = l]
    <3>1. loc \in [Proc -> Locals] /\ 0 \in Nat
      BY Types, Zenon
    <3> QED BY <1>2, <1>3, <1>7, <3>1, LocalUpdates, Zenon
  <2>2. l.esz = loc[p].esz
    BY <1>2, Zenon DEF Locals
  <2> HIDE DEF l
  <2>3. ProcOK(state[p], kstack[p], sz[p], pgdir[p], "load", new[p], l)
    BY <1>1, <1>4, <2>2, Zenon DEF ProcOK, CallOK
  <2>4. pc' = [pc EXCEPT ![p] = "load"] /\ "load" \in Pcs
    BY <1>1, <1>7, Types, Zenon DEF Pcs
  <2>5. UNCHANGED <<free, bootvars, procvars, new, panicked>>
    BY <1>7, Zenon
  <2> QED BY <1>1, <2>1, <2>3, <2>4, <2>5, LocalStep, Zenon
<1>8. CASE /\ ~(ph.memsz < ph.filesz) /\ ~(end < ph.vaddr)
           /\ EnterAllocuvm(p, loc[p].esz, end, "seg")
  <2>1. end \in Nat /\ ph.vaddr \in Nat /\ ph.filesz \in Nat /\ ph.vaddr + ph.filesz <= end
    <3> HIDE DEF ph
    <3> QED BY <1>3, <1>8, HeaderFits, Zenon
  <2>2. Mapped(new[p]) = Below(PGROUNDUP(loc[p].esz))
    BY <1>2, <1>4, CoveredIsBelow, Zenon
  <2> HIDE DEF end
  <2> QED BY <1>1, <1>2, <1>4, <1>8, <2>1, <2>2, StepEnterAllocuvm, Zenon
<1> QED BY <1>6, <1>7, <1>8, Zenon DEF loadHeader

\* allocuvm's loop in exec maps a page that is not mapped yet, or exec fails.
LEMMA StepExecAlloc ==
  ASSUME MInv, NEW p \in Proc, execAlloc(p) PROVE MInv'
<1> DEFINE a == loc[p].a
           lim == loc[p].lim
           n == new[p]
<1>1. state[p] = "LIVE" /\ pc[p] \in {"seg", "stack"} /\ a * PGSIZE < lim
  BY Zenon DEF execAlloc, InCall
<1>2. a \in Nat /\ lim \in Nat /\ n \in Table /\ loc[p] \in Locals
  BY TypesOf, Zenon
<1>3. /\ kstack[p] # 0 /\ sz[p] <= KERNBASE /\ Mapped(pgdir[p]) = Covered(sz[p])
      /\ Mapped(n) = Below(a) /\ a <= PGROUNDUP(lim) /\ lim < KERNBASE
      /\ pc[p] = "seg" => /\ loc[p].segs # <<>>
                          /\ Head(loc[p].segs).vaddr + Head(loc[p].segs).filesz <= lim
  BY <1>1, TypesOf, Zenon DEF POK, ProcOK, CallOK
<1>4. a < PGROUNDUP(lim) /\ a < UPAGES /\ a + 1 <= PGROUNDUP(lim)
  <2>1. lim <= KERNBASE
    BY <1>2, <1>3, SizeTypes
  <2> QED BY <1>1, <1>2, <2>1, LoopNext, Zenon
<1>5. a \in Pages /\ n[Pte(a)] = 0
  BY <1>2, <1>3, <1>4, Types, MapNext, Zenon
<1>6. CASE CanMap(n, a)
  <2> DEFINE t == mappages(n, a)
             l == [loc[p] EXCEPT !.a = a + 1]
  <2>1. /\ panicked' = (n[Pte(a)] # 0)
        /\ new' = [new EXCEPT ![p] = t] /\ free' = free \ MapFrames(n, a)
        /\ loc' = [loc EXCEPT ![p].a = loc[p].a + 1]
        /\ UNCHANGED <<pc, procvars, bootvars>>
    BY <1>6, Zenon DEF execAlloc
  <2>2. l \in Locals /\ loc' = [loc EXCEPT ![p] = l]
    <3>1. loc \in [Proc -> Locals] /\ <<>> \in Seq(Header) /\ a + 1 \in Nat
      BY <1>2, Types
    <3> QED BY <2>1, <3>1, LocalUpdates, Zenon
  <2>3. l.a = a + 1 /\ l.np = loc[p].np /\ l.lim = lim /\ l.segs = loc[p].segs
    BY <1>2, Zenon DEF Locals
  <2>4. t \in Table /\ Mapped(t) = Below(a + 1)
    BY <1>2, <1>3, <1>4, <1>5, <1>6, Types, MapTable, MapNext, Zenon
  <2>5. Accounted(Holding(kstack, pgdir, [new EXCEPT ![p] = t], apstack, Stack, kpgdir),
                  free', Managed)
    BY <1>5, <1>6, <2>1, Types, MapNew, Zenon
  <2> HIDE DEF l, t
  <2>7. CallOK(sz[p], pgdir[p], pc[p], t, l)
    BY <1>1, <1>3, <1>4, <2>3, <2>4, Zenon DEF CallOK
  <2>8. ProcOK(state[p], kstack[p], sz[p], pgdir[p], pc[p], t, l)
    BY <1>1, <1>3, <2>7, Zenon DEF ProcOK
  <2>9. free' \subseteq free /\ UNCHANGED <<bootvars, procvars, pc, panicked>>
    BY <1>5, <2>1, Types, Zenon
  <2>10. new' = [new EXCEPT ![p] = t] /\ t \in Table
    BY <2>1, <2>4, Zenon
  <2> QED BY <1>1, <2>2, <2>3, <2>5, <2>8, <2>9, <2>10, BuildStep, Zenon
<1>7. CASE ~CanMap(n, a)
  <2>1. bad(p)
    BY <1>7, Zenon DEF execAlloc
  <2>2. pc[p] \notin {"user", "grow"}
    BY <1>1, Zenon
  <2> QED BY <1>1, <2>1, <2>2, StepBad, Zenon
<1> QED BY <1>6, <1>7, Zenon

\* loaduvm finds every page of the segment.
LEMMA StepLoaduvm ==
  ASSUME MInv, NEW p \in Proc, NEW full \in BOOLEAN, loaduvm(p, full) PROVE MInv'
<1> DEFINE a == loc[p].a
           lim == loc[p].lim
           ph == Head(loc[p].segs)
           pages == {(ph.vaddr + i) \div PGSIZE : i \in 0 .. ph.filesz - 1}
<1>1. state[p] = "LIVE" /\ pc[p] = "seg" /\ a * PGSIZE >= lim
  BY Zenon DEF loaduvm, InCall
<1>2. /\ a \in Nat /\ lim \in Nat /\ loc[p] \in Locals /\ loc[p].segs \in Seq(Header)
      /\ loc[p].np \in Proc
  BY TypesOf, Zenon
<1>3. /\ kstack[p] # 0 /\ sz[p] <= KERNBASE /\ Mapped(pgdir[p]) = Covered(sz[p])
      /\ Mapped(new[p]) = Below(a) /\ a <= PGROUNDUP(lim) /\ lim < KERNBASE
      /\ loc[p].segs # <<>> /\ ph.vaddr + ph.filesz <= lim
  BY <1>1, TypesOf, Zenon DEF POK, ProcOK, CallOK
<1>4. ph \in Header /\ Tail(loc[p].segs) \in Seq(Header)
  BY <1>2, <1>3
<1>5. a = PGROUNDUP(lim)
  BY <1>1, <1>2, <1>3, LoopEnd, Zenon
<1>6. pages \subseteq Mapped(new[p])
  <2>1. ph.vaddr \in Nat /\ ph.filesz \in Nat
    <3> HIDE DEF ph
    <3>1. ph.vaddr \in 0 .. WORD - 1 /\ ph.filesz \in 0 .. WORD - 1
      BY <1>4, Zenon DEF Header
    <3>2. WORD \in Nat
      BY SizeTypes, Zenon DEF WORD
    <3> QED BY <3>1, <3>2
  <2> DEFINE v == ph.vaddr
             f == ph.filesz
  <2>2. v \in Nat /\ f \in Nat /\ v + f <= lim
    BY <1>3, <2>1, Zenon
  <2> HIDE DEF v, f, lim
  <2>3. ASSUME NEW i \in 0 .. f - 1 PROVE (v + i) \div PGSIZE \in Below(PGROUNDUP(lim))
    <3>1. v + i \in Nat /\ v + i < lim /\ lim <= KERNBASE
      BY <1>2, <1>3, <2>2, SizeTypes
    <3> QED BY <1>2, <3>1, PageOfAddress, Zenon
  <2> QED BY <1>3, <1>5, <2>3, Zenon DEF v, f
<1>7. CASE bad(p)
  <2>1. pc[p] \notin {"user", "grow"}
    BY <1>1, Zenon
  <2> QED BY <1>1, <1>7, <2>1, StepBad, Zenon
<1>8. CASE /\ loc' = [loc EXCEPT ![p].esz = loc[p].lim, ![p].segs = Tail(loc[p].segs)]
           /\ pc' = [pc EXCEPT ![p] = "load"]
           /\ UNCHANGED <<free, bootvars, procvars, new, panicked>>
  <2> DEFINE l == [loc[p] EXCEPT !.esz = lim, !.segs = Tail(loc[p].segs)]
  <2>1. l \in Locals /\ loc' = [loc EXCEPT ![p] = l]
    <3>1. loc \in [Proc -> Locals]
      BY Types, Zenon
    <3> QED BY <1>2, <1>4, <1>8, <3>1, LocalUpdates, Zenon
  <2>2. l.esz = lim
    BY <1>2, Zenon DEF Locals
  <2> HIDE DEF l
  <2>3. Mapped(new[p]) = Covered(lim)
    BY <1>2, <1>3, <1>5, CoveredIsBelow, Zenon
  <2>4. ProcOK(state[p], kstack[p], sz[p], pgdir[p], "load", new[p], l)
    BY <1>1, <1>3, <2>2, <2>3, Zenon DEF ProcOK, CallOK
  <2>5. "load" \in Pcs
    BY Zenon DEF Pcs
  <2> QED BY <1>1, <1>8, <2>1, <2>4, <2>5, LocalStep, Zenon
<1> HIDE DEF pages, ph
<1> QED BY <1>6, <1>7, <1>8, Zenon DEF loaduvm, pages, ph

\* exec makes room for the guard page and the stack.
LEMMA StepAllocStack ==
  ASSUME MInv, NEW p \in Proc, allocStack(p) PROVE MInv'
<1> DEFINE k == PGROUNDUP(loc[p].esz)
           base == k * PGSIZE
           top == base + 2 * PGSIZE
<1>1. state[p] = "LIVE" /\ pc[p] = "load" /\ EnterAllocuvm(p, base, top, "stack")
  BY Zenon DEF allocStack, InCall
<1>2. loc[p].esz \in Nat
  BY TypesOf, Zenon
<1>3. Mapped(new[p]) = Covered(loc[p].esz)
  BY <1>1, TypesOf, Zenon DEF POK, ProcOK, CallOK
<1>4. k \in Nat
  BY <1>2, RoundUp, Zenon
<1>5. Mapped(new[p]) = Below(k)
  BY <1>2, <1>3, CoveredIsBelow, Zenon
<1> HIDE DEF k
<1>6. base \in Nat /\ PGROUNDUP(base) = k
  BY <1>4, RoundUpWhole, Zenon
<1> HIDE DEF base
<1>7. top \in Nat /\ ~(top < base)
  BY <1>6, SizeTypes
<1>8. Mapped(new[p]) = Below(PGROUNDUP(base))
  BY <1>5, <1>6, Zenon
<1> HIDE DEF top
<1> QED BY <1>1, <1>6, <1>7, <1>8, StepEnterAllocuvm, Zenon

\* exec replaces the old image by the finished one and returns the old frames.
LEMMA StepExecCommit ==
  ASSUME MInv, NEW p \in Proc, NEW fits \in BOOLEAN, execCommit(p, fits) PROVE MInv'
<1> DEFINE a == loc[p].a
           lim == loc[p].lim
           n == new[p]
<1>1. state[p] = "LIVE" /\ pc[p] = "stack" /\ a * PGSIZE >= lim
  BY Zenon DEF execCommit, InCall
<1>2. a \in Nat /\ lim \in Nat /\ n \in Table /\ pgdir[p] \in Table
  BY TypesOf, Zenon
<1>3. /\ kstack[p] # 0 /\ Mapped(n) = Below(a) /\ a <= PGROUNDUP(lim) /\ lim < KERNBASE
  BY <1>1, TypesOf, Zenon DEF POK, ProcOK, CallOK
<1>4. CASE ~fits
  <2>1. bad(p)
    BY <1>4, Zenon DEF execCommit
  <2>2. pc[p] \notin {"user", "grow"}
    BY <1>1, Zenon
  <2> QED BY <1>1, <2>1, <2>2, StepBad, Zenon
<1>5. CASE fits
  <2>1. /\ pgdir' = [pgdir EXCEPT ![p] = n] /\ new' = [new EXCEPT ![p] = NoTable]
        /\ sz' = [sz EXCEPT ![p] = lim] /\ free' = free \union FramesOf(pgdir[p])
        /\ pc' = [pc EXCEPT ![p] = "user"] /\ loc' = [loc EXCEPT ![p] = Idle]
        /\ UNCHANGED <<bootvars, state, parent, kstack, panicked>>
    BY <1>5, Zenon DEF execCommit
  <2>2. a = PGROUNDUP(lim)
    BY <1>1, <1>2, <1>3, LoopEnd, Zenon
  <2>3. Mapped(n) = Covered(lim)
    BY <1>2, <1>3, <2>2, CoveredIsBelow, Zenon
  <2>4. lim <= KERNBASE
    BY <1>2, <1>3, SizeTypes
  <2>5. Idle \in Locals /\ NoTable \in Table /\ "user" \in {"user", "grow"}
    BY Types, MemoryAssumption, SMTT(60) DEF Idle, Locals
  <2>6. FramesOf(pgdir[p]) \subseteq Frame /\ FramesOf(NoTable) = {}
    BY <1>2, Zenon DEF FramesOf, Table, NoTable
  <2>7. free' \subseteq Frame
    BY <2>1, <2>6, Types, Zenon
  <2> DEFINE pg == [pgdir EXCEPT ![p] = NoTable]
  <2>8. /\ pgdir \in [Proc -> [Entry -> Frame \union {0}]] /\ 0 \notin Managed
        /\ new \in [Proc -> [Entry -> Frame \union {0}]] /\ NoTable \in [Entry -> Frame \union {0}]
    BY Types, Zenon DEF Table
  <2>9. Accounted(Holding(kstack, pg, new, apstack, Stack, kpgdir), free', Managed)
    <3>1. \A e \in Entry : NoTable[e] = 0
      BY Zenon DEF NoTable
    <3>2. Accounted(Holding(kstack, pgdir, new, apstack, Stack, kpgdir), free, Managed)
      BY Types, Zenon
    <3>3. Accounted(Holding(kstack, pg, new, apstack, Stack, kpgdir),
                    free \union (FramesOf(pgdir[p]) \ FramesOf(NoTable)), Managed)
      BY <2>8, <3>1, <3>2, GivePgdir, Zenon
    <3>4. free \union (FramesOf(pgdir[p]) \ FramesOf(NoTable)) = free'
      BY <2>1, <2>6, Zenon
    <3> QED BY <3>3, <3>4, Zenon
  <2>10. pg \in [Proc -> [Entry -> Frame \union {0}]] /\ pg[p] = NoTable
         /\ [pg EXCEPT ![p] = n] = [pgdir EXCEPT ![p] = n]
    BY <2>8, Zenon
  <2>11. Accounted(Holding(kstack, [pgdir EXCEPT ![p] = n], [new EXCEPT ![p] = NoTable], apstack,
                           Stack, kpgdir), free', Managed)
    <3> HIDE DEF pg
    <3>1. Accounted(Holding(kstack, [pg EXCEPT ![p] = new[p]], [new EXCEPT ![p] = NoTable], apstack,
                            Stack, kpgdir), free', Managed)
      BY <2>8, <2>9, <2>10, MoveTable, Zenon
    <3> QED BY <2>10, <3>1, Zenon
  <2> HIDE DEF a, lim, n
  <2>12. ProcOK(state[p], kstack[p], lim, n, "user", NoTable, Idle)
    BY <1>1, <1>3, <2>3, <2>4, Zenon DEF ProcOK, CallOK
  <2> QED BY <1>1, <1>2, <2>1, <2>5, <2>7, <2>11, <2>12, ImageStep, Zenon
<1> QED BY <1>4, <1>5, Zenon

-----------------------------------------------------------------------------
(* The invariant is inductive, and what follows from it.                   *)

\* Every step keeps the invariant.
LEMMA Inductive == MInv /\ [Next]_vars => MInv'
<1> SUFFICES ASSUME MInv, [Next]_vars PROVE MInv'
  BY Zenon
<1>1. CASE UNCHANGED vars
  <2>1. /\ UNCHANGED <<free, bootvars, procvars, pc, new, loc, panicked>>
        /\ UNCHANGED <<boot, ap, slot, apstack, kpgdir, use_lock>>
        /\ UNCHANGED <<state, parent, sz, kstack, pgdir>>
    BY <1>1, Zenon DEF vars, bootvars, procvars
  <2>2. TypeOK' /\ NoPanic'
    BY <2>1, Zenon DEF MInv, TypeOK, NoPanic
  <2>3. Procs'
    BY <2>1, Zenon DEF MInv, Procs
  <2>4. Forks'
    BY <2>1, Zenon DEF MInv, Forks, Forking
  <2>5. Booting' /\ Stack' = Stack /\ Managed' = Managed
    BY <2>1, Zenon DEF MInv, Booting, Stack, Starting, Managed
  <2>6. Accounts'
    BY <2>1, <2>5, Zenon DEF MInv, Accounts
  <2> QED BY <2>2, <2>3, <2>4, <2>5, <2>6, Zenon DEF MInv
<1>2. CASE kinit1 \/ kvmalloc \/ startothersDone \/ kinit2 \/ kinit2Lock \/ userinit
  BY <1>2, StepKinit1, StepKvmalloc, StepMain, StepKinit2, StepUserinit, Zenon
<1>3. ASSUME NEW c \in AP, startothers(c) \/ mpenter(c) PROVE MInv'
  BY <1>3, StepStartothers, StepMpenter, Zenon
<1>4. ASSUME NEW p \in Proc, NEW n \in Deltas, sbrkGrow(p, n) \/ sbrkShrink(p, n) PROVE MInv'
  BY <1>4, StepSbrkGrow, StepSbrkShrink, Zenon
<1>5. ASSUME NEW p \in Proc, NEW q \in Proc, fork(p, q) \/ wait(p, q) PROVE MInv'
  BY <1>5, StepFork, StepWait, Zenon
<1>6. ASSUME NEW p \in Proc,
             growStep(p) \/ growDone(p) \/ setupkvm(p) \/ copyuvm(p) \/ forkDone(p) \/ exit(p)
      PROVE MInv'
  BY <1>6, StepGrow, StepGrowDone, StepSetupkvm, StepCopyuvm, StepForkDone, StepExit, Zenon
<1>7. ASSUME NEW p \in Proc, NEW im \in Image, exec(p, im) PROVE MInv'
  BY <1>7, StepExec, Zenon
<1>8. ASSUME NEW p \in Proc, execAlloc(p) \/ allocStack(p) PROVE MInv'
  BY <1>8, StepExecAlloc, StepAllocStack, Zenon
<1>9. ASSUME NEW p \in Proc, NEW ok \in BOOLEAN,
             loadHeader(p, ok) \/ loaduvm(p, ok) \/ execCommit(p, ok)
      PROVE MInv'
  BY <1>9, StepLoadHeader, StepLoaduvm, StepExecCommit, Zenon
<1> QED BY <1>1, <1>2, <1>3, <1>4, <1>5, <1>6, <1>7, <1>8, <1>9, Zenon DEF Next

\* The invariant holds in every state that can be reached.
LEMMA Invariance == Spec => []MInv
BY InvInit, Inductive, PTL DEF Spec

\* What a place holds.
LEMMA HoldingIsHeld ==
  ASSUME NEW x \in Place
  PROVE  Holding(kstack, pgdir, new, apstack, Stack, kpgdir)[x] = Held(x)
BY Zenon DEF Holding, HeldAt, Held, Stack

\* The account of the invariant is the one of FramesAccounted.
LEMMA AccountsSuffice == MInv => FramesAccounted
<1> SUFFICES ASSUME MInv, NEW f \in Frame
             PROVE  LET holders == {x \in Place : Held(x) = f}
                    IN IF f \in free \/ f \notin Managed THEN holders = {}
                       ELSE \E x \in holders : holders = {x}
  BY Zenon DEF FramesAccounted
<1> DEFINE H == Holding(kstack, pgdir, new, apstack, Stack, kpgdir)
           holders == {x \in Place : Held(x) = f}
<1>1. Accounted(H, free, Managed) /\ f # 0
  BY Types, Zenon
<1>2. \A x \in Place : Held(x) = H[x]
  BY HoldingIsHeld, Zenon
<1> HIDE DEF H
<1>3. CASE f \in free \/ f \notin Managed
  <2>1. \A x \in Place : H[x] # f
    BY <1>1, <1>3, Zenon DEF Accounted
  <2>2. holders = {}
    BY <1>2, <2>1, Zenon
  <2> QED BY <1>3, <2>2, Zenon
<1>4. CASE ~(f \in free \/ f \notin Managed)
  <2>1. PICK x \in Place : H[x] = f
    BY <1>1, <1>4, Zenon DEF Accounted
  <2>2. \A y \in Place : H[y] = f => y = x
    BY <1>1, <2>1, Zenon DEF Accounted
  <2>3. holders = {x} /\ x \in holders
    BY <1>2, <2>1, <2>2, Zenon
  <2> QED BY <1>4, <2>3, Zenon
<1> QED BY <1>3, <1>4, Zenon

\* A block that starts below s and whose end, in uint arithmetic, is not
\* above s lies in the pages below s.
LEMMA BlockIsMapped ==
  ASSUME NEW s \in Nat, s <= KERNBASE, NEW i \in Nat, i < s,
         NEW n \in Nat, n <= KERNBASE, (i + n) % WORD <= s
  PROVE  {x \div PGSIZE : x \in i .. i + n - 1} \subseteq Covered(s)
<1>1. KERNBASE \in Nat /\ WORD = KERNBASE + KERNBASE
  BY SizeTypes, Zenon
<1>2. i + n <= s
  <2> DEFINE K == KERNBASE
             W == WORD
  <2>1. K \in Nat /\ W = K + K /\ s <= K /\ n <= K /\ (i + n) % W <= s
    BY <1>1, Zenon
  <2> HIDE DEF K, W
  <2>2. i + n < W /\ i + n \in Nat /\ W \in Nat
    BY <2>1
  <2>3. (i + n) % W = i + n
    BY <2>2
  <2> QED BY <2>1, <2>3, Zenon
<1>3. ASSUME NEW x \in i .. i + n - 1 PROVE x \div PGSIZE \in Below(PGROUNDUP(s))
  <2>1. x \in Nat /\ x < s
    BY <1>2
  <2> QED BY <2>1, PageOfAddress, Zenon
<1>4. Covered(s) = Below(PGROUNDUP(s))
  BY CoveredIsBelow, Zenon
<1> QED BY <1>3, <1>4, Zenon

\* In user mode the pointer checks let through mapped memory only.
LEMMA ChecksSuffice == MInv => ArgumentsAreMapped
<1> DEFINE Touches(i, n) == {x \div PGSIZE : x \in i .. i + n - 1}
<1> SUFFICES ASSUME MInv, NEW p \in Proc, InUser(p), Mapped(pgdir[p]) # {}
             PROVE  /\ Mapped(pgdir[p]) = Covered(sz[p])
                    /\ \A i \in 0 .. WORD - 1 :
                         /\ fetchint(sz[p], i) => Touches(i, WSZ) \subseteq Mapped(pgdir[p])
                         /\ fetchstr(sz[p], i) => Touches(i, sz[p] - i) \subseteq Mapped(pgdir[p])
                         /\ \A size \in Deltas : argptr(sz[p], i, size) =>
                              Touches(i, size) \subseteq Mapped(pgdir[p])
  BY Zenon DEF ArgumentsAreMapped
<1>1. sz[p] \in Nat /\ sz[p] <= KERNBASE /\ Mapped(pgdir[p]) = Covered(sz[p])
  BY TypesOf, Zenon DEF POK, ProcOK, InUser
<1>2. KERNBASE \in Nat /\ WORD \in Nat /\ WORD = KERNBASE + KERNBASE
      /\ WSZ \in Nat /\ WSZ <= KERNBASE
  BY SizeTypes, ImageAssumption
<1>3. ASSUME NEW i \in 0 .. WORD - 1, fetchint(sz[p], i)
      PROVE  Touches(i, WSZ) \subseteq Mapped(pgdir[p])
  <2>1. i \in Nat /\ i < sz[p] /\ ~((i + WSZ) % WORD > sz[p])
    BY <1>1, <1>2, <1>3 DEF fetchint
  <2>2. (i + WSZ) % WORD <= sz[p]
    <3>1. (i + WSZ) % WORD \in Int
      BY <1>2, <2>1, SizeTypes
    <3> QED BY <1>1, <2>1, <3>1
  <2> QED BY <1>1, <1>2, <2>1, <2>2, BlockIsMapped, Zenon
<1>4. ASSUME NEW i \in 0 .. WORD - 1, fetchstr(sz[p], i)
      PROVE  Touches(i, sz[p] - i) \subseteq Mapped(pgdir[p])
  <2>1. i \in Nat /\ i < sz[p] /\ i + (sz[p] - i) - 1 = sz[p] - 1
    BY <1>1, <1>2, <1>4 DEF fetchstr
  <2>2. ASSUME NEW x \in i .. i + (sz[p] - i) - 1 PROVE x \div PGSIZE \in Below(PGROUNDUP(sz[p]))
    <3>1. x \in Nat /\ x < sz[p]
      BY <1>1, <2>1, <2>2
    <3> QED BY <1>1, <3>1, PageOfAddress, Zenon
  <2>3. Covered(sz[p]) = Below(PGROUNDUP(sz[p]))
    BY <1>1, CoveredIsBelow, Zenon
  <2> QED BY <1>1, <2>2, <2>3, Zenon
<1>5. ASSUME NEW i \in 0 .. WORD - 1, NEW size \in Deltas, argptr(sz[p], i, size)
      PROVE  Touches(i, size) \subseteq Mapped(pgdir[p])
  <2>1. size \in Nat /\ size <= KERNBASE /\ i \in Nat /\ i < sz[p] /\ ~((i + size) % WORD > sz[p])
    BY <1>1, <1>2, <1>5 DEF argptr, Deltas
  <2>2. (i + size) % WORD <= sz[p]
    <3>1. (i + size) % WORD \in Int
      BY <1>2, <2>1, SizeTypes
    <3> QED BY <1>1, <2>1, <3>1
  <2> QED BY <1>1, <2>1, <2>2, BlockIsMapped, Zenon
<1> HIDE DEF Touches
<1> QED BY <1>1, <1>3, <1>4, <1>5, Zenon

\* While a CPU starts only the low frames are managed, and no frame is the
\* stack of two CPUs.
LEMMA BootSuffices == MInv => BootOrder
<1> SUFFICES ASSUME MInv PROVE BootOrder
  BY Zenon
<1> DEFINE H == Holding(kstack, pgdir, new, apstack, Stack, kpgdir)
<1>1. Accounted(H, free, Managed) /\ Shows(H, kstack, pgdir, new, apstack, Stack, kpgdir)
  BY Types, HoldingShows, Zenon
<1> HIDE DEF H
<1>2. ~use_lock => \A p \in Proc : state[p] # "LIVE"
  BY Zenon DEF MInv, Booting
<1>3. Starting => slot \in Low
  <2> SUFFICES ASSUME Starting PROVE slot \in Low
    BY Zenon
  <2>1. boot = "startothers" /\ slot # 0 /\ Stack = slot
    BY Zenon DEF MInv, Booting, Stack
  <2>2. Managed = Low
    BY <2>1, Zenon DEF Managed
  <2>3. InSlot \in Place /\ H[InSlot] = slot
    BY <1>1, <2>1, Places, Zenon DEF Shows
  <2> QED BY <1>1, <2>1, <2>2, <2>3, Zenon DEF Accounted
<1>4. ASSUME NEW c \in AP, NEW d \in AP, c # d, ap[c] = "up", ap[d] = "up"
      PROVE  apstack[c] # apstack[d]
  <2>1. apstack[c] # 0 /\ apstack[d] # 0
    BY <1>4, Zenon DEF MInv, Booting
  <2>2. /\ InApstack(c) \in Place /\ InApstack(d) \in Place
        /\ H[InApstack(c)] = apstack[c] /\ H[InApstack(d)] = apstack[d]
    BY <1>1, Places, Zenon DEF Shows
  <2>3. InApstack(c) # InApstack(d)
    BY <1>4, Zenon DEF InApstack
  <2> QED BY <1>1, <2>1, <2>2, <2>3, Zenon DEF Accounted
<1> QED BY <1>2, <1>3, <1>4, Zenon DEF BootOrder

\* kalloc.c, vm.c, proc.c, exec.c: a frame given to the allocator is on the
\* free list or in exactly one place, whatever fork, exec, sbrk, exit and wait
\* do on however many CPUs, and wherever one of them runs out of memory.
THEOREM FramesAreAccounted == Spec => []FramesAccounted
BY Invariance, AccountsSuffice, PTL

\* syscall.c: a process in user mode has exactly the pages of its size, so
\* what fetchint, argptr and fetchstr let through is mapped, for every address
\* and size, uint arithmetic that wraps included.
THEOREM CheckedPointersAreMapped == Spec => []ArgumentsAreMapped
BY Invariance, ChecksSuffice, PTL

\* main.c: no process runs before the allocator takes its lock, a starting
\* CPU's stack is memory that entrypgdir maps, and no two CPUs share a stack.
THEOREM BootIsOrdered == Spec => []BootOrder
BY Invariance, BootSuffices, PTL

\* vm.c, exec.c: "remap", "copyuvm: page not present" and "loaduvm: address
\* should exist" are never reached.
THEOREM MemoryNeverPanics == Spec => []NoPanic
<1>1. MInv => NoPanic
  BY Zenon DEF MInv
<1> QED BY <1>1, Invariance, PTL
=============================================================================
