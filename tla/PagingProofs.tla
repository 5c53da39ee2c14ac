---------------------------- MODULE PagingProofs ----------------------------
(***************************************************************************)
(* Proofs about Paging, for any number of frames, processes and calls of   *)
(* CreateProcess, as long as there is memory: CopyChild goes on with the   *)
(* shared table when there is none, and nothing below can hold then.       *)
(*                                                                         *)
(* A process owns six frames: its PML4, PDP and two PDs, the table that    *)
(* the split of the stack's huge page made, and the stack page.  They are  *)
(* allocated, distinct, and apart from those of the other processes and of *)
(* the kernel; the kernel's are the first four, and the table that the     *)
(* first load of a program hangs below its first PD.                       *)
(***************************************************************************)
EXTENDS Paging, NatLemmas, FiniteSetTheorems

TableType == [Frame -> [Region -> Nat]]

MemoryOf(F, T, g) == [free |-> F, table |-> T, got |-> g]

-----------------------------------------------------------------------------
(***************************************************************************)
(* The operators of PageManager, when there is memory.                     *)
(***************************************************************************)
LEMMA MinIsMember ==
    ASSUME NEW S, S \subseteq Nat, S # {}
    PROVE  Min(S) \in S
BY NatMin DEF Min

LEMMA FrameFacts ==
    /\ Frame \subseteq Nat \ {0}
    /\ IsFiniteSet(Frame) /\ Cardinality(Frame) = NumFrames
    /\ {1, 2, 3, 4} \subseteq Frame
    /\ pml4_table = 1
    /\ Huge \in Nat \ {0} /\ Huge \notin Frame
    /\ \A r \in Region : Home(r) \in Nat \ {0} /\ Home(r) \notin Frame /\ Home(r) # Huge
<1>1. IsFiniteSet(Frame) /\ Cardinality(Frame) = NumFrames
  BY PagingAssumption, FS_Interval DEF Frame
<1> QED
  BY <1>1, PagingAssumption DEF Frame, Huge, Home, Region, pml4_table

\* First fit.
LEMMA AllocateFrameGets ==
    ASSUME NEW F \in SUBSET Frame, F # {}, NEW T \in TableType, NEW g,
           NEW f, f = Min(F)
    PROVE  /\ f \in F /\ f \in Frame /\ f \in Nat /\ f # 0
           /\ AllocateFrame(MemoryOf(F, T, g)) = MemoryOf(F \ {f}, [T EXCEPT ![f] = Empty], f)
           /\ [T EXCEPT ![f] = Empty] \in TableType
<1> DEFINE s == MemoryOf(F, T, g)
           G == F \ {f}
           U == [T EXCEPT ![f] = Empty]
<1>1. f \in F /\ f \in Nat /\ f # 0
  BY MinIsMember, FrameFacts
<1>2. s.free = F /\ s.table = T /\ s = [free |-> F, table |-> T, got |-> g]
  BY DEF MemoryOf
<1>3. AllocateFrame(s) = [s EXCEPT !.free = G, !.table = U, !.got = f]
  BY <1>2 DEF AllocateFrame
<1>4. U \in TableType
  BY <1>1 DEF TableType, Empty, Region
<1> HIDE DEF s, G, U
<1>5. [s EXCEPT !.free = G, !.table = U, !.got = f]
      = [[[s EXCEPT !.free = G] EXCEPT !.table = U] EXCEPT !.got = f]
  BY <1>2
<1>6. [s EXCEPT !.free = G] = [free |-> G, table |-> T, got |-> g]
  BY <1>2
<1>7. [[free |-> G, table |-> T, got |-> g] EXCEPT !.table = U]
      = [free |-> G, table |-> U, got |-> g]
  OBVIOUS
<1>8. [[free |-> G, table |-> U, got |-> g] EXCEPT !.got = f]
      = [free |-> G, table |-> U, got |-> f]
  OBVIOUS
<1>9. AllocateFrame(s) = MemoryOf(G, U, f)
  BY <1>3, <1>5, <1>6, <1>7, <1>8 DEF MemoryOf
<1> QED
  BY <1>1, <1>4, <1>9 DEF s, G, U

LEMMA SetEntryGives ==
    ASSUME NEW F, NEW T \in TableType, NEW g, NEW t \in Frame, NEW i \in Region,
           NEW e \in Nat, NEW U, U = [T EXCEPT ![t][i] = e]
    PROVE  SetEntry(MemoryOf(F, T, g), t, i, e) = MemoryOf(F, U, g) /\ U \in TableType
<1>1. SetEntry(MemoryOf(F, T, g), t, i, e) = MemoryOf(F, [T EXCEPT ![t][i] = e], g)
  BY DEF SetEntry, MemoryOf
<1> QED
  BY <1>1 DEF TableType

LEMMA CopyPageTableGives ==
    ASSUME NEW F \in SUBSET Frame, F # {}, NEW T \in TableType, NEW g,
           NEW src \in Frame, NEW f, f = Min(F)
    PROVE  /\ CopyPageTable(MemoryOf(F, T, g), src)
                = MemoryOf(F \ {f}, [T EXCEPT ![f] = T[src]], f)
           /\ [T EXCEPT ![f] = T[src]] \in TableType
<1> DEFINE s == MemoryOf(F, T, g)
           G == F \ {f}
           U == [T EXCEPT ![f] = Empty]
           a == MemoryOf(G, U, f)
<1>1. f \in Frame /\ f # 0 /\ AllocateFrame(s) = a
  BY AllocateFrameGets
<1>2. a.got = f /\ s.table = T
  BY DEF MemoryOf
<1>3. CopyPageTable(s, src) = [a EXCEPT !.table[f] = T[src]]
  BY <1>1, <1>2 DEF CopyPageTable, AllocateTable
<1>4. [U EXCEPT ![f] = T[src]] = [T EXCEPT ![f] = T[src]]
  BY DEF TableType
<1>5. [T EXCEPT ![f] = T[src]] \in TableType
  BY DEF TableType
<1> HIDE DEF G, U
<1>6. [a EXCEPT !.table[f] = T[src]] = MemoryOf(G, [U EXCEPT ![f] = T[src]], f)
  BY DEF MemoryOf
<1> QED
  BY <1>3, <1>4, <1>5, <1>6 DEF G

\* The tables once the child at entry i of t is replaced by its copy f.
WithCopy(T, t, i, f) == [[T EXCEPT ![f] = T[T[t][i]]] EXCEPT ![t][i] = f]

LEMMA CopyChildGives ==
    ASSUME NEW F \in SUBSET Frame, F # {}, NEW T \in TableType, NEW g,
           NEW t \in Frame \ F, NEW i \in Region, T[t][i] \in Frame,
           NEW f, f = Min(F), NEW U, U = WithCopy(T, t, i, f)
    PROVE  /\ f \in F /\ f \in Frame /\ f \in Nat /\ f # 0
           /\ CopyChild(MemoryOf(F, T, g), t, i) = MemoryOf(F \ {f}, U, f)
           /\ U \in TableType
           /\ U[t][i] = f
           /\ \A j \in Region \ {i} : U[t][j] = T[t][j]
           /\ U[f] = T[T[t][i]]
           /\ \A u \in Frame \ {f, t} : U[u] = T[u]
<1> DEFINE s == MemoryOf(F, T, g)
           src == T[t][i]
           V == [T EXCEPT ![f] = T[src]]
<1>1. f \in F /\ f \in Frame /\ f \in Nat /\ f # 0 /\ f # t
  BY AllocateFrameGets
<1>2. CopyPageTable(s, src) = MemoryOf(F \ {f}, V, f) /\ V \in TableType
  BY CopyPageTableGives
<1>3. s.table = T /\ src # 0 /\ CopyPageTable(s, src).got = f
  BY <1>2, FrameFacts DEF MemoryOf
<1>4. CopyChild(s, t, i) = SetEntry(MemoryOf(F \ {f}, V, f), t, i, f)
  BY <1>1, <1>2, <1>3 DEF CopyChild
<1>5. U = [V EXCEPT ![t][i] = f]
  BY DEF WithCopy
<1>6. /\ U[t][i] = f
      /\ \A j \in Region \ {i} : U[t][j] = T[t][j]
      /\ U[f] = T[src]
      /\ \A u \in Frame \ {f, t} : U[u] = T[u]
  BY <1>1, <1>5 DEF TableType
<1> HIDE DEF V
<1>7. SetEntry(MemoryOf(F \ {f}, V, f), t, i, f) = MemoryOf(F \ {f}, U, f) /\ U \in TableType
  <2> DEFINE G == F \ {f}
  <2> HIDE DEF G
  <2>1. SetEntry(MemoryOf(G, V, f), t, i, f) = MemoryOf(G, [V EXCEPT ![t][i] = f], f)
    BY DEF SetEntry, MemoryOf
  <2>2. [V EXCEPT ![t][i] = f] \in TableType
    BY <1>1, <1>2 DEF TableType
  <2> QED
    BY <1>5, <2>1, <2>2 DEF G
<1> QED
  BY <1>1, <1>4, <1>6, <1>7

LEMMA OneFrameLess ==
    ASSUME NEW F \in SUBSET Frame
    PROVE  /\ Cardinality(F) \in Nat
           /\ Cardinality(F) >= 1 => F # {}
           /\ \A f \in F : Cardinality(F \ {f}) = Cardinality(F) - 1
<1>1. IsFiniteSet(F) /\ Cardinality(F) \in Nat
  BY FrameFacts, FS_Subset, FS_CardinalityType
<1>2. Cardinality(F) >= 1 => F # {}
  BY <1>1, FS_EmptySet
<1>3. \A f \in F : Cardinality(F \ {f}) = Cardinality(F) - 1
  BY <1>1, FS_RemoveElement
<1> QED
  BY <1>1, <1>2, <1>3

\* The kernel's four tables; the stack region is never split there.
KernelTables(T) == T[1][0] = 2 /\ T[2][0] = 3 /\ T[2][1] = 4 /\ T[4][0] = Huge

\* U is T and a new address space: the PML4 x, the PDP d, the PDs p0 and p1.
WithSpace(F, T, U, x, d, p0, p1) ==
    /\ x \in F /\ d \in F /\ p0 \in F /\ p1 \in F /\ U \in TableType
    /\ x # d /\ x # p0 /\ x # p1 /\ d # p0 /\ d # p1 /\ p0 # p1
    /\ U[x][0] = d /\ U[d][0] = p0 /\ U[d][1] = p1 /\ U[p1][0] = Huge
    /\ \A u \in Frame \ {x, d, p0, p1} : U[u] = T[u]

\* s is the memory (F, T) with a new address space.
SpaceCreated(F, T, s) ==
    \E x, d, p0, p1, U : /\ WithSpace(F, T, U, x, d, p0, p1)
                         /\ s = MemoryOf(F \ {x, d, p0, p1}, U, x)

LEMMA CreateProcessPageTableGives ==
    ASSUME NEW F \in SUBSET (Frame \ {1, 2, 3, 4}), Cardinality(F) >= 4,
           NEW T \in TableType, KernelTables(T), NEW g
    PROVE  SpaceCreated(F, T, CreateProcessPageTable(MemoryOf(F, T, g)))
<1>0. /\ 0 \in Region /\ 1 \in Region /\ Region \ {0} = {1} /\ Region \ {1} = {0}
      /\ {1, 2, 3, 4} \subseteq Frame /\ F \in SUBSET Frame /\ F # {}
  BY FrameFacts, OneFrameLess DEF Region
<1> DEFINE s == MemoryOf(F, T, g)
           x == Min(F)
           F1 == F \ {x}
           T1 == [T EXCEPT ![x] = T[1]]
<1>1. /\ CopyPageTable(s, 1) = MemoryOf(F1, T1, x) /\ T1 \in TableType
      /\ x \in F /\ x \in Frame /\ x # 0
  <2>1. 1 \in Frame /\ F \in SUBSET Frame /\ F # {}
    BY <1>0
  <2>2. x \in F /\ x \in Frame /\ x # 0
    BY <2>1, AllocateFrameGets
  <2>3. CopyPageTable(s, 1) = MemoryOf(F1, T1, x) /\ T1 \in TableType
    BY <2>1, CopyPageTableGives
  <2> QED
    BY <2>2, <2>3
<1> HIDE DEF x
<1>2. /\ F1 \in SUBSET Frame /\ Cardinality(F1) >= 3 /\ F1 # {} /\ x \in Frame \ F1
      /\ T1[x][0] = 2 /\ T1[x][0] \in Frame
      /\ \A u \in Frame \ {x} : T1[u] = T[u]
  BY <1>0, <1>1, OneFrameLess DEF TableType, KernelTables
<1> HIDE DEF F1, T1
<1> DEFINE d == Min(F1)
           F2 == F1 \ {d}
           T2 == WithCopy(T1, x, 0, d)
<1>3. /\ d \in F1 /\ d \in Frame
      /\ CopyChild(MemoryOf(F1, T1, x), x, 0) = MemoryOf(F2, T2, d)
      /\ T2 \in TableType
      /\ T2[x][0] = d
      /\ T2[d] = T1[2]
      /\ \A u \in Frame \ {d, x} : T2[u] = T1[u]
  BY <1>0, <1>1, <1>2, CopyChildGives
<1> HIDE DEF d, T2
<1>4. /\ F2 \in SUBSET Frame /\ Cardinality(F2) >= 2 /\ F2 # {} /\ d \in Frame \ F2
      /\ x \notin F2 /\ x # d /\ d # 2
      /\ T2[d][0] = 3 /\ T2[d][0] \in Frame /\ T2[d][1] = 4
      /\ \A u \in Frame \ {x, d} : T2[u] = T[u]
  BY <1>0, <1>1, <1>2, <1>3, OneFrameLess DEF KernelTables, F1
<1> HIDE DEF F2
<1> DEFINE p0 == Min(F2)
           F3 == F2 \ {p0}
           T3 == WithCopy(T2, d, 0, p0)
<1>5. /\ p0 \in F2 /\ p0 \in Frame
      /\ CopyChild(MemoryOf(F2, T2, d), d, 0) = MemoryOf(F3, T3, p0)
      /\ T3 \in TableType
      /\ T3[d][0] = p0
      /\ \A j \in Region \ {0} : T3[d][j] = T2[d][j]
      /\ \A u \in Frame \ {p0, d} : T3[u] = T2[u]
  <2>1. 0 \in Region /\ T2 \in TableType /\ F2 \in SUBSET Frame /\ F2 # {}
        /\ d \in Frame \ F2 /\ T2[d][0] \in Frame
    BY <1>0, <1>3, <1>4
  <2> QED
    BY <2>1, CopyChildGives
<1> HIDE DEF p0, T3
<1>6. /\ F3 \in SUBSET Frame /\ F3 # {} /\ d \in Frame \ F3
      /\ x \notin F3 /\ p0 \notin F3 /\ p0 # x /\ p0 # d
      /\ T3[x][0] = d /\ T3[d][0] = p0 /\ T3[d][1] = 4 /\ T3[d][1] \in Frame
      /\ \A u \in Frame \ {x, d, p0} : T3[u] = T[u]
  <2>1. F3 \in SUBSET Frame /\ Cardinality(F3) >= 1
    BY <1>4, <1>5, OneFrameLess
  <2>2. F3 # {}
    BY <2>1, OneFrameLess
  <2>3. T3[d][1] = 4
    BY <1>0, <1>4, <1>5
  <2> QED
    BY <1>0, <1>1, <1>3, <1>4, <1>5, <2>1, <2>2, <2>3
<1> HIDE DEF F3
<1> DEFINE p1 == Min(F3)
           F4 == F3 \ {p1}
           T4 == WithCopy(T3, d, 1, p1)
<1>7. /\ p1 \in F3 /\ p1 \in Frame
      /\ CopyChild(MemoryOf(F3, T3, p0), d, 1) = MemoryOf(F4, T4, p1)
      /\ T4 \in TableType
      /\ T4[d][1] = p1
      /\ \A j \in Region \ {1} : T4[d][j] = T3[d][j]
      /\ T4[p1] = T3[T3[d][1]]
      /\ \A u \in Frame \ {p1, d} : T4[u] = T3[u]
  <2>1. 1 \in Region /\ T3 \in TableType /\ F3 \in SUBSET Frame /\ F3 # {}
        /\ d \in Frame \ F3 /\ T3[d][1] \in Frame
    BY <1>0, <1>5, <1>6
  <2>2. p1 = Min(F3) /\ T4 = WithCopy(T3, d, 1, p1)
    OBVIOUS
  <2> HIDE DEF p1, T4
  <2> QED
    BY <2>1, <2>2, CopyChildGives
<1> HIDE DEF p1, T4
<1>8. CopyTables(MemoryOf(F1, T1, x), x) = MemoryOf(F4, T4, p1)
  <2>1. /\ MemoryOf(F2, T2, d).table[x][0] = d
        /\ MemoryOf(F1, T1, x).table[x][0] = 2
    BY <1>2, <1>3 DEF MemoryOf
  <2> HIDE DEF F4
  <2> QED
    BY <1>3, <1>4, <1>5, <1>7, <2>1 DEF CopyTables
<1>9. CreateProcessPageTable(s) = MemoryOf(F4, T4, x)
  <2>1. CopyPageTable(s, pml4_table) = MemoryOf(F1, T1, x)
    BY <1>1, FrameFacts
  <2>2. MemoryOf(F1, T1, x).got = x
    BY DEF MemoryOf
  <2> HIDE DEF F4
  <2>3. [MemoryOf(F4, T4, p1) EXCEPT !.got = x] = MemoryOf(F4, T4, x)
    BY DEF MemoryOf
  <2> QED
    BY <1>1, <1>8, <2>1, <2>2, <2>3 DEF CreateProcessPageTable
<1>10. F4 = F \ {x, d, p0, p1}
  BY DEF F1, F2, F3
<1>11. /\ p1 # x /\ p1 # d /\ p1 # p0 /\ T3[4] = T[4]
       /\ p1 \in F /\ p0 \in F /\ d \in F
  BY <1>0, <1>1, <1>3, <1>5, <1>6, <1>7 DEF F1, F2, F3
<1>12. /\ T4[x][0] = d /\ T4[d][0] = p0 /\ T4[d][1] = p1 /\ T4[p1][0] = Huge
       /\ \A u \in Frame \ {x, d, p0, p1} : T4[u] = T[u]
  BY <1>0, <1>1, <1>4, <1>6, <1>7, <1>11 DEF KernelTables
<1>13. WithSpace(F, T, T4, x, d, p0, p1)
  BY <1>1, <1>4, <1>6, <1>7, <1>11, <1>12 DEF WithSpace
<1> QED
  BY <1>9, <1>10, <1>13 DEF SpaceCreated

LEMMA EnsureEntryKeeps ==
    ASSUME NEW F, NEW T, NEW g, NEW t, NEW i, T[t][i] # 0
    PROVE  EnsureEntry(MemoryOf(F, T, g), t, i) = MemoryOf(F, T, T[t][i])
<1>1. MemoryOf(F, T, g).table = T
  BY DEF MemoryOf
<1>2. [MemoryOf(F, T, g) EXCEPT !.got = T[t][i]] = MemoryOf(F, T, T[t][i])
  BY DEF MemoryOf
<1> QED
  BY <1>1, <1>2 DEF EnsureEntry

\* U is T once the huge page of the PD pd is split into the table pt.
SplitTables(T, U, pd, pt, page) ==
    /\ U \in TableType
    /\ U[pd][0] = pt /\ U[pt][0] = page
    /\ \A u \in Frame \ {pd, pt} : U[u] = T[u]

\* Below root, region r is the huge page of the PD pd, and the next free frame is pt.
Splittable(F, T, root, r, d, pd, pt) ==
    /\ F \in SUBSET Frame /\ F # {} /\ pt = Min(F) /\ T \in TableType
    /\ root \in Frame /\ r \in Region
    /\ d \in Frame /\ T[root][0] = d
    /\ pd \in Frame \ F /\ T[d][r] = pd /\ T[pd][0] = Huge

\* The three ways MapPage can go when PML4 and PDP have their entries: the huge
\* page is split, it cannot be split, or it was split before.
LEMMA MapPageSplits ==
    ASSUME NEW F, NEW T, NEW g, NEW root, NEW r, NEW page \in Nat,
           NEW d, NEW pd, NEW pt, Splittable(F, T, root, r, d, pd, pt)
    PROVE  \E U : /\ SplitTables(T, U, pd, pt, page)
                  /\ MapPage(MemoryOf(F, T, g), root, r, page) = MemoryOf(F \ {pt}, U, pt)
<1> DEFINE s == MemoryOf(F, T, g)
           G == F \ {pt}
           V1 == [T EXCEPT ![pt] = Empty]
           V2 == [V1 EXCEPT ![pt][0] = Home(r)]
           V3 == [V2 EXCEPT ![pd][0] = pt]
           U == [V3 EXCEPT ![pt][0] = page]
<1> USE DEF Splittable
<1>0. d # 0 /\ pd # 0 /\ Home(r) \in Nat /\ 0 \in Region
  BY FrameFacts DEF Region
<1>1. /\ pt \in F /\ pt \in Frame /\ pt \in Nat /\ pt # 0 /\ pt # pd
      /\ AllocateFrame(MemoryOf(F, T, pd)) = MemoryOf(G, V1, pt)
      /\ V1 \in TableType
  BY AllocateFrameGets
<1>2. EnsureEntry(s, root, 0) = MemoryOf(F, T, d)
  BY <1>0, EnsureEntryKeeps
<1>3. EnsureEntry(MemoryOf(F, T, d), d, r) = MemoryOf(F, T, pd)
  BY <1>0, EnsureEntryKeeps
<1>4. V2 \in TableType /\ V3 \in TableType /\ U \in TableType
  BY <1>0, <1>1 DEF TableType
<1>5. /\ V3[pd][0] = pt /\ U[pd][0] = pt /\ U[pt][0] = page
      /\ \A u \in Frame \ {pd, pt} : U[u] = T[u]
  BY <1>0, <1>1 DEF TableType
<1> HIDE DEF G, V1
<1>6. SetEntry(MemoryOf(G, V1, pt), pt, 0, Home(r)) = MemoryOf(G, V2, pt)
  BY DEF SetEntry, MemoryOf
<1> HIDE DEF V2
<1>7. SetEntry(MemoryOf(G, V2, pt), pd, 0, pt) = MemoryOf(G, V3, pt)
  BY DEF SetEntry, MemoryOf
<1> HIDE DEF V3
<1>8. SetEntry(MemoryOf(G, V3, pt), pt, 0, page) = MemoryOf(G, U, pt)
  BY DEF SetEntry, MemoryOf
<1> HIDE DEF U
<1>9. Split(MemoryOf(F, T, pd), pd, r) = MemoryOf(G, V3, pt)
  <2>1. MemoryOf(F, T, pd).table = T /\ MemoryOf(G, V1, pt).got = pt
    BY DEF MemoryOf
  <2> QED
    BY <1>1, <1>6, <1>7, <2>1 DEF Split, AllocateTable
<1>10. EnsureEntry(MemoryOf(G, V3, pt), pd, 0) = MemoryOf(G, V3, pt)
  BY <1>1, <1>5, EnsureEntryKeeps
<1>11. MapPage(s, root, r, page) = MemoryOf(G, U, pt)
  <2>1. /\ MemoryOf(F, T, d).got = d /\ MemoryOf(F, T, pd).got = pd
        /\ MemoryOf(G, V3, pt).got = pt
    BY DEF MemoryOf
  <2> QED
    BY <1>0, <1>1, <1>2, <1>3, <1>8, <1>9, <1>10, <2>1 DEF MapPage
<1>12. SplitTables(T, U, pd, pt, page)
  BY <1>4, <1>5 DEF SplitTables
<1> QED
  BY <1>11, <1>12 DEF G

LEMMA MapPageCannotSplit ==
    ASSUME NEW T \in TableType, NEW g,
           NEW root \in Frame, NEW r \in Region, NEW page \in Nat,
           NEW d \in Frame, T[root][0] = d, NEW pd \in Frame, T[d][r] = pd,
           T[pd][0] = Huge
    PROVE  MapPage(MemoryOf({}, T, g), root, r, page) = MemoryOf({}, T, 0)
<1> DEFINE s == MemoryOf({}, T, g)
<1>0. d # 0 /\ pd # 0
  BY FrameFacts
<1>2. EnsureEntry(s, root, 0) = MemoryOf({}, T, d)
  BY <1>0, EnsureEntryKeeps
<1>3. EnsureEntry(MemoryOf({}, T, d), d, r) = MemoryOf({}, T, pd)
  BY <1>0, EnsureEntryKeeps
<1>4. AllocateFrame(MemoryOf({}, T, pd)) = MemoryOf({}, T, 0)
  BY DEF AllocateFrame, MemoryOf
<1>5. Split(MemoryOf({}, T, pd), pd, r) = MemoryOf({}, T, 0)
  <2>1. MemoryOf({}, T, pd).table = T /\ MemoryOf({}, T, 0).got = 0
    BY DEF MemoryOf
  <2> QED
    BY <1>4, <2>1 DEF Split, AllocateTable
<1>6. /\ MemoryOf({}, T, d).got = d /\ MemoryOf({}, T, pd).got = pd
      /\ MemoryOf({}, T, 0).got = 0
  BY DEF MemoryOf
<1> QED
  BY <1>0, <1>2, <1>3, <1>5, <1>6 DEF MapPage

LEMMA MapPageReplaces ==
    ASSUME NEW F, NEW T \in TableType, NEW g,
           NEW root \in Frame, NEW r \in Region, NEW page \in Nat,
           NEW d \in Frame, T[root][0] = d, NEW pd \in Frame, T[d][r] = pd,
           NEW pt \in Frame, T[pd][0] = pt
    PROVE  \E U \in TableType :
             /\ MapPage(MemoryOf(F, T, g), root, r, page) = MemoryOf(F, U, pt)
             /\ \A u \in Frame \ {pt} : U[u] = T[u]
<1> DEFINE s == MemoryOf(F, T, g)
           U == [T EXCEPT ![pt][0] = page]
<1>0. d # 0 /\ pd # 0 /\ pt # 0 /\ pt # Huge /\ 0 \in Region
  BY FrameFacts DEF Region
<1>2. EnsureEntry(s, root, 0) = MemoryOf(F, T, d)
  BY <1>0, EnsureEntryKeeps
<1>3. EnsureEntry(MemoryOf(F, T, d), d, r) = MemoryOf(F, T, pd)
  BY <1>0, EnsureEntryKeeps
<1>4. MemoryOf(F, T, pd).table = T /\ [MemoryOf(F, T, pd) EXCEPT !.got = pd] = MemoryOf(F, T, pd)
  BY DEF MemoryOf
<1>5. Split(MemoryOf(F, T, pd), pd, r) = MemoryOf(F, T, pd)
  BY <1>0, <1>4 DEF Split
<1>6. EnsureEntry(MemoryOf(F, T, pd), pd, 0) = MemoryOf(F, T, pt)
  BY <1>0, EnsureEntryKeeps
<1>7. SetEntry(MemoryOf(F, T, pt), pt, 0, page) = MemoryOf(F, U, pt)
  BY DEF SetEntry, MemoryOf
<1>8. U \in TableType /\ \A u \in Frame \ {pt} : U[u] = T[u]
  BY <1>0 DEF TableType
<1>9. /\ MemoryOf(F, T, d).got = d /\ MemoryOf(F, T, pd).got = pd
      /\ MemoryOf(F, T, pt).got = pt
  BY DEF MemoryOf
<1> HIDE DEF U
<1>10. MapPage(s, root, r, page) = MemoryOf(F, U, pt)
  BY <1>0, <1>2, <1>3, <1>5, <1>6, <1>7, <1>9 DEF MapPage
<1> QED
  BY <1>8, <1>10

\* U is T and the stack page st of a new process, below the table pt of its own.
WithStack(F, T, U, p1, pt, st) ==
    /\ st \in F /\ pt \in F /\ st # pt /\ U \in TableType
    /\ U[p1][0] = pt /\ U[pt][0] = st
    /\ \A u \in Frame \ {p1, pt, st} : U[u] = T[u]

\* The stack of a new process: its huge page is split.
LEMMA AllocateStackGives ==
    ASSUME NEW F \in SUBSET Frame, Cardinality(F) >= 2, NEW T \in TableType, NEW g,
           NEW x \in Frame \ F, NEW d \in Frame \ F, NEW p1 \in Frame \ F,
           T[x][0] = d, T[d][1] = p1, T[p1][0] = Huge
    PROVE  \E st, pt, U :
             /\ WithStack(F, T, U, p1, pt, st)
             /\ AllocateVirtual(MemoryOf(F, T, g), x, 1) = MemoryOf(F \ {st, pt}, U, st)
<1> DEFINE st == Min(F)
           G == F \ {st}
           V == [T EXCEPT ![st] = Empty]
<1>0. F # {} /\ 1 \in Region /\ 0 \in Region
  BY OneFrameLess DEF Region
<1>1. /\ st \in F /\ st \in Frame /\ st \in Nat /\ st # 0
      /\ AllocateFrame(MemoryOf(F, T, g)) = MemoryOf(G, V, st) /\ V \in TableType
  BY <1>0, AllocateFrameGets
<1> HIDE DEF st
<1>2. /\ V[x][0] = d /\ V[d][1] = p1 /\ V[p1][0] = Huge
      /\ \A u \in Frame \ {st} : V[u] = T[u]
  BY <1>1 DEF TableType
<1>3. G \in SUBSET Frame /\ Cardinality(G) >= 1 /\ G # {} /\ p1 \in Frame \ G
  BY <1>1, OneFrameLess
<1> DEFINE pt == Min(G)
<1>4. pt \in G
  BY <1>3, AllocateFrameGets, <1>1
<1> HIDE DEF G, V, pt
<1>5. PICK U : /\ SplitTables(V, U, p1, pt, st)
               /\ MapPage(MemoryOf(G, V, st), x, 1, st) = MemoryOf(G \ {pt}, U, pt)
  <2>1. Splittable(G, V, x, 1, d, p1, pt)
    BY <1>0, <1>1, <1>2, <1>3 DEF pt, Splittable
  <2> DEFINE r == MapPage(MemoryOf(G, V, st), x, 1, st)
  <2>2. \E U : SplitTables(V, U, p1, pt, st) /\ r = MemoryOf(G \ {pt}, U, pt)
    <3>1. r = MapPage(MemoryOf(G, V, st), x, 1, st)
      OBVIOUS
    <3> HIDE DEF r
    <3> QED
      BY <1>1, <2>1, <3>1, MapPageSplits
  <2> QED
    BY <2>2
<1>6. AllocateVirtual(MemoryOf(F, T, g), x, 1) = MemoryOf(G \ {pt}, U, st)
  <2>1. MemoryOf(G, V, st).got = st
        /\ [MemoryOf(G \ {pt}, U, pt) EXCEPT !.got = st] = MemoryOf(G \ {pt}, U, st)
    BY DEF MemoryOf
  <2> DEFINE H == G \ {pt}
  <2> HIDE DEF H
  <2> QED
    BY <1>1, <1>5, <2>1 DEF AllocateVirtual, H
<1>7. G \ {pt} = F \ {st, pt} /\ pt \in F /\ st # pt
  BY <1>4 DEF G
<1>8. WithStack(F, T, U, p1, pt, st)
  BY <1>1, <1>2, <1>5, <1>7 DEF SplitTables, WithStack
<1> QED
  BY <1>6, <1>7, <1>8

\* What AllocateVirtual of the program's region changes below the kernel's table.
Loaded(F, T, G, U) ==
    /\ U \in TableType /\ G \subseteq F
    /\ \A u \in Frame \ (F \cup {3, T[3][0]}) : U[u] = T[u]
    /\ \/ U[3][0] = T[3][0] /\ Cardinality(G) = Cardinality(F) - 1
       \/ T[3][0] = Huge /\ U[3][0] \in F \ G /\ Cardinality(G) = Cardinality(F) - 2

LEMMA AllocateProgramGives ==
    ASSUME NEW F \in SUBSET (Frame \ {1, 2, 3, 4}), F # {}, NEW T \in TableType, NEW g,
           KernelTables(T),
           T[3][0] = Huge \/ T[3][0] \in Frame \ (F \cup {1, 2, 3, 4})
    PROVE  \E G, U : /\ Loaded(F, T, G, U)
                     /\ AllocateVirtual(MemoryOf(F, T, g), pml4_table, 0)
                          = MemoryOf(G, U, Min(F))
<1> DEFINE st == Min(F)
           G == F \ {st}
           V == [T EXCEPT ![st] = Empty]
<1>0. /\ 1 \in Region /\ 0 \in Region /\ {1, 2, 3, 4} \subseteq Frame /\ pml4_table = 1
      /\ F \in SUBSET Frame /\ Huge \notin Frame
  BY FrameFacts DEF Region
<1>1. /\ st \in F /\ st \in Frame /\ st \in Nat /\ st # 0
      /\ AllocateFrame(MemoryOf(F, T, g)) = MemoryOf(G, V, st) /\ V \in TableType
  BY <1>0, AllocateFrameGets
<1> HIDE DEF st
<1>2. /\ V[1][0] = 2 /\ V[2][0] = 3 /\ V[3] = T[3]
      /\ \A u \in Frame \ {st} : V[u] = T[u]
  BY <1>0, <1>1 DEF TableType, KernelTables
<1>3. /\ G \in SUBSET Frame /\ 3 \in Frame \ G /\ 2 \in Frame
      /\ Cardinality(G) = Cardinality(F) - 1 /\ Cardinality(F) \in Nat
  BY <1>0, <1>1, OneFrameLess
<1>4. ASSUME NEW H, NEW U, NEW h, MapPage(MemoryOf(G, V, st), 1, 0, st) = MemoryOf(H, U, h)
      PROVE  AllocateVirtual(MemoryOf(F, T, g), pml4_table, 0) = MemoryOf(H, U, st)
  <2> HIDE DEF G, V
  <2>1. MemoryOf(G, V, st).got = st
        /\ [MemoryOf(H, U, h) EXCEPT !.got = st] = MemoryOf(H, U, st)
    BY DEF MemoryOf
  <2> QED
    BY <1>0, <1>1, <1>4, <2>1 DEF AllocateVirtual
<1> HIDE DEF V
<1>5. CASE T[3][0] = Huge /\ G = {}
  <2>1. MapPage(MemoryOf({}, V, st), 1, 0, st) = MemoryOf({}, V, 0)
    <3>1. V[3][0] = Huge
      BY <1>2, <1>5
    <3> QED
      BY <1>0, <1>1, <1>2, <3>1, MapPageCannotSplit
  <2>2. AllocateVirtual(MemoryOf(F, T, g), pml4_table, 0) = MemoryOf(G, V, st)
    BY <1>4, <1>5, <2>1
  <2>3. Loaded(F, T, G, V)
    BY <1>1, <1>2, <1>3 DEF Loaded
  <2> QED
    BY <2>2, <2>3 DEF st
<1>6. CASE T[3][0] = Huge /\ G # {}
  <2> DEFINE pt == Min(G)
  <2>1. pt \in G
    BY <1>1, <1>3, <1>6, AllocateFrameGets
  <2> HIDE DEF pt, G
  <2>2. PICK U : /\ SplitTables(V, U, 3, pt, st)
                 /\ MapPage(MemoryOf(G, V, st), 1, 0, st) = MemoryOf(G \ {pt}, U, pt)
    <3>1. Splittable(G, V, 1, 0, 2, 3, pt)
      BY <1>0, <1>1, <1>2, <1>3, <1>6 DEF pt, Splittable
    <3> DEFINE r == MapPage(MemoryOf(G, V, st), 1, 0, st)
    <3>2. \E U : SplitTables(V, U, 3, pt, st) /\ r = MemoryOf(G \ {pt}, U, pt)
      <4>1. r = MapPage(MemoryOf(G, V, st), 1, 0, st)
        OBVIOUS
      <4> HIDE DEF r
      <4> QED
        BY <1>1, <3>1, <4>1, MapPageSplits
    <3> QED
      BY <3>2
  <2>3. AllocateVirtual(MemoryOf(F, T, g), pml4_table, 0) = MemoryOf(G \ {pt}, U, st)
    BY <1>4, <2>2
  <2>4. Cardinality(G \ {pt}) = Cardinality(F) - 2
    BY <1>3, <2>1, OneFrameLess
  <2>5. pt \in F \ (G \ {pt}) /\ G \ {pt} \subseteq F
    BY <2>1 DEF G
  <2>6. Loaded(F, T, G \ {pt}, U)
    BY <1>1, <1>2, <1>6, <2>2, <2>4, <2>5 DEF Loaded, SplitTables
  <2> QED
    BY <2>3, <2>6 DEF st
<1>7. CASE T[3][0] \in Frame \ (F \cup {1, 2, 3, 4})
  <2> DEFINE pt == T[3][0]
  <2>1. PICK U \in TableType :
          /\ MapPage(MemoryOf(G, V, st), 1, 0, st) = MemoryOf(G, U, pt)
          /\ \A u \in Frame \ {pt} : U[u] = V[u]
    <3>1. V[3][0] = pt /\ pt \in Frame /\ 1 \in Frame
      BY <1>0, <1>2, <1>7
    <3> HIDE DEF pt
    <3> QED
      BY <1>0, <1>1, <1>2, <1>3, <3>1, MapPageReplaces
  <2>2. AllocateVirtual(MemoryOf(F, T, g), pml4_table, 0) = MemoryOf(G, U, st)
    BY <1>4, <2>1
  <2>3. U[3][0] = T[3][0]
    BY <1>0, <1>2, <1>7, <2>1
  <2>4. Loaded(F, T, G, U)
    BY <1>1, <1>2, <1>3, <2>1, <2>3 DEF Loaded
  <2> QED
    BY <2>2, <2>4 DEF st
<1> QED
  BY <1>5, <1>6, <1>7

\* s is the memory (F, T) with the four tables of an address space freed.
SpaceFreed(F, T, g, x, d, p0, p1, s) ==
    \E U \in TableType : /\ s = MemoryOf(F \cup {x, d, p0, p1}, U, g)
                         /\ \A u \in Frame \ {d} : U[u] = T[u]

LEMMA FreeProcessPageTableGives ==
    ASSUME NEW F, NEW T \in TableType, NEW g, NEW x \in Frame \ {1},
           NEW d \in Frame, T[x][0] = d, NEW p0 \in Frame, T[d][0] = p0,
           NEW p1 \in Frame, T[d][1] = p1
    PROVE  SpaceFreed(F, T, g, x, d, p0, p1, FreeProcessPageTable(MemoryOf(F, T, g), x))
<1> DEFINE V == [T EXCEPT ![d][0] = 0]
           U == [V EXCEPT ![d][1] = 0]
<1>0. /\ x # 0 /\ d # 0 /\ p0 # 0 /\ p1 # 0 /\ pml4_table = 1
      /\ 0 \in Region /\ 1 \in Region
  BY FrameFacts DEF Region
<1>1. V \in TableType /\ U \in TableType /\ V[d][1] = p1
      /\ \A u \in Frame \ {d} : U[u] = T[u]
  BY <1>0 DEF TableType
<1>2. ASSUME NEW A, NEW B, NEW f PROVE FreeFrame(MemoryOf(A, B, g), f) = MemoryOf(A \cup {f}, B, g)
  BY DEF FreeFrame, MemoryOf
<1>3. ASSUME NEW A, NEW B, NEW h
      PROVE  MemoryOf(A, B, h).table = B
  BY DEF MemoryOf
<1>4. FreeChild(MemoryOf(F, T, g), d, 0) = MemoryOf(F \cup {p0}, V, g)
  <2>1. SetEntry(MemoryOf(F \cup {p0}, T, g), d, 0, 0) = MemoryOf(F \cup {p0}, V, g)
    BY DEF SetEntry, MemoryOf
  <2> QED
    BY <1>0, <1>2, <1>3, <2>1 DEF FreeChild
<1> HIDE DEF V
<1> DEFINE F1 == F \cup {p0}
           F2 == F1 \cup {p1}
<1>5. FreeChild(MemoryOf(F1, V, g), d, 1) = MemoryOf(F2, U, g)
  <2> HIDE DEF F1
  <2>1. SetEntry(MemoryOf(F2, V, g), d, 1, 0) = MemoryOf(F2, U, g)
    BY DEF SetEntry, MemoryOf
  <2> QED
    BY <1>0, <1>1, <1>2, <1>3, <2>1 DEF FreeChild
<1> HIDE DEF F2, U
<1>6. FreeTables(MemoryOf(F, T, g), d) = MemoryOf(F2 \cup {d}, U, g)
  BY <1>2, <1>4, <1>5 DEF FreeTables
<1>7. FreeProcessPageTable(MemoryOf(F, T, g), x) = MemoryOf((F2 \cup {d}) \cup {x}, U, g)
  BY <1>0, <1>2, <1>3, <1>6 DEF FreeProcessPageTable
<1>8. (F2 \cup {d}) \cup {x} = F \cup {x, d, p0, p1}
  BY DEF F2
<1> QED
  BY <1>1, <1>7, <1>8 DEF SpaceFreed

-----------------------------------------------------------------------------
(***************************************************************************)
(* The inductive invariant.                                                *)
(***************************************************************************)
Pdp(T, x) == T[x][0]
Pd(T, x, i) == T[Pdp(T, x)][i]
StackTable(T, x) == T[Pd(T, x, 1)][0]
Stack(T, x) == T[StackTable(T, x)][0]

\* The six frames that an address space does not share.
Space(T, x) == {x, Pdp(T, x), Pd(T, x, 0), Pd(T, x, 1), StackTable(T, x), Stack(T, x)}

SpaceOK(T, x) ==
    /\ x # Pdp(T, x) /\ x # Pd(T, x, 0) /\ x # Pd(T, x, 1)
    /\ x # StackTable(T, x) /\ x # Stack(T, x)
    /\ Pdp(T, x) # Pd(T, x, 0) /\ Pdp(T, x) # Pd(T, x, 1)
    /\ Pdp(T, x) # StackTable(T, x) /\ Pdp(T, x) # Stack(T, x)
    /\ Pd(T, x, 0) # Pd(T, x, 1) /\ Pd(T, x, 0) # StackTable(T, x) /\ Pd(T, x, 0) # Stack(T, x)
    /\ Pd(T, x, 1) # StackTable(T, x) /\ Pd(T, x, 1) # Stack(T, x)
    /\ StackTable(T, x) # Stack(T, x)

\* The table of the program's region that the kernel shares with the processes
\* created after the first load; Huge before it.
Shared(T) == T[3][0]

KernelOK(F, T) ==
    /\ F \subseteq Frame \ {1, 2, 3, 4}
    /\ KernelTables(T)
    /\ Shared(T) = Huge \/ Shared(T) \in Frame \ (F \cup {1, 2, 3, 4})

SpacesOK(F, T, cr3) ==
    /\ \A p \in Proc : cr3[p] # 0 =>
         SpaceOK(T, cr3[p])
         /\ Space(T, cr3[p]) \subseteq Frame \ (F \cup {1, 2, 3, 4, Shared(T)})
    /\ \A p, q \in Proc : cr3[p] # 0 /\ cr3[q] # 0 /\ p # q =>
         Space(T, cr3[p]) \cap Space(T, cr3[q]) = {}

PTypeOK ==
    /\ m \in [free : SUBSET Frame, table : TableType, got : Nat]
    /\ cr3_of \in [Proc -> Frame \cup {0}]
    /\ loading \in Proc \cup {0}
    /\ loading # 0 => cr3_of[loading] # 0
    /\ created \in Nat

PInv == PTypeOK /\ KernelOK(m.free, m.table) /\ SpacesOK(m.free, m.table, cr3_of)

\* CreateProcess finds the six frames of an address space.
MemoryAvailable == loading = 0 /\ created < MaxCreations => Cardinality(m.free) >= 6

\* A process takes six frames and a page for its program, the first program one
\* table more.
FramesLeft ==
    Cardinality(m.free) + 7 * created + (IF Shared(m.table) = Huge THEN 0 ELSE 1)
        >= NumFrames - 4 + (IF loading = 0 THEN 0 ELSE 1)

EnoughFrames == NumFrames >= 7 * MaxCreations + 4

-----------------------------------------------------------------------------
LEMMA MemoryIs ==
    ASSUME PTypeOK
    PROVE  /\ m = MemoryOf(m.free, m.table, m.got)
           /\ m.free \in SUBSET Frame /\ m.table \in TableType /\ m.got \in Nat
BY DEF PTypeOK, MemoryOf

LEMMA MemoryBecomes ==
    ASSUME NEW F, NEW T, NEW g, m' = MemoryOf(F, T, g)
    PROVE  m'.free = F /\ m'.table = T /\ m'.got = g
BY DEF MemoryOf

LEMMA PInvInit == Init => PInv
<1> SUFFICES ASSUME Init PROVE PInv
  OBVIOUS
<1> DEFINE T == [f \in Frame |-> CASE f = 1 -> [Empty EXCEPT ![0] = 2]
                                  [] f = 2 -> [i \in Region |-> 3 + i]
                                  [] f \in {3, 4} -> [Empty EXCEPT ![0] = Huge]
                                  [] OTHER -> Empty]
<1>1. m = [free |-> 5 .. NumFrames, table |-> T, got |-> 0]
  BY DEF Init
<1>2. 0 \in Region /\ 1 \in Region /\ {1, 2, 3, 4} \subseteq Frame /\ Huge \in Nat
  BY FrameFacts DEF Region
<1>3. /\ [Empty EXCEPT ![0] = 2] \in [Region -> Nat]
      /\ [i \in Region |-> 3 + i] \in [Region -> Nat]
      /\ [Empty EXCEPT ![0] = Huge] \in [Region -> Nat]
      /\ Empty \in [Region -> Nat]
  BY <1>2 DEF Empty, Region
<1>4. T \in TableType
  BY <1>3 DEF TableType
<1>5. /\ T[1] = [Empty EXCEPT ![0] = 2]
      /\ T[2] = [i \in Region |-> 3 + i]
      /\ T[3] = [Empty EXCEPT ![0] = Huge]
      /\ T[4] = [Empty EXCEPT ![0] = Huge]
  BY <1>2
<1>6. T[1][0] = 2 /\ T[2][0] = 3 /\ T[2][1] = 4 /\ T[3][0] = Huge /\ T[4][0] = Huge
  BY <1>2, <1>5 DEF Empty
<1> HIDE DEF T
<1>7. 5 .. NumFrames \subseteq Frame \ {1, 2, 3, 4}
  BY PagingAssumption DEF Frame
<1>8. cr3_of = [p \in Proc |-> 0] /\ loading = 0 /\ created = 0
  BY DEF Init
<1>9. PTypeOK
  BY <1>1, <1>4, <1>7, <1>8 DEF PTypeOK
<1>10. KernelOK(m.free, m.table)
  BY <1>1, <1>6, <1>7 DEF KernelOK, KernelTables, Shared
<1>11. SpacesOK(m.free, m.table, cr3_of)
  BY <1>8 DEF SpacesOK
<1> QED
  BY <1>9, <1>10, <1>11 DEF PInv

\* An address space is where it was when none of its frames was written.
LEMMA SpaceUnmoved ==
    ASSUME NEW T, NEW U, NEW x, \A u \in Space(T, x) : U[u] = T[u]
    PROVE  /\ Space(U, x) = Space(T, x)
           /\ SpaceOK(T, x) => SpaceOK(U, x)
<1>1. Pdp(U, x) = Pdp(T, x)
  BY DEF Space, Pdp
<1>2. Pd(U, x, 0) = Pd(T, x, 0) /\ Pd(U, x, 1) = Pd(T, x, 1)
  BY <1>1 DEF Space, Pd
<1>3. StackTable(U, x) = StackTable(T, x)
  BY <1>2 DEF Space, StackTable
<1>4. Stack(U, x) = Stack(T, x)
  BY <1>3 DEF Space, Stack
<1> QED
  BY <1>1, <1>2, <1>3, <1>4 DEF Space, SpaceOK

\* The processes that stay keep their address spaces when these are not written
\* and nothing of them is freed or shared.
SpacesUntouched(T, c, G, U, e) ==
    \A p \in Proc : e[p] # 0 =>
        /\ e[p] = c[p]
        /\ \A u \in Space(T, c[p]) : U[u] = T[u] /\ u \notin G /\ u # Shared(U)

LEMMA SpacesKept ==
    ASSUME NEW F, NEW T, NEW c, NEW G, NEW U, NEW e, SpacesOK(F, T, c),
           SpacesUntouched(T, c, G, U, e)
    PROVE  SpacesOK(G, U, e)
<1>0. \A p \in Proc : e[p] # 0 =>
        /\ e[p] = c[p]
        /\ \A u \in Space(T, c[p]) : U[u] = T[u] /\ u \notin G /\ u # Shared(U)
  BY DEF SpacesUntouched
<1>1. ASSUME NEW p \in Proc, e[p] # 0
      PROVE  /\ Space(U, e[p]) = Space(T, c[p]) /\ SpaceOK(U, e[p])
             /\ Space(U, e[p]) \subseteq Frame \ (G \cup {1, 2, 3, 4, Shared(U)})
             /\ c[p] # 0
  <2>1. /\ SpaceOK(T, c[p]) /\ Space(T, c[p]) \subseteq Frame \ (F \cup {1, 2, 3, 4, Shared(T)})
        /\ e[p] = c[p]
    BY <1>0, <1>1 DEF SpacesOK
  <2>2. Space(U, c[p]) = Space(T, c[p]) /\ SpaceOK(U, c[p])
    BY <1>0, <1>1, <2>1, SpaceUnmoved
  <2> HIDE DEF Space
  <2> QED
    BY <1>0, <1>1, <2>1, <2>2
<1>2. ASSUME NEW p \in Proc, NEW q \in Proc, e[p] # 0, e[q] # 0, p # q
      PROVE  Space(U, e[p]) \cap Space(U, e[q]) = {}
  BY <1>1, <1>2 DEF SpacesOK
<1> QED
  BY <1>1, <1>2 DEF SpacesOK

-----------------------------------------------------------------------------
LEMMA TwoFramesLess ==
    ASSUME NEW F \in SUBSET Frame, NEW x \in F, NEW y \in F, x # y
    PROVE  /\ F \ {x, y} \in SUBSET Frame
           /\ Cardinality(F \ {x, y}) = Cardinality(F) - 2
           /\ Cardinality(F) \in Nat
<1>1. Cardinality(F \ {x}) = Cardinality(F) - 1 /\ Cardinality(F) \in Nat
  BY OneFrameLess
<1>2. Cardinality((F \ {x}) \ {y}) = Cardinality(F \ {x}) - 1
  <2>1. F \ {x} \in SUBSET Frame /\ y \in F \ {x}
    OBVIOUS
  <2> QED
    BY <2>1, OneFrameLess
<1>3. (F \ {x}) \ {y} = F \ {x, y}
  OBVIOUS
<1> QED
  BY <1>1, <1>2, <1>3

LEMMA CreateKeeps ==
    ASSUME PInv, MemoryAvailable, NEW c, NEW p \in Proc, CreateProcess(c, p)
    PROVE  PInv' /\ (FramesLeft => FramesLeft')
<1> DEFINE F == m.free
           T == m.table
<1>0. /\ loading = 0 /\ cr3_of[p] = 0 /\ created < MaxCreations /\ created' = created + 1
      /\ CreateAppTask(c, p)
  BY DEF CreateProcess
<1>1. /\ m = MemoryOf(F, T, m.got) /\ T \in TableType /\ F \in SUBSET Frame
      /\ F \in SUBSET (Frame \ {1, 2, 3, 4}) /\ KernelTables(T)
      /\ Cardinality(F) >= 6
      /\ Shared(T) = Huge \/ Shared(T) \in Frame \ (F \cup {1, 2, 3, 4})
      /\ SpacesOK(F, T, cr3_of) /\ created \in Nat
  BY <1>0, MemoryIs DEF PInv, KernelOK, MemoryAvailable, PTypeOK
<1> HIDE DEF F, T
<1> DEFINE a == CreateProcessPageTable(m)
<1>2. PICK x, d, p0, p1, U :
         /\ WithSpace(F, T, U, x, d, p0, p1)
         /\ a = MemoryOf(F \ {x, d, p0, p1}, U, x)
  <2>1. a = CreateProcessPageTable(MemoryOf(F, T, m.got))
    BY <1>1
  <2>2. Cardinality(F) >= 4 /\ F \in SUBSET (Frame \ {1, 2, 3, 4}) /\ T \in TableType /\ KernelTables(T)
    BY <1>1, OneFrameLess
  <2> HIDE DEF a
  <2>3. SpaceCreated(F, T, a)
    BY <2>1, <2>2, CreateProcessPageTableGives
  <2> QED
    BY <2>3 DEF SpaceCreated
<1> DEFINE F4 == F \ {x, d, p0, p1}
<1>3. /\ F4 \in SUBSET Frame /\ Cardinality(F4) = Cardinality(F) - 4 /\ Cardinality(F4) >= 2
      /\ Cardinality(F) \in Nat
  <2> DEFINE F2 == F \ {x, d}
  <2>1. /\ F2 \in SUBSET Frame /\ Cardinality(F2) = Cardinality(F) - 2
        /\ Cardinality(F) \in Nat
    BY <1>1, <1>2, TwoFramesLess, SMTT(30) DEF WithSpace
  <2>2. p0 \in F2 /\ p1 \in F2 /\ p0 # p1
    BY <1>2 DEF WithSpace
  <2> HIDE DEF F2
  <2> DEFINE F5 == F2 \ {p0, p1}
  <2>3. Cardinality(F5) = Cardinality(F2) - 2 /\ F5 \in SUBSET Frame
    BY <2>1, <2>2, TwoFramesLess
  <2>4. F5 = F4
    BY DEF F2
  <2> HIDE DEF F4, F5
  <2>5. Cardinality(F4) = Cardinality(F) - 4 /\ F4 \in SUBSET Frame
    BY <2>1, <2>3, <2>4
  <2> QED
    BY <1>1, <2>1, <2>5, SMTT(30)
<1>4. /\ x \in Frame \ F4 /\ d \in Frame \ F4 /\ p1 \in Frame \ F4 /\ U \in TableType
      /\ U[x][0] = d /\ U[d][1] = p1 /\ U[p1][0] = Huge
  BY <1>1, <1>2 DEF WithSpace
<1> HIDE DEF a, F4
<1> DEFINE b == AllocateVirtual(a, x, 1)
<1>5. PICK st, pt, W :
         /\ WithStack(F4, U, W, p1, pt, st)
         /\ b = MemoryOf(F4 \ {st, pt}, W, st)
  <2>1. b = AllocateVirtual(MemoryOf(F4, U, x), x, 1)
    BY <1>2 DEF F4
  <2> HIDE DEF b
  <2> QED
    BY <1>3, <1>4, <2>1, AllocateStackGives, SMTT(30)
<1> DEFINE G == F4 \ {st, pt}
<1>6. m' = MemoryOf(G, W, st) /\ cr3_of' = [cr3_of EXCEPT ![p] = x] /\ loading' = p
  <2>1. a.got = x /\ x # 0 /\ b.got = st /\ st # 0
    <3>1. a.got = x /\ b.got = st
      BY <1>2, <1>5 DEF MemoryOf
    <3>2. x \in Frame /\ st \in Frame
      BY <1>3, <1>4, <1>5 DEF WithStack
    <3> QED
      BY <3>1, <3>2, FrameFacts
  <2>2. AllocateVirtualForProcess(a, a.got, 1) = b
    BY <2>1 DEF AllocateVirtualForProcess
  <2> HIDE DEF b
  <2> QED
    BY <1>0, <1>5, <2>1, <2>2 DEF CreateAppTask, a
<1> HIDE DEF b
<1>7. m'.free = G /\ m'.table = W /\ m'.got = st
  <2> HIDE DEF G
  <2> QED
    BY <1>6, MemoryBecomes
<1>8. Cardinality(G) = Cardinality(F) - 6 /\ G \in SUBSET Frame
  BY <1>3, <1>5, TwoFramesLess DEF WithStack
<1>9. G \subseteq F /\ {x, d, p0, p1, st, pt} \subseteq F \ G
  BY <1>2, <1>5 DEF F4, WithSpace, WithStack
<1>10. /\ W \in TableType
       /\ W[x][0] = d /\ W[d][0] = p0 /\ W[d][1] = p1 /\ W[p1][0] = pt /\ W[pt][0] = st
       /\ \A u \in Frame \ F : W[u] = T[u]
  <2>1. /\ st # x /\ st # d /\ st # p1 /\ pt # x /\ pt # d /\ pt # p1
        /\ d # p1 /\ x # p1 /\ p0 # p1
    BY <1>2, <1>5 DEF F4, WithSpace, WithStack
  <2>2. W[x] = U[x] /\ W[d] = U[d] /\ W[p1][0] = pt /\ W[pt][0] = st /\ W \in TableType
    BY <1>4, <1>5, <2>1 DEF WithStack
  <2>3. \A u \in Frame \ F : U[u] = T[u]
    BY <1>2 DEF WithSpace
  <2>4. \A u \in Frame \ F : W[u] = U[u]
    BY <1>5, <1>9, <1>2 DEF WithStack, WithSpace
  <2> QED
    BY <1>2, <2>2, <2>3, <2>4 DEF WithSpace
<1>11. Space(W, x) = {x, d, p0, p1, pt, st} /\ SpaceOK(W, x)
  <2>1. Pdp(W, x) = d /\ Pd(W, x, 0) = p0 /\ Pd(W, x, 1) = p1
    BY <1>10 DEF Pdp, Pd
  <2>2. StackTable(W, x) = pt /\ Stack(W, x) = st
    BY <1>10, <2>1 DEF StackTable, Stack
  <2>3. /\ st \notin {x, d, p0, p1} /\ pt \notin {x, d, p0, p1} /\ st # pt
        /\ x # d /\ x # p0 /\ x # p1 /\ d # p0 /\ d # p1 /\ p0 # p1
    BY <1>2, <1>5 DEF F4, WithSpace, WithStack
  <2> QED
    BY <2>1, <2>2, <2>3 DEF Space, SpaceOK
<1>12. W[1] = T[1] /\ W[2] = T[2] /\ W[3] = T[3] /\ W[4] = T[4] /\ Shared(W) = Shared(T)
  BY <1>1, <1>10, FrameFacts DEF Shared
<1> HIDE DEF G
<1>13. KernelOK(G, W)
  BY <1>1, <1>8, <1>9, <1>12 DEF KernelOK, KernelTables, Shared
<1>14. SpacesOK(G, W, cr3_of)
  <2>1. ASSUME NEW q \in Proc, cr3_of[q] # 0, NEW u \in Space(T, cr3_of[q])
        PROVE  W[u] = T[u] /\ u \notin G /\ u # Shared(W)
    <3>1. u \in Frame \ (F \cup {1, 2, 3, 4, Shared(T)})
      BY <1>1, <2>1 DEF SpacesOK
    <3> QED
      BY <1>9, <1>10, <1>12, <3>1
  <2>2. SpacesUntouched(T, cr3_of, G, W, cr3_of)
    BY <2>1 DEF SpacesUntouched
  <2>3. SpacesOK(F, T, cr3_of)
    BY <1>1
  <2> QED
    BY <2>2, <2>3, SpacesKept
<1>15. ASSUME NEW q \in Proc, cr3_of[q] # 0
       PROVE  Space(W, cr3_of[q]) \cap F = {}
  <2>1. Space(T, cr3_of[q]) \cap F = {}
    BY <1>1, <1>15 DEF SpacesOK
  <2>2. \A u \in Space(T, cr3_of[q]) : W[u] = T[u]
    BY <1>1, <1>10, <1>15 DEF SpacesOK
  <2> QED
    BY <2>1, <2>2, SpaceUnmoved
<1> DEFINE e == [cr3_of EXCEPT ![p] = x]
<1>16. e[p] = x /\ (\A q \in Proc \ {p} : e[q] = cr3_of[q]) /\ e \in [Proc -> Frame \cup {0}]
  BY <1>4 DEF PInv, PTypeOK
<1> HIDE DEF e
<1>17. Space(W, x) \subseteq F /\ Space(W, x) \subseteq Frame \ (G \cup {1, 2, 3, 4, Shared(W)})
  <2>1. {x, d, p0, p1, pt, st} \subseteq F \ G
    BY <1>9
  <2>2. F \in SUBSET (Frame \ {1, 2, 3, 4}) /\ Shared(T) \notin F
    BY <1>1, FrameFacts
  <2>3. Space(W, x) = {x, d, p0, p1, pt, st} /\ Shared(W) = Shared(T)
    BY <1>11, <1>12
  <2> QED
    BY <2>1, <2>2, <2>3
<1>18. SpacesOK(G, W, e)
  <2>1. ASSUME NEW q \in Proc, e[q] # 0
        PROVE  /\ SpaceOK(W, e[q])
               /\ Space(W, e[q]) \subseteq Frame \ (G \cup {1, 2, 3, 4, Shared(W)})
    <3>1. CASE q = p
      BY <1>11, <1>16, <1>17, <3>1
    <3>2. CASE q # p
      BY <1>14, <1>16, <2>1, <3>2 DEF SpacesOK
    <3> QED
      BY <3>1, <3>2
  <2>2. ASSUME NEW q \in Proc, NEW r \in Proc, e[q] # 0, e[r] # 0, q # r
        PROVE  Space(W, e[q]) \cap Space(W, e[r]) = {}
    <3>1. CASE q = p
      BY <1>15, <1>16, <1>17, <2>2, <3>1
    <3>2. CASE r = p
      BY <1>15, <1>16, <1>17, <2>2, <3>2
    <3>3. CASE q # p /\ r # p
      BY <1>14, <1>16, <2>2, <3>3 DEF SpacesOK
    <3> QED
      BY <3>1, <3>2, <3>3
  <2> QED
    BY <2>1, <2>2 DEF SpacesOK
<1>19. PTypeOK'
  <2>1. m' \in [free : SUBSET Frame, table : TableType, got : Nat]
    <3>1. st \in Nat
      BY <1>3, <1>5, FrameFacts DEF WithStack
    <3> QED
      BY <1>6, <1>8, <1>10, <3>1 DEF MemoryOf
  <2>2. x # 0 /\ created' \in Nat
    BY <1>0, <1>1, <1>4, FrameFacts, SMTT(30)
  <2> QED
    BY <1>6, <1>16, <2>1, <2>2 DEF PTypeOK, e
<1>20. PInv'
  BY <1>6, <1>7, <1>13, <1>18, <1>19 DEF PInv, e
<1>21. ASSUME FramesLeft PROVE FramesLeft'
  <2>1. p # 0 /\ NumFrames \in Nat /\ created \in Nat /\ Cardinality(F) \in Nat /\ loading = 0
    BY <1>0, <1>1, <1>3, PagingAssumption
  <2>2. Cardinality(F) + 7 * created + (IF Shared(T) = Huge THEN 0 ELSE 1) >= NumFrames - 4
    BY <1>21, <2>1 DEF FramesLeft, F, T
  <2>3. Cardinality(G) + 7 * (created + 1) + (IF Shared(T) = Huge THEN 0 ELSE 1)
           >= NumFrames - 4 + 1
    BY <1>1, <1>3, <1>8, <2>1, <2>2, SMTT(30)
  <2> QED
    BY <1>0, <1>6, <1>7, <1>12, <2>1, <2>3 DEF FramesLeft
<1> QED
  BY <1>20, <1>21

LEMMA LoadKeeps ==
    ASSUME PInv, NEW p \in Proc, LoadSucceeds(p)
    PROVE  PInv' /\ (FramesLeft => FramesLeft')
<1> DEFINE F == m.free
           T == m.table
           a == AllocateVirtual(m, pml4_table, 0)
<1>0. /\ loading = p /\ p # 0 /\ a.got # 0 /\ m' = a /\ loading' = 0
      /\ cr3_of' = cr3_of /\ created' = created
  BY DEF LoadSucceeds
<1>1. /\ m = MemoryOf(F, T, m.got) /\ T \in TableType /\ F \in SUBSET Frame
      /\ F \in SUBSET (Frame \ {1, 2, 3, 4}) /\ KernelTables(T)
      /\ Shared(T) = Huge \/ Shared(T) \in Frame \ (F \cup {1, 2, 3, 4})
      /\ SpacesOK(F, T, cr3_of) /\ created \in Nat
  BY MemoryIs DEF PInv, KernelOK, PTypeOK
<1> HIDE DEF F, T
<1>2. F # {}
  <2>1. ASSUME F = {} PROVE FALSE
    <3>1. m = MemoryOf({}, T, m.got)
      BY <1>1, <2>1
    <3>2. AllocateFrame(MemoryOf({}, T, m.got)) = MemoryOf({}, T, 0) /\ MemoryOf({}, T, 0).got = 0
      BY DEF AllocateFrame, MemoryOf
    <3>3. AllocateFrame(m).got = 0
      BY <3>1, <3>2
    <3> QED
      BY <1>0, <3>3 DEF AllocateVirtual
  <2> QED
    BY <2>1
<1>3. PICK G, U : Loaded(F, T, G, U) /\ a = MemoryOf(G, U, Min(F))
  <2>1. a = AllocateVirtual(MemoryOf(F, T, m.got), pml4_table, 0)
    BY <1>1
  <2>2. /\ F \in SUBSET (Frame \ {1, 2, 3, 4}) /\ F # {} /\ T \in TableType /\ KernelTables(T)
        /\ T[3][0] = Huge \/ T[3][0] \in Frame \ (F \cup {1, 2, 3, 4})
    BY <1>1, <1>2 DEF Shared
  <2> HIDE DEF a
  <2> QED
    BY <2>1, <2>2, AllocateProgramGives, SMTT(30)
<1> HIDE DEF a
<1>4. m'.free = G /\ m'.table = U /\ m' = MemoryOf(G, U, Min(F))
  BY <1>0, <1>3, MemoryBecomes
<1>5. /\ U \in TableType /\ G \subseteq F
      /\ \A u \in Frame \ (F \cup {3, Shared(T)}) : U[u] = T[u]
      /\ \/ Shared(U) = Shared(T)
         \/ Shared(T) = Huge /\ Shared(U) \in F \ G
  BY <1>3 DEF Loaded, Shared
<1>6. {1, 2, 3, 4} \subseteq Frame /\ Huge \notin Frame
  BY FrameFacts
<1>7. U[1] = T[1] /\ U[2] = T[2] /\ U[4] = T[4]
  BY <1>1, <1>5, <1>6, SMTT(30)
<1>8. KernelOK(G, U)
  BY <1>1, <1>5, <1>7 DEF KernelOK, KernelTables
<1>9. SpacesOK(G, U, cr3_of)
  <2>1. ASSUME NEW q \in Proc, cr3_of[q] # 0, NEW u \in Space(T, cr3_of[q])
        PROVE  U[u] = T[u] /\ u \notin G /\ u # Shared(U)
    <3>1. u \in Frame \ (F \cup {1, 2, 3, 4, Shared(T)})
      BY <1>1, <2>1 DEF SpacesOK
    <3> QED
      BY <1>5, <3>1
  <2>2. SpacesUntouched(T, cr3_of, G, U, cr3_of)
    BY <2>1 DEF SpacesUntouched
  <2>3. SpacesOK(F, T, cr3_of)
    BY <1>1
  <2> QED
    BY <2>2, <2>3, SpacesKept
<1>10. Min(F) \in Nat
  BY <1>1, <1>2, FrameFacts, MinIsMember
<1>11. PTypeOK'
  <2>1. m' \in [free : SUBSET Frame, table : TableType, got : Nat]
    BY <1>1, <1>4, <1>5, <1>10 DEF MemoryOf
  <2> QED
    BY <1>0, <2>1 DEF PTypeOK, PInv
<1>12. PInv'
  BY <1>0, <1>4, <1>8, <1>9, <1>11 DEF PInv
<1>13. ASSUME FramesLeft PROVE FramesLeft'
  <2>1. NumFrames \in Nat /\ Cardinality(F) \in Nat /\ Cardinality(G) \in Nat
    <3>1. G \in SUBSET Frame
      BY <1>1, <1>5
    <3> QED
      BY <1>1, <3>1, PagingAssumption, OneFrameLess
  <2>2. Cardinality(F) + 7 * created + (IF Shared(T) = Huge THEN 0 ELSE 1) >= NumFrames - 4 + 1
    BY <1>0, <1>1, <1>13, <2>1 DEF FramesLeft, F, T
  <2>3. \/ Shared(U) = Shared(T) /\ Cardinality(G) = Cardinality(F) - 1
        \/ Shared(T) = Huge /\ Shared(U) # Huge /\ Cardinality(G) = Cardinality(F) - 2
    BY <1>1, <1>3, <1>6 DEF Loaded, Shared
  <2>4. created \in Nat
    BY <1>1
  <2>5. Cardinality(G) + 7 * created + (IF Shared(U) = Huge THEN 0 ELSE 1) >= NumFrames - 4
    BY <2>1, <2>2, <2>3, <2>4
  <2> QED
    BY <1>0, <1>4, <2>1, <2>4, <2>5 DEF FramesLeft
<1> QED
  BY <1>12, <1>13

\* The end of a process: its tables are freed, its stack and the table of its
\* stack are not.
LEMMA EndKeeps ==
    ASSUME PInv, NEW p \in Proc, cr3_of[p] # 0, loading \in {0, p},
           m' = FreeProcessPageTable(m, cr3_of[p]),
           cr3_of' = [cr3_of EXCEPT ![p] = 0],
           loading' = 0, created' = created
    PROVE  PInv' /\ (FramesLeft => FramesLeft')
<1> DEFINE F == m.free
           T == m.table
           x == cr3_of[p]
           d == T[x][0]
           p0 == T[d][0]
           p1 == T[d][1]
<1>1. /\ m = MemoryOf(F, T, m.got) /\ T \in TableType /\ F \in SUBSET Frame
      /\ F \in SUBSET (Frame \ {1, 2, 3, 4}) /\ KernelTables(T)
      /\ Shared(T) = Huge \/ Shared(T) \in Frame \ (F \cup {1, 2, 3, 4})
      /\ SpacesOK(F, T, cr3_of) /\ created \in Nat /\ m.got \in Nat
  BY MemoryIs DEF PInv, KernelOK, PTypeOK
<1> HIDE DEF F, T
<1>2. /\ Space(T, x) \subseteq Frame \ (F \cup {1, 2, 3, 4, Shared(T)})
      /\ SpaceOK(T, x) /\ {x, d, p0, p1} \subseteq Space(T, x)
  <2>1. Space(T, x) \subseteq Frame \ (F \cup {1, 2, 3, 4, Shared(T)}) /\ SpaceOK(T, x)
    BY <1>1 DEF SpacesOK
  <2>2. {x, d, p0, p1} \subseteq Space(T, x)
    BY DEF Space, Pdp, Pd
  <2> QED
    BY <2>1, <2>2
<1>3. x \in Frame \ {1} /\ d \in Frame /\ p0 \in Frame /\ p1 \in Frame
  BY <1>2
<1> DEFINE G == F \cup {x, d, p0, p1}
<1>4. PICK U \in TableType :
        /\ m' = MemoryOf(G, U, m.got)
        /\ \A u \in Frame \ {d} : U[u] = T[u]
  <2>1. m' = FreeProcessPageTable(MemoryOf(F, T, m.got), x)
    BY <1>1
  <2>2. T[x][0] = d /\ T[d][0] = p0 /\ T[d][1] = p1
    OBVIOUS
  <2> HIDE DEF x, d, p0, p1
  <2>3. T \in TableType
    BY <1>1
  <2>4. SpaceFreed(F, T, m.got, x, d, p0, p1, m')
    BY <1>3, <2>1, <2>2, <2>3, FreeProcessPageTableGives, SMTT(30)
  <2> QED
    BY <2>4 DEF SpaceFreed
<1>5. m'.free = G /\ m'.table = U
  <2> HIDE DEF G
  <2> QED
    BY <1>4, MemoryBecomes
<1>6. {1, 2, 3, 4} \subseteq Frame /\ Huge \notin Frame
  BY FrameFacts
<1>7. U[1] = T[1] /\ U[2] = T[2] /\ U[3] = T[3] /\ U[4] = T[4] /\ Shared(U) = Shared(T)
  BY <1>2, <1>4, <1>6 DEF Shared
<1>8. G \subseteq F \cup Space(T, x) /\ G \in SUBSET Frame /\ d \in Space(T, x)
  BY <1>1, <1>2, <1>3
<1> HIDE DEF x, d, p0, p1, G
<1>9. KernelOK(G, U)
  BY <1>1, <1>2, <1>6, <1>7, <1>8 DEF KernelOK, KernelTables
<1> DEFINE e == [cr3_of EXCEPT ![p] = 0]
<1>10. e[p] = 0 /\ (\A q \in Proc \ {p} : e[q] = cr3_of[q]) /\ e \in [Proc -> Frame \cup {0}]
  BY DEF PInv, PTypeOK
<1> HIDE DEF e
<1>11. SpacesOK(G, U, e)
  <2>1. ASSUME NEW q \in Proc, e[q] # 0, NEW u \in Space(T, cr3_of[q])
        PROVE  U[u] = T[u] /\ u \notin G /\ u # Shared(U)
    <3>1. q # p /\ cr3_of[q] # 0
      BY <1>10, <2>1
    <3>2. u \in Frame \ (F \cup {1, 2, 3, 4, Shared(T)})
      BY <1>1, <2>1, <3>1 DEF SpacesOK
    <3>3. u \notin Space(T, x)
      BY <1>1, <2>1, <3>1 DEF SpacesOK, x
    <3> QED
      BY <1>4, <1>7, <1>8, <3>2, <3>3
  <2>2. \A q \in Proc : e[q] # 0 => e[q] = cr3_of[q]
    BY <1>10
  <2>3. SpacesUntouched(T, cr3_of, G, U, e)
    BY <2>1, <2>2 DEF SpacesUntouched
  <2>4. SpacesOK(F, T, cr3_of)
    BY <1>1
  <2> QED
    BY <2>3, <2>4, SpacesKept
<1>12. PTypeOK'
  <2>1. m' \in [free : SUBSET Frame, table : TableType, got : Nat]
    BY <1>1, <1>4, <1>8 DEF MemoryOf
  <2> QED
    BY <1>1, <1>10, <2>1 DEF PTypeOK, e
<1>13. PInv'
  BY <1>5, <1>9, <1>11, <1>12 DEF PInv, e
<1>14. ASSUME FramesLeft PROVE FramesLeft'
  <2>0. NumFrames \in Nat /\ Cardinality(F) \in Nat /\ Cardinality(G) \in Nat /\ created \in Nat
    BY <1>1, <1>8, PagingAssumption, OneFrameLess
  <2>1. Cardinality(G) >= Cardinality(F) + 1
    <3>1. F \subseteq G \ {x} /\ x \in G
      BY <1>2 DEF G
    <3>2. IsFiniteSet(G \ {x})
      BY <1>8, FrameFacts, FS_Subset
    <3>3. Cardinality(F) <= Cardinality(G \ {x})
      BY <3>1, <3>2, FS_Subset
    <3>4. Cardinality(G \ {x}) = Cardinality(G) - 1
      BY <1>8, <3>1, OneFrameLess
    <3> QED
      BY <2>0, <3>3, <3>4
  <2>2. Cardinality(F) + 7 * created + (IF Shared(T) = Huge THEN 0 ELSE 1)
           >= NumFrames - 4
    BY <1>14, <2>0 DEF FramesLeft, F, T
  <2>3. Cardinality(G) + 7 * created + (IF Shared(U) = Huge THEN 0 ELSE 1) >= NumFrames - 4
    BY <1>7, <2>0, <2>1, <2>2
  <2> QED
    BY <1>5, <2>0, <2>3 DEF FramesLeft
<1> QED
  BY <1>13, <1>14

\* CreateProcess has its memory in every step of a behaviour that has enough.
LEMMA PInvStep == PInv /\ MemoryAvailable /\ [Next]_vars => PInv' /\ (FramesLeft => FramesLeft')
<1> SUFFICES ASSUME PInv, MemoryAvailable, [Next]_vars
             PROVE  PInv' /\ (FramesLeft => FramesLeft')
  OBVIOUS
<1>1. ASSUME NEW c \in {0} \cup Proc, NEW p \in Proc, CreateProcess(c, p)
      PROVE  PInv' /\ (FramesLeft => FramesLeft')
  BY <1>1, CreateKeeps
<1>2. ASSUME NEW p \in Proc, LoadSucceeds(p)
      PROVE  PInv' /\ (FramesLeft => FramesLeft')
  BY <1>2, LoadKeeps
<1>3. ASSUME NEW p \in Proc, LoadFails(p)
      PROVE  PInv' /\ (FramesLeft => FramesLeft')
  <2>1. /\ cr3_of[p] # 0 /\ loading \in {0, p} /\ loading' = 0 /\ created' = created
        /\ m' = FreeProcessPageTable(m, cr3_of[p]) /\ cr3_of' = [cr3_of EXCEPT ![p] = 0]
    BY <1>3 DEF LoadFails, PInv, PTypeOK
  <2> QED
    BY <2>1, EndKeeps
<1>4. ASSUME NEW p \in Proc, Exit(p)
      PROVE  PInv' /\ (FramesLeft => FramesLeft')
  <2>1. /\ cr3_of[p] # 0 /\ loading \in {0, p} /\ loading' = 0 /\ created' = created
        /\ m' = FreeProcessPageTable(m, cr3_of[p]) /\ cr3_of' = [cr3_of EXCEPT ![p] = 0]
    BY <1>4 DEF Exit
  <2> QED
    BY <2>1, EndKeeps
<1>5. CASE UNCHANGED vars
  BY <1>5 DEF vars, PInv, PTypeOK, FramesLeft
<1> QED
  BY <1>1, <1>2, <1>3, <1>4, <1>5 DEF Next

LEMMA FramesLeftInit == Init => FramesLeft
<1> SUFFICES ASSUME Init PROVE FramesLeft
  OBVIOUS
<1>1. m.free = 5 .. NumFrames /\ created = 0 /\ loading = 0
  BY DEF Init
<1>2. Cardinality(5 .. NumFrames) = NumFrames - 4
  BY PagingAssumption, FS_Interval
<1> QED
  BY <1>1, <1>2, PagingAssumption DEF FramesLeft

LEMMA FramesLeftSuffices ==
    ASSUME EnoughFrames, PInv, FramesLeft PROVE MemoryAvailable
<1> SUFFICES ASSUME loading = 0, created < MaxCreations PROVE Cardinality(m.free) >= 6
  BY DEF MemoryAvailable
<1>1. Cardinality(m.free) \in Nat /\ created \in Nat
  BY OneFrameLess DEF PInv, PTypeOK
<1>2. 7 * created <= 7 * MaxCreations - 7
  BY <1>1, PagingAssumption
<1>3. Cardinality(m.free) + 7 * created + 1 >= NumFrames - 4
  BY <1>1, PagingAssumption DEF FramesLeft
<1> QED
  BY <1>1, <1>2, <1>3, PagingAssumption DEF EnoughFrames

\* While CreateProcess finds six free frames, the address spaces stay well formed
\* and apart: CreateProcess copies the kernel's tables, the load of a program
\* writes the kernel's, and the end of a process frees what only it uses.
THEOREM PInvariant == Spec /\ []MemoryAvailable => []PInv
<1>1. PInv /\ MemoryAvailable /\ [Next]_vars => PInv'
  BY PInvStep
<1> QED
  BY <1>1, PInvInit, PTL DEF Spec

\* With seven frames for each call of CreateProcess and the kernel's four, it
\* always finds them: the end of a process leaks two frames and the page of its
\* program, and no more.
THEOREM MemorySuffices == ASSUME EnoughFrames PROVE Spec => [](PInv /\ MemoryAvailable)
<1>1. Init => PInv /\ FramesLeft
  BY PInvInit, FramesLeftInit
<1>2. PInv /\ FramesLeft /\ [Next]_vars => (PInv /\ FramesLeft)'
  BY PInvStep, FramesLeftSuffices
<1>3. PInv /\ FramesLeft => PInv /\ MemoryAvailable
  BY FramesLeftSuffices
<1> QED
  BY <1>1, <1>2, <1>3, PTL DEF Spec

-----------------------------------------------------------------------------
(***************************************************************************)
(* The properties that follow.                                             *)
(***************************************************************************)
LEMMA LiveSpace ==
    ASSUME PInv, NEW p \in Live
    PROVE  /\ p \in Proc /\ cr3_of[p] \in Frame \ {1}
           /\ Space(m.table, cr3_of[p]) \subseteq Frame \ (m.free \cup {1, 2, 3, 4})
           /\ OwnTables(cr3_of[p]) \subseteq Space(m.table, cr3_of[p])
           /\ Translate(m, cr3_of[p], 1) = Stack(m.table, cr3_of[p])
           /\ Stack(m.table, cr3_of[p]) \in Space(m.table, cr3_of[p])
<1> DEFINE T == m.table
           x == cr3_of[p]
<1>1. p \in Proc /\ x # 0
  BY DEF Live
<1>2. Space(T, x) \subseteq Frame \ (m.free \cup {1, 2, 3, 4})
  BY <1>1 DEF PInv, SpacesOK
<1> HIDE DEF x, T
<1>3. /\ x \in Space(T, x) /\ Pdp(T, x) \in Space(T, x) /\ Pd(T, x, 0) \in Space(T, x)
      /\ Pd(T, x, 1) \in Space(T, x) /\ StackTable(T, x) \in Space(T, x)
      /\ Stack(T, x) \in Space(T, x)
  BY DEF Space
<1>4. /\ x \in Frame \ {1} /\ Pdp(T, x) \in Frame /\ Pd(T, x, 1) \in Frame
      /\ StackTable(T, x) \in Frame /\ StackTable(T, x) # Huge
  BY <1>2, <1>3, FrameFacts
<1>5. OwnTables(x) = {x, Pdp(T, x)} \cup {Pd(T, x, i) : i \in Region}
  BY <1>4 DEF OwnTables, Walk, Pdp, Pd, T
<1>6. OwnTables(x) \subseteq Space(T, x)
  BY <1>3, <1>5 DEF Region
<1>7. Translate(m, x, 1) = Stack(T, x)
  <2>1. Walk(m, x, 0) = Pdp(T, x)
    BY <1>4 DEF Walk, Pdp, T
  <2>2. Walk(m, Pdp(T, x), 1) = Pd(T, x, 1)
    BY <1>4 DEF Walk, Pd, T
  <2>3. Walk(m, Pd(T, x, 1), 0) = StackTable(T, x)
    BY <1>4 DEF Walk, StackTable, T
  <2>4. Walk(m, StackTable(T, x), 0) = Stack(T, x)
    BY <1>4 DEF Walk, Stack, T
  <2> QED
    BY <1>4, <2>1, <2>2, <2>3, <2>4 DEF Translate
<1> QED
  BY <1>1, <1>2, <1>3, <1>4, <1>6, <1>7 DEF x, T

LEMMA LiveApart ==
    ASSUME PInv, NEW p \in Live, NEW q \in Live, p # q
    PROVE  Space(m.table, cr3_of[p]) \cap Space(m.table, cr3_of[q]) = {}
BY DEF PInv, SpacesOK, Live

LEMMA KernelSpace ==
    ASSUME PInv
    PROVE  OwnTables(pml4_table) = {1, 2, 3, 4} /\ Translate(m, pml4_table, 1) = Home(1)
<1> DEFINE T == m.table
<1>1. /\ T[1][0] = 2 /\ T[2][0] = 3 /\ T[2][1] = 4 /\ T[4][0] = Huge
      /\ {1, 2, 3, 4} \subseteq Frame /\ pml4_table = 1
  BY FrameFacts DEF PInv, KernelOK, KernelTables
<1>2. Walk(m, 1, 0) = 2 /\ Walk(m, 2, 0) = 3 /\ Walk(m, 2, 1) = 4 /\ Walk(m, 4, 0) = Huge
  BY <1>1 DEF Walk
<1>3. OwnTables(1) = {1, 2} \cup {Walk(m, 2, i) : i \in Region}
  BY <1>1 DEF OwnTables
<1>4. {Walk(m, 2, i) : i \in Region} = {3, 4}
  BY <1>2 DEF Region
<1>5. OwnTables(1) = {1, 2, 3, 4}
  BY <1>3, <1>4
<1>6. Translate(m, 1, 1) = Home(1)
  BY <1>2 DEF Translate
<1> QED
  BY <1>1, <1>5, <1>6

LEMMA SpacesCounted ==
    ASSUME PInv
    PROVE  Cardinality({pml4_table} \cup {cr3_of[p] : p \in Live}) = Cardinality(Live) + 1
<1> DEFINE R == {cr3_of[p] : p \in Live}
           f == [p \in Live |-> cr3_of[p]]
<1>1. ASSUME NEW p \in Live, NEW q \in Live, cr3_of[p] = cr3_of[q] PROVE p = q
  <2>1. cr3_of[p] \in Space(m.table, cr3_of[p]) /\ cr3_of[q] \in Space(m.table, cr3_of[q])
    BY DEF Space
  <2> QED
    BY <1>1, <2>1, LiveApart
<1>2. f \in [Live -> R] /\ f \in [Live -> Frame] /\ 1 \notin R
  BY LiveSpace
<1>3. f \in Injection(Live, Frame) /\ f \in Injection(Live, R)
  BY <1>1, <1>2 DEF Injection, IsInjective
<1>4. f \in Bijection(Live, R)
  BY <1>3, <1>2 DEF Bijection, Surjection
<1> HIDE DEF f, R
<1>5. IsFiniteSet(Live)
  BY <1>3, FrameFacts, FS_Injection
<1>6. IsFiniteSet(R) /\ Cardinality(R) = Cardinality(Live)
  BY <1>4, <1>5, FS_Bijection DEF ExistsBijection
<1>7. Cardinality(R \cup {1}) = Cardinality(R) + 1
  BY <1>2, <1>6, FS_AddElement
<1>8. R \cup {1} = {pml4_table} \cup R
  BY FrameFacts
<1> QED
  BY <1>6, <1>7, <1>8 DEF R

LEMMA PInvGives == PInv => TablesApart /\ StackPrivate /\ KernelSeesMemory
<1> SUFFICES ASSUME PInv PROVE TablesApart /\ StackPrivate /\ KernelSeesMemory
  OBVIOUS
<1> DEFINE spaces == {pml4_table} \cup {cr3_of[p] : p \in Live}
<1>1. Cardinality(spaces) = Cardinality(Live) + 1
  BY SpacesCounted
<1>2. m.free \in SUBSET (Frame \ {1, 2, 3, 4}) /\ {1, 2, 3, 4} \subseteq Frame
  BY FrameFacts DEF PInv, KernelOK
<1>3. ASSUME NEW x \in spaces PROVE OwnTables(x) \subseteq Frame \ m.free
  <2>1. CASE x = pml4_table
    BY <1>2, <2>1, KernelSpace
  <2>2. ASSUME NEW p \in Live, x = cr3_of[p] PROVE OwnTables(x) \subseteq Frame \ m.free
    BY <2>2, LiveSpace
  <2> QED
    BY <2>1, <2>2
<1>4. ASSUME NEW x \in spaces, NEW y \in spaces, x # y
      PROVE  OwnTables(x) \cap OwnTables(y) = {}
  <2>1. ASSUME NEW p \in Live PROVE OwnTables(cr3_of[p]) \cap OwnTables(pml4_table) = {}
    <3>1. OwnTables(cr3_of[p]) \subseteq Frame \ (m.free \cup {1, 2, 3, 4})
      BY LiveSpace
    <3> QED
      BY <3>1, KernelSpace
  <2>2. ASSUME NEW p \in Live, NEW q \in Live, p # q
        PROVE  OwnTables(cr3_of[p]) \cap OwnTables(cr3_of[q]) = {}
    <3>1. /\ OwnTables(cr3_of[p]) \subseteq Space(m.table, cr3_of[p])
          /\ OwnTables(cr3_of[q]) \subseteq Space(m.table, cr3_of[q])
      BY LiveSpace
    <3> QED
      BY <2>2, <3>1, LiveApart
  <2> QED
    BY <1>4, <2>1, <2>2
<1>5. TablesApart
  BY <1>1, <1>3, <1>4 DEF TablesApart
<1>6. StackPrivate
  <2>1. ASSUME NEW p \in Live PROVE Translate(m, cr3_of[p], 1) \in Frame \ m.free
    BY LiveSpace
  <2>2. ASSUME NEW p \in Live, NEW q \in Live \ {p}
        PROVE  Translate(m, cr3_of[q], 1) # Translate(m, cr3_of[p], 1)
    <3>1. /\ Translate(m, cr3_of[p], 1) \in Space(m.table, cr3_of[p])
          /\ Translate(m, cr3_of[q], 1) \in Space(m.table, cr3_of[q])
      BY LiveSpace
    <3> QED
      BY <3>1, LiveApart
  <2> QED
    BY <2>1, <2>2 DEF StackPrivate
<1>7. KernelSeesMemory
  BY KernelSpace DEF KernelSeesMemory
<1> QED
  BY <1>5, <1>6, <1>7

\* CreateProcessPageTable and FreeProcessPageTable, in any order and number: the
\* kernel and each live process have four tables of their own, none of them free.
THEOREM SpacesStayApart == ASSUME EnoughFrames PROVE Spec => []TablesApart
BY MemorySuffices, PInvGives, PTL

\* AllocateVirtualForProcess: the stack of a live process is an allocated page
\* that no other process maps as its own.
THEOREM StacksStayPrivate == ASSUME EnoughFrames PROVE Spec => []StackPrivate
BY MemorySuffices, PInvGives, PTL

\* CreateAppTask maps the user stack below a copied PD only, so that the kernel
\* never loses sight of the memory behind that address.
THEOREM KernelNeverBlinded == ASSUME EnoughFrames PROVE Spec => []KernelSeesMemory
BY MemorySuffices, PInvGives, PTL

\* The same three for a machine of any size, in the behaviours in which
\* CreateProcess never runs out of memory.
THEOREM ApartWhileMemoryLasts ==
    Spec /\ []MemoryAvailable => [](TablesApart /\ StackPrivate /\ KernelSeesMemory)
BY PInvariant, PInvGives, PTL
=============================================================================
