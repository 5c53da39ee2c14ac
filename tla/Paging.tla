------------------------------- MODULE Paging -------------------------------
(***************************************************************************)
(* PageManager (kernel/paging.cpp) as CreateAppTask, CreateProcess and the *)
(* ends of a task use it.                                                  *)
(*                                                                         *)
(* Two user regions are modelled: region 0, where every program is linked  *)
(* (0x1000000, under PDP entry 0), and region 1, the user stack (below     *)
(* 0x70000000, under PDP entry 1).  A region is one page under one PD      *)
(* entry.  A table is a frame with an entry for each region; tables with   *)
(* one entry of interest (PML4, PD, PT) use entry 0.  Frames that are not  *)
(* page tables or pages of the two regions are left out.  A process is     *)
(* created, loaded and ended without another memory operation in between:  *)
(* IdleLoadsAlone of Scheduler, and applications are not preempted.        *)
(***************************************************************************)
EXTENDS Naturals, FiniteSets, FiniteSetsExt

CONSTANTS
    NumFrames,      \* frames of physical memory
    Proc,           \* process slots: positive numbers
    MaxCreations    \* bound: calls of CreateProcess in a behaviour

ASSUME PagingAssumption ==
    /\ NumFrames \in Nat /\ NumFrames >= 4
    /\ Proc \subseteq Nat \ {0}
    /\ MaxCreations \in Nat

Frame == 1 .. NumFrames
Region == {0, 1}

\* The frame at the address of the region, which the identity mapping uses.
Home(r) == NumFrames + 1 + r

Page == Frame \cup {Home(r) : r \in Region}
Huge == NumFrames + 3
Entry == {0, Huge} \cup Page
Empty == [i \in Region |-> 0]

VARIABLES
    m,              \* [free, table, got]: free frames, tables, the last frame got
    cr3_of,         \* Task::context.cr3 of the processes, 0: no process
    loading,        \* the process CreateProcess is loading, 0: none
    caller,         \* who called CreateProcess; 0 is the idle task
    image,          \* whose program was copied into a page, 0: nobody's
    fresh,          \* the page AllocateVirtual mapped for the process last loaded
    created         \* calls of CreateProcess so far

vars == <<m, cr3_of, loading, caller, image, fresh, created>>

\* PageManager::Initialize takes the first four frames.
pml4_table == 1

Init ==
    /\ m = [free |-> 5 .. NumFrames,
            table |-> [f \in Frame |-> CASE f = 1 -> [Empty EXCEPT ![0] = 2]
                                         [] f = 2 -> [i \in Region |-> 3 + i]
                                         [] f \in {3, 4} -> [Empty EXCEPT ![0] = Huge]
                                         [] OTHER -> Empty],
            got |-> 0]
    /\ cr3_of = [p \in Proc |-> 0]
    /\ loading = 0
    /\ caller = 0
    /\ image = [f \in Page |-> 0]
    /\ fresh = 0
    /\ created = 0

-----------------------------------------------------------------------------
\* MemoryManager::AllocateFrame (first fit, see MemoryManager) and the memset
\* that all callers here do.  got = 0 is nullptr.
AllocateFrame(s) ==
    IF s.free = {} THEN [s EXCEPT !.got = 0]
    ELSE LET f == Min(s.free)
         IN [s EXCEPT !.free = @ \ {f}, !.table[f] = Empty, !.got = f]

AllocateTable(s) == AllocateFrame(s)

SetEntry(s, t, i, e) == [s EXCEPT !.table[t][i] = e]

CopyPageTable(s, src) ==
    LET a == AllocateTable(s)
    IN IF a.got = 0 THEN a ELSE [a EXCEPT !.table[a.got] = s.table[src]]

\* Replace the child at entry i by a copy; keep the shared one when there is no
\* memory for it.
CopyChild(s, t, i) ==
    IF s.table[t][i] = 0 THEN s
    ELSE LET a == CopyPageTable(s, s.table[t][i])
         IN IF a.got = 0 THEN s ELSE SetEntry(a, t, i, a.got)

\* Mutant: the table of the stack region is not copied.
CopyTablesSharingStack(s, new) ==
    LET a == CopyChild(s, new, 0)
        pdp == a.table[new][0]
    IN IF pdp = s.table[new][0] THEN a ELSE CopyChild(a, pdp, 0)

\* Mutant: the table of the program's region is not copied.
CopyTablesSharingCode(s, new) ==
    LET a == CopyChild(s, new, 0)
        pdp == a.table[new][0]
    IN IF pdp = s.table[new][0] THEN a ELSE CopyChild(a, pdp, 1)

\* The PDP and then both PDs; only below a PDP that was copied.
CopyTables(s, new) ==
    LET a == CopyChild(s, new, 0)
        pdp == a.table[new][0]
    IN IF pdp = s.table[new][0] THEN a ELSE CopyChild(CopyChild(a, pdp, 0), pdp, 1)

CreateProcessPageTable(s) ==
    LET a == CopyPageTable(s, pml4_table)
    IN IF a.got = 0 THEN a ELSE [CopyTables(a, a.got) EXCEPT !.got = a.got]

\* EnsureEntry: got = 0 says that there was no memory for a table.
EnsureEntry(s, t, i) ==
    IF s.table[t][i] # 0 THEN [s EXCEPT !.got = s.table[t][i]]
    ELSE LET a == AllocateTable(s)
         IN IF a.got = 0 THEN a ELSE SetEntry(a, t, i, a.got)

\* The split of a huge page: a table that maps the same addresses.
Split(s, pd, r) ==
    IF s.table[pd][0] # Huge THEN [s EXCEPT !.got = pd]
    ELSE LET a == AllocateTable(s)
         IN IF a.got = 0 THEN a
            ELSE SetEntry(SetEntry(a, a.got, 0, Home(r)), pd, 0, a.got)

\* MapPage below the PML4 table root; it reports nothing to its caller.
MapPage(s, root, r, page) ==
    LET a == EnsureEntry(s, root, 0)
        b == IF a.got = 0 THEN a ELSE EnsureEntry(a, a.got, r)
        c == IF b.got = 0 THEN b ELSE Split(b, b.got, r)
        d == IF c.got = 0 THEN c ELSE EnsureEntry(c, b.got, 0)
    IN IF d.got = 0 THEN d ELSE SetEntry(d, d.got, 0, page)

\* AllocateVirtual while pml4_table_ = root.  got = 0 is the result false.
AllocateVirtual(s, root, r) ==
    LET a == AllocateFrame(s)
    IN IF a.got = 0 THEN a ELSE [MapPage(a, root, r, a.got) EXCEPT !.got = a.got]

\* Mutant: pml4_table_ is not exchanged.
AllocateVirtualUnswapped(s, target_cr3, r) == AllocateVirtual(s, pml4_table, r)

\* It exchanges pml4_table_ and CR3 around AllocateVirtual.
AllocateVirtualForProcess(s, target_cr3, r) == AllocateVirtual(s, target_cr3, r)

FreeFrame(s, f) == [s EXCEPT !.free = @ \cup {f}]

FreeChild(s, t, i) ==
    IF s.table[t][i] = 0 THEN s
    ELSE SetEntry(FreeFrame(s, s.table[t][i]), t, i, 0)

\* Both PDs and the PDP; what is below the PDs is kept.
FreeTables(s, pdp) == FreeFrame(FreeChild(FreeChild(s, pdp, 0), pdp, 1), pdp)

FreeProcessPageTable(s, cr3) ==
    IF cr3 \in {0, pml4_table} THEN s
    ELSE LET a == IF s.table[cr3][0] = 0 THEN s ELSE FreeTables(s, s.table[cr3][0])
         IN FreeFrame(a, cr3)

\* What the CPU makes of an address of region r: 0 is a page fault.
Walk(s, t, i) == IF t \in Frame THEN s.table[t][i] ELSE 0

Translate(s, cr3, r) ==
    LET pd == Walk(s, Walk(s, cr3, 0), r)
        e == Walk(s, pd, 0)
    IN IF e = Huge THEN Home(r) ELSE Walk(s, e, 0)
-----------------------------------------------------------------------------
CR3(c) == IF c = 0 THEN pml4_table ELSE cr3_of[c]

\* CreateAppTask: until its own table exists, the context holds the caller's.
CreateAppTask(c, p) ==
    LET a == CreateProcessPageTable(m)
        b == AllocateVirtualForProcess(a, a.got, 1)
        cr3 == a.got
    IN IF cr3 = 0
       THEN m' = FreeProcessPageTable(a, CR3(c)) /\ UNCHANGED <<cr3_of, loading, caller>>
       ELSE IF b.got = 0
       THEN /\ m' = FreeProcessPageTable(FreeProcessPageTable(b, cr3), cr3)
            /\ UNCHANGED <<cr3_of, loading, caller>>
       ELSE /\ m' = b
            /\ cr3_of' = [cr3_of EXCEPT ![p] = cr3]
            /\ loading' = p
            /\ caller' = c

\* CreateProcess, called by the idle task until one program is loaded, and by
\* Spawn of a process.
CreateProcess(c, p) ==
    /\ loading = 0
    /\ cr3_of[p] = 0
    /\ IF c = 0 THEN fresh = 0 ELSE cr3_of[c] # 0
    /\ created < MaxCreations
    /\ created' = created + 1
    /\ CreateAppTask(c, p)
    /\ UNCHANGED <<image, fresh>>

\* load_segments: map the segment below pml4_table_, then copy the program
\* through the page table of the process, which is in CR3.
LoadSucceeds(p) ==
    LET a == AllocateVirtual(m, pml4_table, 0)
        dest == Translate(a, cr3_of[p], 0)
    IN /\ loading = p /\ p # 0
       /\ a.got # 0 /\ dest # 0
       /\ m' = a
       /\ image' = [image EXCEPT ![a.got] = 0, ![dest] = p]
       /\ fresh' = a.got
       /\ loading' = 0
       /\ UNCHANGED <<cr3_of, caller, created>>

\* There is no memory, or the file is not a valid program: TerminateTask.
LoadFails(p) ==
    /\ loading = p /\ p # 0
    /\ m' = FreeProcessPageTable(m, cr3_of[p])
    /\ cr3_of' = [cr3_of EXCEPT ![p] = 0]
    /\ loading' = 0
    /\ UNCHANGED <<caller, image, fresh, created>>

\* Exit, and TaskExit through TerminateTask.
Exit(p) ==
    /\ loading = 0
    /\ cr3_of[p] # 0
    /\ m' = FreeProcessPageTable(m, cr3_of[p])
    /\ cr3_of' = [cr3_of EXCEPT ![p] = 0]
    /\ UNCHANGED <<loading, caller, image, fresh, created>>

Next ==
    \/ \E c \in {0} \cup Proc, p \in Proc : CreateProcess(c, p)
    \/ \E p \in Proc : LoadSucceeds(p) \/ LoadFails(p) \/ Exit(p)

Spec == Init /\ [][Next]_vars

-----------------------------------------------------------------------------
Live == {p \in Proc : cr3_of[p] # 0}

\* The frames of the tables of an address space that it does not inherit.
OwnTables(cr3) ==
    LET pdp == m.table[cr3][0] IN {cr3, pdp} \cup {Walk(m, pdp, i) : i \in Region}

\* Every live address space has four tables of its own, allocated ones: copying
\* and releasing tables in any order never leaves a live process, or the
\* kernel, with a table that another one owns or that may be handed out again.
TablesApart ==
    LET spaces == {pml4_table} \cup {cr3_of[p] : p \in Live}
    IN /\ Cardinality(spaces) = Cardinality(Live) + 1
       /\ \A x \in spaces : OwnTables(x) \subseteq Frame \ m.free
       /\ \A x, y \in spaces : x # y => OwnTables(x) \cap OwnTables(y) = {}

\* The stack of a live process is an allocated page that no other address space
\* maps there.
StackPrivate ==
    \A p \in Live :
        /\ Translate(m, cr3_of[p], 1) \in Frame \ m.free
        /\ \A q \in Live \ {p} : Translate(m, cr3_of[q], 1) # Translate(m, cr3_of[p], 1)

\* "Page operations in the application's region do not affect PD[1], which the
\* kernel shares": the kernel goes on seeing physical memory at its own address
\* in the stack region.
KernelSeesMemory == Translate(m, pml4_table, 1) = Home(1)

\* "Creates a page table of the process's own": the program of a live process
\* stays where the process sees it.
ProgramIntact ==
    \A p \in Live \ {loading} : image[Translate(m, cr3_of[p], 0)] = p
=============================================================================
