------------------------------ MODULE PageTable ------------------------------
(***************************************************************************)
(* The page tables of the kernel (arch/x86_64/archPageTable.c,             *)
(* archPageTableSpecific.c, xen/xenPageTable.c) under a hypervisor that    *)
(* owns them: an entry of a table in use is changed by a queued hypercall, *)
(* and only if no table in use becomes writable.                           *)
(*                                                                         *)
(* A frame is a pfn; a page of the address space is a number whose         *)
(* offsets select one entry at each of the four levels.  The upper half of *)
(* the top level maps frame f at page KernPage(f), in every address space. *)
(* Machine frames are the pfns themselves: the two translation arrays are  *)
(* inverse to each other and never change here.                            *)
(*                                                                         *)
(* A call is one action: no interrupt handler touches the tables.  What it *)
(* does in order (stores, queued updates, flushes) is computed on a record *)
(* k of the variables.                                                     *)
(***************************************************************************)
EXTENDS Integers, Sequences, FiniteSets, FiniteSetsExt

CONSTANTS
    Entries,        \* entries of a table of level 1, 2, 3, 4
    PageSize,       \* bytes of a page
    NrPages,        \* start_info.nr_pages
    PtBase,         \* the frame of start_info.pt_base
    NrPtFrames,     \* start_info.nr_pt_frames
    QueueSize,      \* mmu_update_size
    MaxPts,         \* MAX_PTS
    Processes,      \* bound: address spaces at a time
    UserPages,      \* bound: pages that user space uses
    ProbeAddresses, \* bound: ends of the ranges that are searched
    MaxCalls        \* bound: calls of the interface

NotL1Frames == 3

ASSUME SizesAssumption ==
    /\ Entries \in [1..4 -> Nat \ {0}] /\ Entries[4] % 2 = 0
    /\ PageSize \in Nat \ {0} /\ QueueSize \in Nat \ {0} /\ MaxPts \in Nat
    /\ NrPages \in Nat /\ NrPages <= Entries[1] * Entries[2] * Entries[3]
    /\ PtBase \in Nat /\ NrPtFrames \in Nat /\ NrPtFrames > NotL1Frames
    /\ NrPtFrames - NotL1Frames <= Entries[2]
    /\ PtBase + NrPtFrames < (NrPtFrames - NotL1Frames) * Entries[1]
    /\ (NrPtFrames - NotL1Frames) * Entries[1] <= NrPages

VARIABLES
    mem,            \* contents of the frames that are tables
    unused,         \* frames the allocator may hand out
    count,          \* PhysicalInfo.count: users of a frame of user space
    noWrite,        \* ptNoWrite: new tables whose write access is to go
    queue,          \* mmu_updates
    roots,          \* address spaces: "offline" until they are pinned
    pinned,         \* root tables the hypervisor has checked
    loaded,         \* pageTableMfn: the root table of the processor, or None
    tlb,            \* at most one cached translation of the processor
    bug,            \* the kernel has stopped: BUG, ASSERT or a page fault
    calls,          \* calls of the interface so far
    asked           \* history: the last call, and the pages it was asked to change

vars == <<mem, unused, count, noWrite, queue, roots, pinned, loaded, tlb, bug, calls, asked>>

Frames == 0..(NrPages - 1)
None == -1
Free == [frame |-> None, perm |-> "free"]
NoTlb == [page |-> None, pte |-> Free]
Pte == [frame: Frames, perm: {"none", "ro", "rw"}]
Width == Max({Entries[l] : l \in 1..4})

-----------------------------------------------------------------------------
(* Addresses and walks                                                     *)

\* pages under one entry of a table of level l
Span(l) == IF l = 1 THEN 1
           ELSE IF l = 2 THEN Entries[1]
           ELSE IF l = 3 THEN Entries[1] * Entries[2]
           ELSE Entries[1] * Entries[2] * Entries[3]

\* l1offset, l2offset, l3offset, l4offset
Offset(l, page) == (page \div Span(l)) % Entries[l]

PtUserEntries == Entries[4] \div 2
UserEnd == PtUserEntries * Span(4)
KernPage(frame) == UserEnd + frame
UserRoot(pt) == pt + 1

ASSUME BoundsAssumption ==
    UserPages \subseteq 0..(UserEnd - 1) /\ ProbeAddresses \subseteq 0..(UserEnd * PageSize)

\* The state after n rounds of a loop that starts in k.
For(k, n, Round(_, _)) ==
    LET F[i \in 0..n] == IF i = 0 THEN k ELSE Round(F[i - 1], i) IN F[n]

\* The table of level l on the path to a page, None below a free entry.
Child(m, table, offset) == IF table = None THEN None ELSE m[table][offset].frame
TableOf(m, pt, page, l) ==
    LET T[j \in 1..4] == IF j = 4 THEN pt ELSE Child(m, T[j + 1], Offset(j + 1, page))
    IN T[l]

\* A location in a table, <<>> for NULL; no entry is found at NULL.
Location(table, offset) == IF table = None THEN <<>> ELSE <<table, offset>>
EntryAt(m, ptr) == IF ptr = <<>> THEN Free ELSE m[ptr[1]][ptr[2]]
InUseOnly(m, ptr) == IF EntryAt(m, ptr) = Free THEN <<>> ELSE ptr

PteGetPtr(m, pt, page) == Location(TableOf(m, pt, page, 1), Offset(1, page))

\* archPteGet reads through the NULL that archPteGetPtr may return: no caller
\* gets that far, each needs the entry.
PteGet(m, pt, page) == InUseOnly(m, PteGetPtr(m, pt, page))

PteFlags(permission) ==
    IF permission = {} THEN "none" ELSE IF "w" \in permission THEN "rw" ELSE "ro"

PteCreate(frame, perm) == [frame |-> frame, perm |-> perm]

-----------------------------------------------------------------------------
(* The hypervisor: the tables in use, and the updates it accepts           *)

Below(m, S, l) == (UNION {{m[t][i].frame : i \in 0..(Entries[l] - 1)} : t \in S}) \ {None}

\* Tables of the levels 1 to 4: of one level each, and none writable.
Valid(m, T1, T2, T3, T4) ==
    /\ T1 \cap (T2 \cup T3 \cup T4) = {} /\ T2 \cap (T3 \cup T4) = {} /\ T3 \cap T4 = {}
    /\ \A t \in T1, i \in 0..(Entries[1] - 1) :
          m[t][i].perm = "rw" => m[t][i].frame \notin T1 \cup T2 \cup T3 \cup T4

Accepts(m, tops) ==
    LET T3 == Below(m, tops, 4)
        T2 == Below(m, T3, 3)
    IN Valid(m, Below(m, T2, 2), T2, T3, tops)

Tops(k) == k.pinned \cup (IF k.loaded = None THEN {} ELSE {k.loaded, UserRoot(k.loaded)})

\* Nothing is allocated, stored or queued by a kernel that has stopped.
Stop(k) == [k EXCEPT !.bug = TRUE]

\* One element of HYPERVISOR_mmu_update.
Checked(k, m) == IF Accepts(m, Tops(k)) THEN [k EXCEPT !.mem = m] ELSE Stop(k)
Apply(k, update) == Checked(k, [k.mem EXCEPT ![update.ptr[1]][update.ptr[2]] = update.val])

\* Variant: the base of the page tables is not loaded again after an update.
PageTableLoad_Never(k) == k
PageTableLoad(k) == IF k.loaded = None THEN k ELSE [k EXCEPT !.tlb = NoTlb]

DoUpdate(k) ==
    IF k.bug \/ k.queue = <<>> THEN k
    ELSE LET Round(s, i) == Apply(s, k.queue[i])
         IN PageTableLoad([For(k, Len(k.queue), Round) EXCEPT !.queue = <<>>])

Room(k) == IF Len(k.queue) >= QueueSize THEN DoUpdate(k) ELSE k
DeferredUpdate(k, ptr, val) ==
    IF k.bug \/ ptr = <<>> THEN Stop(k)
    ELSE [Room(k) EXCEPT !.queue = Append(@, [ptr |-> ptr, val |-> val])]

\* _ptpI7: drops the cached translation of one page.
Invalidate(k, page) == IF k.tlb.page = page THEN [k EXCEPT !.tlb = NoTlb] ELSE k

Pin(k, pt) ==
    IF Accepts(k.mem, Tops(k) \cup {pt}) THEN [k EXCEPT !.pinned = @ \cup {pt}] ELSE Stop(k)

Unpin(k, pt) == [k EXCEPT !.pinned = @ \ {pt}]

-----------------------------------------------------------------------------
(* Frames                                                                  *)

\* The mapping of a frame in the kernel's part of every address space.
KernelPte(m, frame) == EntryAt(m, PteGetPtr(m, PtBase, KernPage(frame)))

\* A store by the kernel itself: a page fault at NULL, and if the frame is not
\* writable.
Store(k, ptr, val) ==
    IF k.bug \/ ptr = <<>> THEN Stop(k)
    ELSE IF KernelPte(k.mem, ptr[1]).perm # "rw" THEN Stop(k)
    ELSE [k EXCEPT !.mem[ptr[1]][ptr[2]] = val]

\* pageTablePtpAlloc and archPtpAlloc hand out the first frame, and clear it.
NextFrame(k) == Min(k.unused)
Cleared == [i \in 0..(Width - 1) |-> Free]
\* Variant: the allocator may hand the frame out again.
TakeTable_StillUnused(k, f) ==
    IF KernelPte(k.mem, f).perm # "rw" THEN Stop(k) ELSE [k EXCEPT !.mem[f] = Cleared]

TakeTable(k, f) ==
    IF KernelPte(k.mem, f).perm # "rw" THEN Stop(k)
    ELSE [k EXCEPT !.unused = @ \ {f}, !.mem[f] = Cleared]

PtpAlloc(k) == IF k.bug \/ k.unused = {} THEN Stop(k) ELSE TakeTable(k, NextFrame(k))

PtpRelease(k, frame) == [k EXCEPT !.unused = @ \cup {frame}]

\* pageTablePfnUserFree
PfnUserFree(k, frame) ==
    IF k.bug \/ k.count[frame] = 0 THEN Stop(k)
    ELSE [k EXCEPT !.count[frame] = @ - 1,
                   !.unused = IF k.count[frame] = 1 THEN @ \cup {frame} ELSE @]

-----------------------------------------------------------------------------
(* Tables in use                                                           *)

\* Whatever the kernel's page of a table was, it is to become read-only.
WriteProtect(k, pt, f) == DeferredUpdate(k, PteGet(k.mem, pt, KernPage(f)), PteCreate(f, "ro"))

\* A new table for the entry val, without write access once it is flushed.
\* Variant: the new table keeps its write access.
InsertPtp_Writable(k, pt, offset, val) == Store(PtpAlloc(k), <<NextFrame(k), offset>>, val)

InsertPtp(k, pt, offset, val) ==
    WriteProtect(Store(PtpAlloc(k), <<NextFrame(k), offset>>, val), pt, NextFrame(k))

\* The level of the first free entry on the path, 0 if the page is in use.
FreeLevel(m, pt, page) ==
    Max({0} \cup {l \in 1..4 : EntryAt(m, Location(TableOf(m, pt, page, l), Offset(l, page))) = Free
                               /\ TableOf(m, pt, page, l) # None})

\* Entry k.val is linked at a level; the top level is cloned for user space.
\* Variant: without _cloneUser.
Link_NotCloned(b, pt, page, level) ==
    DeferredUpdate(b.kk, Location(TableOf(b.kk.mem, pt, page, level), Offset(level, page)), b.val)

Link(b, pt, page, level) ==
    LET k == DeferredUpdate(b.kk, Location(TableOf(b.kk.mem, pt, page, level), Offset(level, page)), b.val)
    IN IF level < 4 THEN k ELSE DeferredUpdate(k, <<UserRoot(pt), Offset(4, page)>>, b.val)

\* Tables are missing below the first free entry of the path: they are built
\* from the leaf upwards, then linked.
NewTable(b, pt, offset) ==
    [kk |-> InsertPtp(b.kk, pt, offset, b.val), val |-> PteCreate(NextFrame(b.kk), "rw")]
InsertBelow(k, pt, page, pte, level) ==
    LET Build[l \in 0..3] ==
            IF l = 0 THEN [kk |-> k, val |-> pte] ELSE NewTable(Build[l - 1], pt, Offset(l, page))
    IN IF level = 0 THEN Stop(k) ELSE Link(Build[level - 1], pt, page, level)

InsertInternal(k, pt, page, pte) == InsertBelow(k, pt, page, pte, FreeLevel(k.mem, pt, page))

PageTableInsert(k, pt, page, frame, permission) ==
    LET perm == IF page < UserEnd THEN PteFlags(permission) ELSE "rw"
    IN DoUpdate(InsertInternal(k, pt, page, PteCreate(frame, perm)))

\* Queues every leaf twice: the entry it reads back is not flushed yet.
UpdateFree(k, ptr, pte) ==
    IF EntryAt(k.mem, ptr) = Free THEN DeferredUpdate(k, ptr, pte) ELSE Stop(k)

PageTablePageUpdate(k, pt, updates, permission) ==
    LET One(s, u) == UpdateFree(InsertInternal(s, pt, u.page, PteCreate(u.frame, PteFlags(permission))),
                                PteGetPtr(s.mem, pt, u.page), PteCreate(u.frame, PteFlags(permission)))
        Round(s, i) == One(s, updates[i])
    IN DoUpdate(For(k, Len(updates), Round))

\* The address that is invalidated is the kernel's address of the frame.
UserUpdate(k, ptr, frame, permission) ==
    Invalidate(DoUpdate(DeferredUpdate(k, ptr, PteCreate(frame, PteFlags(permission)))), KernPage(frame))
PteUserUpdate(k, ptr, permission) == UserUpdate(k, ptr, EntryAt(k.mem, ptr).frame, permission)

PageTableRemove(k, pt, page) ==
    Invalidate(DoUpdate(DeferredUpdate(k, PteGet(k.mem, pt, page), Free)), page)

PageTableReplace(k, pt, page, frame, permission) ==
    LET pte == PteCreate(frame, PteFlags(permission))
    IN Invalidate(DoUpdate(DeferredUpdate(k, PteGet(k.mem, pt, page), pte)), page)

\* The pages in use from addr up to hi, in the order of the nested loops: a
\* free entry is skipped with all that is below it, and offsets of the lower
\* levels apply to the first entry only.
\* Variant: the offsets of the lower levels are not reset after a free entry.
NextPage_KeepsOffsets(p, free) == IF free = 0 THEN p + 1 ELSE p + Span(free)

NextPage(p, free) == IF free = 0 THEN p + 1 ELSE (p \div Span(free) + 1) * Span(free)

\* One step of the loops, a.page being the page they have come to.
Found(a, m, pt) ==
    [page |-> NextPage(a.page, FreeLevel(m, pt, a.page)),
     found |-> IF PteGet(m, pt, a.page) = <<>> THEN a.found ELSE Append(a.found, a.page)]

\* The loops take no more steps than this.
Steps(addr, hi) == Max({0, hi \div PageSize + 1 - addr \div PageSize})

UsedPages(m, pt, addr, hi) ==
    LET Round(a, i) == IF a.page * PageSize >= hi THEN a ELSE Found(a, m, pt)
    IN For([page |-> addr \div PageSize, found |-> <<>>], Steps(addr, hi), Round).found

FirstOr(pages, hi) == IF pages = <<>> THEN hi ELSE Head(pages) * PageSize
PageTableNext(m, pt, addr, hi) ==
    IF hi - addr < PageSize THEN hi ELSE FirstOr(UsedPages(m, pt, addr + PageSize, hi), hi)

SetPerm(k, ptr, perm) ==
    IF ptr = <<>> THEN k ELSE DeferredUpdate(k, ptr, PteCreate(EntryAt(k.mem, ptr).frame, perm))

\* Variant: the page that begins at the end of the range is changed, too.
RangeSet_PastEnd(k, pt, addr, hi, perm) ==
    LET pages == UsedPages(k.mem, pt, addr, hi + 1)
        Round(s, i) == Invalidate(SetPerm(s, PteGet(s.mem, pt, pages[i]), perm), addr \div PageSize)
    IN IF hi - addr < PageSize THEN k ELSE For(k, Len(pages), Round)

RangeSet(k, pt, addr, hi, perm) ==
    LET pages == UsedPages(k.mem, pt, addr, hi)
        Round(s, i) == Invalidate(SetPerm(s, PteGet(s.mem, pt, pages[i]), perm), addr \div PageSize)
    IN IF hi - addr < PageSize THEN k ELSE For(k, Len(pages), Round)

PageTableProtectRange(k, pt, addr, hi, permission) ==
    DoUpdate(RangeSet(k, pt, addr, hi, PteFlags(permission)))

PropagateKernelEntry(k, pt, page) ==
    DoUpdate(DeferredUpdate(k, <<pt, Offset(4, page)>>, k.mem[PtBase][Offset(4, page)]))

-----------------------------------------------------------------------------
(* Tables that are not in use yet                                          *)

\* NULL, which no caller accepts, when ptNoWrite has no room.
OfflinePtpAlloc(k) ==
    IF k.bug \/ k.unused = {} \/ Len(k.noWrite) + 1 >= MaxPts THEN Stop(k)
    ELSE [PtpAlloc(k) EXCEPT !.noWrite = Append(@, NextFrame(k))]

\* The table below one entry, allocated if the entry is free.
OfflineLevel(k, ptr) ==
    IF k.bug \/ EntryAt(k.mem, ptr) # Free THEN k
    ELSE Store(OfflinePtpAlloc(k), ptr, PteCreate(NextFrame(k), "rw"))

\* The tables of levels 3, 2, 1 on the path to a page.
OfflineStep(k, pt, page, l) ==
    OfflineLevel(k, Location(TableOf(k.mem, pt, page, l), Offset(l, page)))
OfflineLower(k, pt, page) == OfflineStep(OfflineStep(k, pt, page, 3), pt, page, 2)

OfflineDuplicateL4(k, pt, offset) == Store(k, <<UserRoot(pt), offset>>, k.mem[pt][offset])

OfflinePath(k, pt, page) ==
    OfflineLower(OfflineDuplicateL4(OfflineStep(k, pt, page, 4), pt, Offset(4, page)), pt, page)

StoreLeaf(k, pt, page, pte) == Store(k, PteGetPtr(k.mem, pt, page), pte)
OfflineUserInsert(k, pt, page, frame, permission) ==
    StoreLeaf(OfflinePath(k, pt, page), pt, page, PteCreate(frame, PteFlags(permission)))

\* Level 1 tables for [from, to]: below the first and the last entry of a
\* level the nested loops cut the range off, below the others it is whole, so
\* that they come to every table between that of from and that of to.
OfflineAllocTree(k, pt, from, to) ==
    LET Round(s, i) ==
            LET page == (from \div Span(2) + i - 1) * Span(2)
            IN OfflineLower(OfflineStep(s, pt, page, 4), pt, page)
    IN For(k, to \div Span(2) - from \div Span(2) + 1, Round)

KernelHalf(table) ==
    [i \in 0..(Width - 1) |-> IF i \in PtUserEntries..(Entries[4] - 1) THEN table[i] ELSE Free]
OfflineClone(k, new, old) ==
    IF {KernelPte(k.mem, new).perm, KernelPte(k.mem, UserRoot(new)).perm} # {"rw"} THEN Stop(k)
    ELSE [k EXCEPT !.mem[new] = KernelHalf(k.mem[old]), !.mem[UserRoot(new)] = Cleared]

\* Write access goes, then both roots are pinned. The array has room for the
\* roots only if it is not full: it is written to without a test.
OfflineCompleteExisting(k, pt) ==
    LET tables == k.noWrite \o <<pt, UserRoot(pt)>>
        Round(s, i) == WriteProtect(s, PtBase, tables[i])
        flushed == DoUpdate(For(k, Len(tables), Round))
    IN IF Len(k.noWrite) + 2 > MaxPts THEN Stop(k)
       ELSE [Pin(Pin(flushed, pt), UserRoot(pt)) EXCEPT !.noWrite = <<>>]

PageTableSwitch(k, pt) == PageTableLoad([k EXCEPT !.loaded = pt])

\* Variant: without archPageTableOfflineCompleteExisting.
OfflineCompleteNew_NotPinned(k, pt) == PageTableSwitch(k, pt)

OfflineCompleteNew(k, pt) == PageTableSwitch(OfflineCompleteExisting(k, pt), pt)

\* Variant: the copy is not counted.
Share_NotCounted(k, f) == IF k.count[f] = 0 THEN Stop(k) ELSE k

Share(k, f) == IF k.bug \/ k.count[f] = 0 THEN Stop(k) ELSE [k EXCEPT !.count[f] = @ + 1]
UserspaceCopy(k, pt, addr, hi, toPt, offset, permission) ==
    LET Frame(p) == EntryAt(k.mem, PteGetPtr(k.mem, pt, p)).frame
        pages == UsedPages(k.mem, pt, addr, hi)
        Round(s, i) == OfflineUserInsert(Share(s, Frame(pages[i])), toPt, pages[i] + offset \div PageSize,
                                         Frame(pages[i]), permission)
    IN IF hi - addr < PageSize THEN k ELSE For(k, Len(pages), Round)

-----------------------------------------------------------------------------
(* The end of an address space                                             *)

\* The child is given back first; the updates are flushed at the end.
Unlink(k, pt, ptr, f) ==
    DeferredUpdate(DeferredUpdate(PtpRelease(k, f), ptr, Free),
                   PteGet(k.mem, pt, KernPage(f)), PteCreate(f, "rw"))
PtpFree(k, pt, ptr) ==
    IF k.bug \/ EntryAt(k.mem, ptr) = Free THEN Stop(k)
    ELSE Unlink(k, pt, ptr, EntryAt(k.mem, ptr).frame)

\* User frames and tables, from the leaves upwards in the order of the loops;
\* m is what the tables held before the first update.
Used(m, t, i) == m[t][i - 1] # Free
Entry(m, t, i) == m[t][i - 1].frame
FreeLeaves(s, m, t1) ==
    LET Round(u, i) == IF Used(m, t1, i) THEN PfnUserFree(u, Entry(m, t1, i)) ELSE u
    IN For(s, Entries[1], Round)
FreeTables2(s, m, pt, t2) ==
    LET Round(u, i) == IF Used(m, t2, i)
                       THEN PtpFree(FreeLeaves(u, m, Entry(m, t2, i)), pt, <<t2, i - 1>>) ELSE u
    IN For(s, Entries[2], Round)
FreeTables3(s, m, pt, t3) ==
    LET Round(u, i) == IF Used(m, t3, i)
                       THEN PtpFree(FreeTables2(u, m, pt, Entry(m, t3, i)), pt, <<t3, i - 1>>) ELSE u
    IN For(s, Entries[3], Round)
OfflineFree(k, pt) ==
    LET m == k.mem
        Round(u, i) == IF Used(m, pt, i)
                       THEN PtpFree(FreeTables3(u, m, pt, Entry(m, pt, i)), pt, <<pt, i - 1>>) ELSE u
    IN For(k, PtUserEntries, Round)

PageTableFree(k, pt) ==
    LET Writable(s, f) == DeferredUpdate(s, PteGet(k.mem, pt, KernPage(f)), PteCreate(f, "rw"))
    IN DoUpdate(Writable(Writable(OfflineFree(k, pt), pt), UserRoot(pt)))

-----------------------------------------------------------------------------
(* Reading the tables                                                      *)

Present(pte) == pte.perm \in {"ro", "rw"}
NotFree(pte) == pte # Free

\* The entries of tables S that pass a test, and the tables they lead to.
Passing(m, S, n, Test(_)) == {e \in S \X (0..(n - 1)) : Test(m[e[1]][e[2]])}
Targets(m, E) == {m[e[1]][e[2]].frame : e \in E}

\* Entries of user space at levels 4, 3, 2, 1, each level below the last one.
UserEntries(m, pt, Test(_)) ==
    LET E4 == Passing(m, {pt}, PtUserEntries, Test)
        E3 == Passing(m, Targets(m, E4), Entries[3], Test)
        E2 == Passing(m, Targets(m, E3), Entries[2], Test)
    IN E4 \cup E3 \cup E2 \cup Passing(m, Targets(m, E2), Entries[1], Test)

PageTableStatistics(m, pt) == 1 + Cardinality(UserEntries(m, pt, Present))
PageTablePrintUserspace(m, pt) == {m[e[1]][e[2]] : e \in UserEntries(m, pt, NotFree)}

\* The entries on the path to a page, down to the first that is not present.
PageTableWalk(m, pt, page) ==
    LET W[l \in 0..4] ==
            IF l = 0 THEN <<>>
            ELSE LET pte == EntryAt(m, Location(TableOf(m, pt, page, l), Offset(l, page)))
                 IN IF Present(pte) THEN <<pte>> \o W[l - 1] ELSE <<pte>>
    IN W[4]

-----------------------------------------------------------------------------
(* The maps that the tables stand for, and the pages a call is asked for    *)

Leaf(pt, page) == EntryAt(mem, PteGetPtr(mem, pt, page))
Mapped(pt) == {page \in UserPages : Leaf(pt, page) # Free}

Abstract == INSTANCE AddressSpaces
    WITH Pages <- UserPages, space <- [pt \in roots |-> [p \in Mapped(pt) |-> Leaf(pt, p)]]

\* The pages a range has a part of; one shorter than a page counts as empty.
PagesIn(addr, hi) ==
    IF hi - addr < PageSize THEN {}
    ELSE {p \in UserPages : addr \div PageSize <= p /\ p * PageSize < hi}

-----------------------------------------------------------------------------
(* Start                                                                   *)

InitPfnToMap == (NrPtFrames - NotL1Frames) * Entries[1]

\* Frames that pt_base and its tables do not need, all above them.
StartPfn == PtBase + NrPtFrames

\* The tables the domain builder made: levels 4, 3, 2 and then level 1.
InitialTable(f) ==
    LET kernel == PtUserEntries
        tables == [i \in 0..(Width - 1) |->
                      IF i < NrPtFrames - NotL1Frames THEN PteCreate(PtBase + NotL1Frames + i, "rw") ELSE Free]
        only(i, g) == [j \in 0..(Width - 1) |-> IF j = i THEN PteCreate(g, "rw") ELSE Free]
    IN IF f = PtBase THEN only(kernel, PtBase + 1)
       ELSE IF f = PtBase + 1 THEN only(0, PtBase + 2)
       ELSE IF f = PtBase + 2 THEN tables
       ELSE [j \in 0..(Width - 1) |->
                IF j >= Entries[1] THEN Free
                ELSE LET g == (f - PtBase - NotL1Frames) * Entries[1] + j
                     IN PteCreate(g, IF g \in PtBase..(StartPfn - 1) THEN "ro" ELSE "rw")]

Init ==
    /\ mem = [f \in Frames |-> IF f \in PtBase..(StartPfn - 1) THEN InitialTable(f) ELSE Cleared]
    /\ unused = StartPfn..(NrPages - 1)
    /\ count = [f \in Frames |-> 0]
    /\ noWrite = <<>> /\ queue = <<>>
    /\ roots = {} /\ pinned = {PtBase} /\ loaded = None
    /\ tlb = NoTlb /\ bug = FALSE /\ calls = 0 /\ asked = Abstract!Nothing

K == [mem |-> mem, unused |-> unused, count |-> count, noWrite |-> noWrite, queue |-> queue,
      roots |-> roots, pinned |-> pinned, loaded |-> loaded, tlb |-> tlb, bug |-> bug]

\* A frame that is not in use has no contents that matter.
Become(k) ==
    /\ mem' = [f \in Frames |-> IF f \in k.unused THEN Cleared ELSE k.mem[f]]
    /\ unused' = k.unused /\ count' = k.count /\ noWrite' = k.noWrite /\ queue' = k.queue
    /\ roots' = k.roots /\ pinned' = k.pinned /\ loaded' = k.loaded
    /\ tlb' = k.tlb /\ bug' = k.bug

\* The first loop of archPageTablePopulate reads pages that are mapped by then
\* (SizesAssumption); a step is one round of the second.
FirstUnmapped == Min({f \in Frames : KernelPte(mem, f) = Free})
Populated == KernelPte(mem, NrPages - 1) # Free
ReadBack(k, pfn) == IF KernelPte(k.mem, pfn) = Free THEN Stop(k) ELSE k

Populate ==
    /\ ~bug /\ ~Populated
    /\ Become(ReadBack(PageTableInsert(K, PtBase, KernPage(FirstUnmapped), FirstUnmapped, {}),
                       FirstUnmapped))
    /\ UNCHANGED <<calls, asked>>

-----------------------------------------------------------------------------
(* What the callers of the interface do with it                            *)

Running == ~bug /\ calls < MaxCalls /\ Populated
Offline == roots \ pinned
Online == roots \cap pinned

\* More frames than any one call needs.
Enough == Cardinality(unused) >= 2 + 3 * Cardinality(UserPages)

\* physicalAlloc, for user space: from the other end than tables
UserFrame(k) == Max(k.unused)
TakeFrame(k) ==
    IF k.bug \/ k.unused = {} THEN Stop(k)
    ELSE [k EXCEPT !.unused = @ \ {UserFrame(k)}, !.count[UserFrame(k)] = 1]

Call(k, what) == Become(k) /\ calls' = calls + 1 /\ asked' = what

\* pageTableAlloc: two contiguous frames, cloned from the first page table.
Alloc ==
    /\ Running /\ Enough /\ Offline = {} /\ Cardinality(roots) < Processes
    /\ LET pairs == {f \in unused : UserRoot(f) \in unused}
           new == Min(pairs)
           k == [K EXCEPT !.unused = @ \ {new, UserRoot(new)}, !.roots = @ \cup {new}]
       IN pairs # {} /\ Call(OfflineClone(k, new, PtBase), Abstract!Asked("new", new, {}))

\* pageTableUserspaceAlloc: tables for the whole range, then its pages.
PageTableUserspaceAlloc(k, pt, from, to) ==
    LET One(s, page) == OfflineUserInsert(TakeFrame(s), pt, page, UserFrame(s), {"r", "w"})
        Round(s, i) == One(s, from + i - 1)
    IN For(OfflineAllocTree(k, pt, from, to), to - from + 1, Round)
UserspaceAlloc ==
    \E pt \in Offline, from \in UserPages, to \in UserPages :
        /\ Running /\ Enough /\ from <= to /\ from..to \subseteq UserPages \ Mapped(pt)
        /\ Call(PageTableUserspaceAlloc(K, pt, from, to), Abstract!Asked("map", pt, from..to))

\* pageTableUserspaceCopy, copy on write: both sides lose write access.
CopyOnWrite ==
    \E pt \in Online, toPt \in Offline, addr, hi \in ProbeAddresses, shift \in {0, 1} :
        LET used == UsedPages(mem, pt, addr, hi)
            k == UserspaceCopy(K, pt, addr, hi, toPt, shift * PageSize, {"r"})
        IN /\ Running /\ Enough /\ used # <<>>
           /\ \A i \in 1..Len(used) : used[i] + shift \in UserPages \ Mapped(toPt)
           /\ Call(PageTableProtectRange(k, pt, addr, hi, {"r"}),
                   Abstract!AskedTo("copy", pt, PagesIn(addr, hi), toPt, shift))

CompleteExisting == \E pt \in Offline : Running /\ Call(OfflineCompleteExisting(K, pt), Abstract!Nothing)

CompleteNew == \E pt \in Offline : Running /\ Call(OfflineCompleteNew(K, pt), Abstract!Nothing)

Switch == \E pt \in Online \ {loaded} : Running /\ Call(PageTableSwitch(K, pt), Abstract!Nothing)

UserAlloc ==
    \E page \in UserPages :
        /\ Running /\ Enough /\ loaded \in roots /\ page \notin Mapped(loaded)
        /\ Call(PageTableInsert(TakeFrame(K), loaded, page, UserFrame(K), {"r", "w"}),
                Abstract!Asked("map", loaded, {page}))

\* A frame for each page, from the last page to the first.
Take(a, page) == [kk |-> TakeFrame(a.kk),
                  updates |-> Append(a.updates, [page |-> page, frame |-> UserFrame(a.kk)])]
TakeFrames(k, pages) ==
    LET Round(a, i) == IF Max(pages) + 1 - i \in pages /\ a.kk.unused # {}
                       THEN Take(a, Max(pages) + 1 - i) ELSE a
    IN For([kk |-> k, updates |-> <<>>], Max(pages) - Min(pages) + 1, Round)

\* Pages whose tables exist.
PageUpdate ==
    \E pages \in (SUBSET UserPages) \ {{}} :
        LET all == TakeFrames(K, pages)
        IN /\ Running /\ Enough /\ loaded \in roots
           /\ \A p \in pages : Leaf(loaded, p) = Free /\ PteGetPtr(mem, loaded, p) # <<>>
           /\ Call(PageTablePageUpdate(all.kk, loaded, all.updates, {"r", "w"}),
                   Abstract!Asked("map", loaded, pages))

Protect ==
    \E pt \in Online, addr, hi \in ProbeAddresses, permission \in {{}, {"r"}} :
        /\ Running /\ addr < hi
        /\ Call(PageTableProtectRange(K, pt, addr, hi, permission),
                Abstract!AskedAs("protect", pt, PagesIn(addr, hi), PteFlags(permission)))

\* A write to a page without write access: the frame is copied if it is shared.
WriteFault ==
    \E page \in UserPages :
        LET old == Leaf(loaded, page).frame
            ptr == PteGetPtr(mem, loaded, page)
            copied == PageTableReplace(TakeFrame(K), loaded, page, UserFrame(K), {"r", "w"})
        IN /\ Running /\ Enough /\ loaded \in roots /\ Leaf(loaded, page).perm = "ro"
           /\ Call(IF count[old] > 1 THEN PfnUserFree(copied, old)
                   ELSE PteUserUpdate(K, ptr, {"r", "w"}), Abstract!Asked("write", loaded, {page}))

RemovePage ==
    \E page \in UserPages :
        /\ Running /\ loaded \in roots /\ page \in Mapped(loaded)
        /\ Call(PfnUserFree(PageTableRemove(K, loaded, page), Leaf(loaded, page).frame),
                Abstract!Asked("unmap", loaded, {page}))

Propagate ==
    /\ Running /\ loaded \in roots
    /\ Call(PropagateKernelEntry(K, loaded, KernPage(0)), Abstract!Nothing)

\* pageTableFree
FreeSpace ==
    \E pt \in Online \ {loaded} :
        LET k == PageTableFree(Unpin(Unpin(K, pt), UserRoot(pt)), pt)
        IN /\ Running
           /\ Call([k EXCEPT !.roots = @ \ {pt}, !.unused = @ \cup {pt, UserRoot(pt)}],
                   Abstract!Asked("drop", pt, {}))

\* User space runs: the processor caches a translation that permits the access.
Touch ==
    \E page \in UserPages :
        /\ Running /\ loaded \in roots /\ Leaf(loaded, page).perm \in {"ro", "rw"}
        /\ tlb' = [page |-> page, pte |-> Leaf(loaded, page)]
        /\ calls' = calls + 1 /\ asked' = Abstract!Nothing
        /\ UNCHANGED <<mem, unused, count, noWrite, queue, roots, pinned, loaded, bug>>

Next ==
    \/ Populate
    \/ Alloc \/ UserspaceAlloc \/ CopyOnWrite \/ CompleteExisting \/ CompleteNew \/ Switch
    \/ UserAlloc \/ PageUpdate \/ Protect \/ WriteFault \/ RemovePage \/ Propagate \/ FreeSpace
    \/ Touch

Spec == Init /\ [][Next]_vars

-----------------------------------------------------------------------------
(* Properties                                                              *)

\* The variables keep their shapes (a part of FramesCounted), and no call ends
\* with updates still in the queue (_doUpdate).
TypeOK ==
    /\ mem \in [Frames -> [0..(Width - 1) -> Pte \cup {Free}]]
    /\ unused \subseteq Frames /\ count \in [Frames -> Nat]
    /\ roots \subseteq Frames /\ pinned \subseteq Frames
    /\ noWrite \in Seq(Frames) /\ Len(noWrite) <= MaxPts
    /\ bug \in BOOLEAN /\ (bug \/ queue = <<>>)
    /\ tlb.page \in UserPages => tlb.pte \in Pte

\* The hypervisor accepts every queued update and every pin, and the kernel
\* never stores to a page it has no write access to: the order in which tables
\* lose write access, are linked, unlinked and get it back is right
\* (_insertPtp, archPageTableOfflineCompleteExisting, _ptpFree, _doUpdate).
NeverRefused == ~bug

\* A translation the processor has cached is the one the page tables give:
\* whatever removes or changes an entry drops it (_ptpI7, archPageTableLoad).
TlbAgrees == ~bug /\ tlb.page # None => Leaf(loaded, tlb.page) = tlb.pte

\* While the kernel runs every table in use is of one level, and the kernel has
\* no write access to it: neither the stores to new tables and to tables of a
\* space that is not pinned yet, nor the frames that are given back and taken
\* again, ever reach one (_insertPtp, _ptpFree, archPageTableOfflineClone,
\* archPageTableOfflineCompleteNew).
TablesProtected == ~bug => Accepts(mem, Tops(K))

\* A frame has one use at a time: a table of the kernel, a table of one address
\* space, a page of user space, or none (_insertPtp, _offlinePtpAlloc, _ptpFree,
\* _offlineFree).
Beneath(top) == LET T3 == Below(mem, {top}, 4)
                    T2 == Below(mem, T3, 3)
                IN T3 \cup T2 \cup Below(mem, T2, 2)
KernelTables == {PtBase} \cup Beneath(PtBase)
Tables(pt) == ({pt, UserRoot(pt)} \cup Beneath(pt) \cup Beneath(UserRoot(pt))) \ KernelTables
FramesApart ==
    ~bug => /\ \A pt, qt \in roots : pt # qt => Tables(pt) \cap Tables(qt) = {}
            /\ \A t \in KernelTables \cup UNION {Tables(pt) : pt \in roots} :
                  t \notin unused /\ count[t] = 0

\* Each frame of user space is counted once for every page that maps it, a
\* shared one may not be written, and what the allocator may hand out is
\* mapped nowhere and writable by the kernel.
Users(f) == {u \in roots \X UserPages : Leaf(u[1], u[2]).frame = f}
FramesCounted ==
    /\ TypeOK
    /\ \A f \in Frames :
          /\ count[f] = Cardinality(Users(f))
          /\ count[f] > 1 => \A u \in Users(f) : Leaf(u[1], u[2]).perm # "rw"
    /\ \A f \in unused : Populated => count[f] = 0 /\ KernelPte(mem, f).perm = "rw"

\* Xen on x86_64 has two root tables for an address space: the second has the
\* user half of the first, and no entry of the kernel's half, whichever pages
\* were mapped before (_offlineDuplicateL4, _cloneUser, archPageTableOfflineClone).
UserRootMirrors ==
    ~bug => \A pt \in roots, i \in 0..(Entries[4] - 1) :
                mem[UserRoot(pt)][i] = IF i < PtUserEntries THEN mem[pt][i] ELSE Free

\* The functions that read the tables level by level agree with the mapping:
\* archPageTableNext finds the next page in use, archPageTableStatistics counts
\* tables and pages that are present, archPageTablePrintUserspace shows those
\* without access too, and archPageTableWalk ends at the page's own entry.
ReadersAgree ==
    \A pt \in roots :
        /\ \A addr, hi \in ProbeAddresses :
              LET later == {q \in {p * PageSize : p \in Mapped(pt)} : addr < q /\ q < hi}
              IN PageTableNext(mem, pt, addr, hi) = Min(later \cup {hi})
        /\ LET tables == Cardinality(Beneath(UserRoot(pt)))
               present == {p \in Mapped(pt) : Present(Leaf(pt, p))}
           IN /\ PageTableStatistics(mem, pt) = 1 + tables + Cardinality(present)
              /\ {Leaf(pt, p) : p \in Mapped(pt)} \subseteq PageTablePrintUserspace(mem, pt)
              /\ \A p \in present : LET walk == PageTableWalk(mem, pt, p) IN walk[Len(walk)] = Leaf(pt, p)

\* Each call changes, in the address space it is called for, the pages it is
\* called for, and no other page of any address space.
ImplementsSpaces == Abstract!Spec
=============================================================================
