------------------------------- MODULE Paging -------------------------------
(***************************************************************************)
(* Virtual memory, src/pages.c, with the part of src/frame.c that sets up  *)
(* the frame table: the page directory and page tables built during boot,  *)
(* then sbrk and map_io on top of map_pages, unmap_pages and alloc_pages.  *)
(*                                                                         *)
(* The geometry is that of the code with 1024 replaced by ENTRIES: a       *)
(* directory of ENTRIES entries, ENTRIES pages in a "4 MB" page, the       *)
(* kernel in physical 4 MB page 0, the page tables in 4 MB page 1, the     *)
(* frame table from 4 MB page 2 on.  Virtual and physical pages are        *)
(* numbers; addresses are in bytes only where the code rounds them.  The   *)
(* loops of a call run without interference (no handler touches paging),   *)
(* so a call is one step; alloc_frames is the first fit of FrameSpec,      *)
(* which module Frames shows frame.c to implement.                         *)
(***************************************************************************)
EXTENDS Integers, FiniteSetsExt

CONSTANTS
  ENTRIES,         \* entries of a directory or table, pages of a 4 MB page
  FRAME_SIZE,      \* bytes of a page
  SIZEOF_FRAME,    \* sizeof(struct frame)
  HEAP_PDE,        \* directory index of the heap (32: 0xc08000000 cut to 32 bits)
  KERNEL_PDE,      \* KERNEL_PAGE_DIRECTORY_INDEX
  RAM_BASE,        \* RAM_BASE_ADDR, in pages
  RamLengths,      \* lengths the boot loader may report, in pages
  Increments,      \* bound: sizes passed to sbrk, in bytes
  IoRanges         \* bound: [addr, len], the ranges passed to map_io, in bytes

PAGE_TABLES_PDE == KERNEL_PDE + 1
FRAMES_PDE == KERNEL_PDE + 2
KERNEL_SIZE_IN_RAM == 2 * ENTRIES - RAM_BASE

ASSUME PagingAssumption ==
  /\ ENTRIES \in Nat \ {0} /\ FRAME_SIZE \in Nat \ {0} /\ SIZEOF_FRAME \in Nat \ {0}
  /\ KERNEL_PDE \in Nat /\ HEAP_PDE \in 1..(KERNEL_PDE - 1)
  /\ FRAMES_PDE < ENTRIES
  /\ RAM_BASE \in 0..(ENTRIES - 1)
  /\ \A len \in RamLengths :
       LET meta == (len - KERNEL_SIZE_IN_RAM) * SIZEOF_FRAME
       IN /\ len \in Nat /\ len > KERNEL_SIZE_IN_RAM   \* more RAM than the kernel
          \* the frame table fits below the top address, and never fills 4 MB pages
          \* exactly: that takes 2^20 frames of 12 bytes, length_low holds fewer
          /\ meta < (ENTRIES - FRAMES_PDE) * ENTRIES * FRAME_SIZE
          /\ meta % (ENTRIES * FRAME_SIZE) # 0
  /\ Increments \subseteq Int
  /\ IoRanges \subseteq [addr : Nat, len : Nat]
  /\ \A r \in IoRanges : r.addr + r.len <= ENTRIES * ENTRIES * FRAME_SIZE

VARIABLES
  phase,      \* how far boot has come; "ready" once main_new has set up memory
  tlb,        \* the TLB still caches the identity mapping of 4 MB page 0
  ram,        \* fcontext->map->length_low, in pages
  pde,        \* page_dir
  pte,        \* page tables, by the physical page that holds each
  low,        \* words <<page, index>> that unmap_pages has cleared
  frame,      \* the frame table
  kds         \* g_kds_size

vars == <<phase, tlb, ram, pde, pte, low, frame, kds>>

NONE == -1
Dir == 0..(ENTRIES - 1)
Table == ENTRIES..(2 * ENTRIES - 1)
VPages == 0..(ENTRIES * ENTRIES - 1)
HeapPage(i) == HEAP_PDE * ENTRIES + i
Pages(bytes) == (bytes \div FRAME_SIZE) + (IF bytes % FRAME_SIZE > 0 THEN 1 ELSE 0)

(* A directory entry is its present and 4 MB flags and its address field;  *)
(* the 4 MB view of the same word only has the upper bits of the address.  *)
NoPde == [pres |-> FALSE, big |-> FALSE, ptaddr |-> 0]
BigPde(addr) == [pres |-> TRUE, big |-> TRUE, ptaddr |-> addr * ENTRIES]
Addr4mb(e) == e.ptaddr \div ENTRIES

NoPte == [pres |-> FALSE, addr |-> 0]
PteOf(v) == pte[pde[v \div ENTRIES].ptaddr][v % ENTRIES]

(* What the processor makes of virtual page v: a physical page or NONE.    *)
Translate(v) ==
  LET e == pde[v \div ENTRIES]
  IN IF ~e.pres THEN NONE
     ELSE IF e.big THEN Addr4mb(e) * ENTRIES + (v % ENTRIES)
     ELSE IF PteOf(v).pres THEN PteOf(v).addr
     ELSE NONE

IsMapped(v) == Translate(v) # NONE

(* get_physaddr, on a byte address; NULL is 0.  In a 4 MB page it keeps    *)
(* only the offset within 4 KB.                                            *)
get_physaddr(d, t, va) ==
  LET v == va \div FRAME_SIZE
      e == d[v \div ENTRIES]
      p == t[e.ptaddr][v % ENTRIES]
  IN IF ~e.pres THEN 0
     ELSE IF e.big THEN Addr4mb(e) * ENTRIES * FRAME_SIZE + (va % FRAME_SIZE)
     ELSE IF p.pres THEN p.addr * FRAME_SIZE + (va % FRAME_SIZE)
     ELSE 0

-----------------------------------------------------------------------------
(* Boot. *)

Init ==
  /\ phase = "reset"
  /\ tlb = FALSE
  /\ ram \in RamLengths
  /\ pde = [d \in Dir |-> NoPde]
  /\ pte = [t \in Table |-> [i \in Dir |-> NoPte]]
  /\ low = {}
  /\ frame = [f \in {} |-> 0]
  /\ kds = 0

(* main: the kernel at 0 and at 0xc0000000, the page tables behind it.     *)
init_page_directory ==
  /\ phase = "reset"
  /\ pde' = [d \in Dir |->
               CASE d \in {0, KERNEL_PDE} -> BigPde(0)
                 [] d = PAGE_TABLES_PDE -> BigPde(1)
                 [] OTHER -> NoPde]
  /\ phase' = "paging"
  /\ UNCHANGED <<tlb, ram, pte, low, frame, kds>>

(* The write to page_directory[0] itself goes through the identity mapping *)
(* and leaves it in the TLB, which nothing flushes.                        *)
finalize_pagination ==
  /\ phase = "paging"
  /\ pde' = [pde EXCEPT ![0] = NoPde]
  /\ tlb' = TRUE
  /\ phase' = "finalized"
  /\ UNCHANGED <<ram, pte, low, frame, kds>>

(* The processor may drop a translation at any time.                       *)
tlb_evict ==
  /\ phase = "finalized"
  /\ tlb
  /\ tlb' = FALSE
  /\ UNCHANGED <<phase, ram, pde, pte, low, frame, kds>>

(* The directory is written at its physical address, which only the TLB    *)
(* still translates.  Every absent entry gets the page of its table, and   *)
(* the tables are cleared.                                                 *)
init_page_tables ==
  /\ phase = "finalized"
  /\ IF tlb
     THEN /\ pde' = [d \in Dir |-> IF pde[d].pres THEN pde[d]
                                   ELSE [pde[d] EXCEPT !.ptaddr = ENTRIES + d]]
          /\ pte' = [t \in Table |-> [i \in Dir |-> NoPte]]
          /\ phase' = "tables"
     ELSE /\ phase' = "fault"
          /\ UNCHANGED <<pde, pte>>
  /\ UNCHANGED <<tlb, ram, low, frame, kds>>

FramesCount == ram - KERNEL_SIZE_IN_RAM
MetaSize == FramesCount * SIZEOF_FRAME
MetaEnd == FRAMES_PDE * ENTRIES * FRAME_SIZE + MetaSize

(* init_page_directory_for_frames: map the frame table page by page; the   *)
(* last directory entry only as far as the table goes.                     *)
FramesPdes ==
  LET size4mb == ENTRIES * FRAME_SIZE
  IN (MetaSize \div size4mb) + (IF MetaSize % size4mb > 0 THEN 1 ELSE 0)

FramePage(d, i) ==
  LET cursor == d - FRAMES_PDE
      max_last_pde == Pages(MetaSize % (ENTRIES * FRAME_SIZE))
  IN /\ cursor \in 0..(FramesPdes - 1)
     /\ cursor < FramesPdes - 1 \/ i < max_last_pde

DirWithFrames ==
  [d \in Dir |-> IF d - FRAMES_PDE \in 0..(FramesPdes - 1)
                 THEN [pde[d] EXCEPT !.pres = TRUE, !.big = FALSE] ELSE pde[d]]

TablesWithFrames ==
  [t \in Table |-> [i \in Dir |->
     IF FramePage(t - ENTRIES, i)
     THEN [pres |-> TRUE, addr |-> 2 * ENTRIES + (t - ENTRIES - FRAMES_PDE) * ENTRIES + i]
     ELSE pte[t][i]]]

(* Mutant: a frame that the end of the frame table only partly fills is    *)
(* not reserved.                                                           *)
RamFramesShort(fend) ==
  [f \in 0..(FramesCount - 1) |->
     LET used == (RAM_BASE + f + 1) * FRAME_SIZE <= fend
     IN [ref |-> IF used THEN 1 ELSE 0, addr |-> 0, vaddr |-> 0]]

(* init_ram_frames: frames below the end of the frame table are in use.    *)
(* The physical address of a frame is computed, but not stored in it.      *)
init_ram_frames(fend) ==
  [f \in 0..(FramesCount - 1) |->
     LET used == (RAM_BASE + f) * FRAME_SIZE < fend
     IN [ref |-> IF used THEN 1 ELSE 0,
         addr |-> 0,
         vaddr |-> IF used THEN FRAMES_PDE * ENTRIES * FRAME_SIZE + f * SIZEOF_FRAME
                   ELSE 0]]

init_frame_alloc ==
  /\ phase = "tables"
  /\ pde' = DirWithFrames
  /\ pte' = TablesWithFrames
  /\ frame' = init_ram_frames(get_physaddr(DirWithFrames, TablesWithFrames, MetaEnd))
  /\ phase' = "ready"
  /\ UNCHANGED <<tlb, ram, low, kds>>

-----------------------------------------------------------------------------
(* Mapping and unmapping. *)

(* Mutant: a present table entry is overwritten.                           *)
MappableOverwrites(v) ==
  LET e == pde[v \div ENTRIES] IN ~(e.pres /\ e.big)

(* map_pages can map v: its directory entry is absent or points to a       *)
(* table, and its table entry is absent.                                   *)
Mappable(v) ==
  LET e == pde[v \div ENTRIES]
  IN ~(e.pres /\ e.big) /\ ~PteOf(v).pres

(* How many of n pages map_pages maps before it is done or fails.          *)
MapCount(v, n) ==
  CHOOSE k \in 0..n :
    /\ \A i \in 0..(k - 1) : Mappable(v + i)
    /\ k = n \/ ~Mappable(v + k)

(* The directory and tables once the pages in S, of those it looked at in  *)
(* Seen, are mapped, page v to physical page addr[v].                      *)
MapDir(Seen) ==
  [d \in Dir |-> IF \E v \in Seen : v \div ENTRIES = d
                 THEN [pde[d] EXCEPT !.pres = TRUE] ELSE pde[d]]

MapTables(addr) ==
  [t \in Table |-> [i \in Dir |->
     LET v == (t - ENTRIES) * ENTRIES + i
     IN IF v \in DOMAIN addr THEN [pres |-> TRUE, addr |-> addr[v]] ELSE pte[t][i]]]

(* Mutant: every frame records the address of the first page.              *)
MapPagesSameAddress(v, f, n, table) ==
  LET k == MapCount(v, n)
  IN /\ pde' = MapDir(v..(v + (IF k < n THEN k ELSE n - 1)))
     /\ pte' = MapTables([w \in v..(v + k - 1) |-> table[f + w - v].addr])
     /\ frame' = [g \in DOMAIN table |->
                    IF g \in f..(f + k - 1)
                    THEN [table[g] EXCEPT !.ref = @ + 1, !.vaddr = v * FRAME_SIZE]
                    ELSE table[g]]

(* map_pages(vaddr, frames, n): the entries it has set stay set when it    *)
(* fails; each mapped frame gets a reference and the address it is at.     *)
map_pages(v, f, n, table) ==
  LET k == MapCount(v, n)
  IN /\ pde' = MapDir(v..(v + (IF k < n THEN k ELSE n - 1)))
     /\ pte' = MapTables([w \in v..(v + k - 1) |-> table[f + w - v].addr])
     /\ frame' = [g \in DOMAIN table |->
                    IF g \in f..(f + k - 1)
                    THEN [table[g] EXCEPT !.ref = @ + 1, !.vaddr = (v + g - f) * FRAME_SIZE]
                    ELSE table[g]]

(* Mutant: the index into the table is the number of the page.             *)
UnmapPageNumber(v, n) ==
  /\ low' = low \cup {<<Addr4mb(pde[w \div ENTRIES]), w>> : w \in v..(v + n - 1)}
  /\ UNCHANGED <<pde, pte, frame>>

(* unmap_pages reads the table address through the 4 MB view of the entry: *)
(* of the table at page ENTRIES + d that leaves page 1, in the memory of   *)
(* the kernel, and the words it clears are there.                          *)
unmap_pages(v, n) ==
  /\ low' = low \cup {<<Addr4mb(pde[w \div ENTRIES]), w % ENTRIES>> : w \in v..(v + n - 1)}
  /\ UNCHANGED <<pde, pte, frame>>

(* alloc_pages(n): the first n consecutive absent entries of present       *)
(* tables, from the end of the frame table on.  The value returned is the  *)
(* last place where the run was broken: a page in use, or the position     *)
(* computed for a skipped directory entry (pte_cursor still has the value  *)
(* an earlier loop left); NULL when the run was never broken or there is   *)
(* none.                                                                   *)
HasTable(d) == pde[d].pres /\ ~pde[d].big
FirstPde == (MetaEnd \div FRAME_SIZE) \div ENTRIES

Runs(n) ==
  {s \in (FirstPde * ENTRIES)..(ENTRIES * ENTRIES - n) :
     /\ \A w \in s..(s + n - 1) : HasTable(w \div ENTRIES) /\ ~PteOf(w).pres
     /\ s = FirstPde * ENTRIES \/ ~HasTable((s - 1) \div ENTRIES) \/ PteOf(s - 1).pres}

SkippedAt(d) ==
  d * ENTRIES + (IF \E c \in FirstPde..(d - 1) : HasTable(c)
                 THEN ENTRIES
                 ELSE ((MetaEnd \div FRAME_SIZE) % ENTRIES) + 1)

(* Mutant: the search starts behind the end of the frame table, so a run   *)
(* that begins there was never broken.                                     *)
AllocPagesFromEnd(n) ==
  IF n = 0 \/ Runs(n) = {} THEN 0
  ELSE LET s == Min(Runs(n))
       IN IF s <= (MetaEnd \div FRAME_SIZE) + 1 THEN 0
          ELSE IF HasTable((s - 1) \div ENTRIES) THEN s - 1
          ELSE SkippedAt((s - 1) \div ENTRIES)

alloc_pages(n) ==
  IF n = 0 \/ Runs(n) = {} THEN 0
  ELSE LET s == Min(Runs(n))
       IN IF s = FirstPde * ENTRIES THEN 0
          ELSE IF HasTable((s - 1) \div ENTRIES) THEN s - 1
          ELSE SkippedAt((s - 1) \div ENTRIES)

-----------------------------------------------------------------------------
(* sbrk *)

get_kds_end_addr == HeapPage(Pages(kds))

(* alloc_frames(n): the start of the lowest run of n free frames, if any.  *)
FreeRun(s, n) ==
  s + n <= FramesCount /\ \A f \in s..(s + n - 1) : frame[f].ref = 0

FirstFits(n) ==
  {s \in DOMAIN frame : FreeRun(s, n) /\ \A t \in 0..(s - 1) : ~FreeRun(t, n)}

(* The limit adds the base address in bytes to the RAM in pages.           *)
TooMany(n) == (kds \div FRAME_SIZE) + n > RAM_BASE * FRAME_SIZE + ram

sbrk_refused(size) ==
  /\ TooMany(Pages(size)) \/ FirstFits(Pages(size)) = {}
  /\ UNCHANGED <<pde, pte, low, frame, kds>>

(* Mutant: the number of pages is rounded down.                            *)
SbrkRoundsDown(size) ==
  LET n == size \div FRAME_SIZE
  IN /\ ~TooMany(n)
     /\ \E f \in FirstFits(n) :
          map_pages(get_kds_end_addr, f, n,
                    [g \in DOMAIN frame |-> IF g \in f..(f + n - 1)
                                            THEN [frame[g] EXCEPT !.ref = 1] ELSE frame[g]])
     /\ kds' = IF MapCount(get_kds_end_addr, n) = n THEN kds + size ELSE kds
     /\ UNCHANGED low

(* alloc_frames has marked the frames before map_pages is called, and they *)
(* stay marked when it fails.                                              *)
sbrk_map(size) ==
  LET n == Pages(size)
  IN /\ ~TooMany(n)
     /\ \E f \in FirstFits(n) :
          map_pages(get_kds_end_addr, f, n,
                    [g \in DOMAIN frame |-> IF g \in f..(f + n - 1)
                                            THEN [frame[g] EXCEPT !.ref = 1] ELSE frame[g]])
     /\ kds' = IF MapCount(get_kds_end_addr, n) = n THEN kds + size ELSE kds
     /\ UNCHANGED low

(* No caller gives back more than it has.                                  *)
sbrk_shrink(size) ==
  /\ kds + size >= 0
  /\ unmap_pages(get_kds_end_addr - Pages(-size), Pages(-size))
  /\ kds' = kds + size

(* A call that changes kds has succeeded and returns the end of the data   *)
(* segment as it was before; sbrk(0) returns the same.                     *)
sbrk(size) ==
  /\ phase = "ready"
  /\ \/ size = 0 /\ UNCHANGED <<pde, pte, low, frame, kds>>
     \/ size > 0 /\ (sbrk_refused(size) \/ sbrk_map(size))
     \/ size < 0 /\ sbrk_shrink(size)
  /\ UNCHANGED <<phase, tlb, ram>>

-----------------------------------------------------------------------------

(* map_io(ioaddr, len): the pages are counted from the length alone and    *)
(* mapped one at a time from the page of ioaddr on; failures are ignored,  *)
(* alloc_pages returning NULL included.                                    *)
map_io(r) ==
  LET n == Pages(r.len)
      v == alloc_pages(n)
      new == {w \in v..(v + n - 1) : Mappable(w)}
  IN /\ phase = "ready"
     /\ pde' = MapDir(v..(v + n - 1))
     /\ pte' = MapTables([w \in new |-> (r.addr \div FRAME_SIZE) + w - v])
     /\ UNCHANGED <<phase, tlb, ram, low, frame, kds>>

(* The address map_io returns: that of the first page, moved by the offset *)
(* of ioaddr in its page.                                                  *)
map_io_result(r) ==
  alloc_pages(Pages(r.len)) * FRAME_SIZE + (r.addr % FRAME_SIZE)

(* A fault before or after boot ends in page_fault_handler's endless loop. *)
page_fault_handler ==
  /\ phase = "fault"
  /\ UNCHANGED vars

Boot ==
  \/ init_page_directory
  \/ finalize_pagination
  \/ init_page_tables
  \/ init_frame_alloc

Next ==
  \/ Boot
  \/ tlb_evict
  \/ \E size \in Increments : sbrk(size)
  \/ \E r \in IoRanges : map_io(r)
  \/ page_fault_handler

Spec == Init /\ [][Next]_vars

-----------------------------------------------------------------------------

Ready == phase = "ready"
MetaPages == Pages(MetaSize)

(* Type invariant.                                                         *)
TypeOK ==
  /\ phase \in {"reset", "paging", "finalized", "tables", "ready", "fault"}
  /\ tlb \in BOOLEAN
  /\ ram \in RamLengths
  /\ pde \in [Dir -> [pres : BOOLEAN, big : BOOLEAN, ptaddr : Nat]]
  /\ pte \in [Table -> [Dir -> [pres : BOOLEAN, addr : Nat]]]
  /\ low \subseteq Nat \X Dir
  /\ DOMAIN frame \in {{}, 0..(FramesCount - 1)}
  /\ \A f \in DOMAIN frame : frame[f] \in [ref : Nat, addr : Nat, vaddr : Nat]
  /\ kds \in Nat

(* Whatever sbrk and map_io do later, the kernel, the page tables and the  *)
(* frame table stay mapped where boot put them; the kernel runs on these   *)
(* mappings and every call of pages.c reads the tables through them.       *)
KernelIntact ==
  Ready =>
    /\ \A i \in Dir : /\ Translate(KERNEL_PDE * ENTRIES + i) = i
                      /\ Translate(PAGE_TABLES_PDE * ENTRIES + i) = ENTRIES + i
    /\ \A i \in 0..(MetaPages - 1) :
         Translate(FRAMES_PDE * ENTRIES + i) = 2 * ENTRIES + i

(* Every byte below the break is mapped, after any mix of growing and      *)
(* shrinking by whole and partial pages and of calls that failed half way. *)
HeapMapped ==
  Ready => \A i \in 0..(Pages(kds) - 1) : IsMapped(HeapPage(i))

(* The frame table and the page tables agree: the heap pages that are      *)
(* mapped are the addresses recorded in the frames that map_pages took a   *)
(* second reference on, one frame for each page.                           *)
FrameBacking ==
  Ready =>
    LET mapped == {f \in DOMAIN frame : frame[f].ref = 2}
        backed == {frame[f].vaddr \div FRAME_SIZE : f \in mapped}
    IN /\ backed = {v \in (HEAP_PDE * ENTRIES)..(KERNEL_PDE * ENTRIES - 1) : IsMapped(v)}
       /\ \A f, g \in mapped : frame[f].vaddr = frame[g].vaddr => f = g
       /\ \A f \in DOMAIN frame : frame[f].ref \in 0..2

(* No frame that holds the kernel, the page tables or the frame table is   *)
(* ever free, so alloc_frames can not hand it out.                         *)
KernelFramesReserved ==
  Ready =>
    \A p \in RAM_BASE..(2 * ENTRIES + MetaPages - 1) :
      p - RAM_BASE \in DOMAIN frame => frame[p - RAM_BASE].ref = 1

(* The memory a successful sbrk returns was not mapped before the call and *)
(* is mapped, to the end, after it.                                        *)
FreshHeap ==
  [][kds' > kds =>
       \A v \in get_kds_end_addr..(get_kds_end_addr + Pages(kds' - kds) - 1) :
         ~IsMapped(v) /\ IsMapped(v)']_vars

(* map_io places a range at virtual page 0, where a null pointer would     *)
(* reach it, only when no table has a run of free pages for it.            *)
(* alloc_pages knows no place before it has met a used page, and would     *)
(* answer NULL for a run that it finds first; the frame table always has   *)
(* pages in front of every run.                                            *)
NullOnlyWithoutPlace ==
  [][\A r \in IoRanges :
       map_io(r) /\ Pages(r.len) > 0 /\ map_io_result(r) < FRAME_SIZE
         => Runs(Pages(r.len)) = {}]_vars

(* Once memory is set up no call changes what a mapped page shows: not a   *)
(* call of sbrk or map_io that fails half way, and not map_io, whose first *)
(* page is the used page before the place that alloc_pages found.          *)
MappedKept ==
  [][Ready => \A v \in VPages : IsMapped(v) => Translate(v)' = Translate(v)]_vars
=============================================================================
