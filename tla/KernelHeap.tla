----------------------------- MODULE KernelHeap -----------------------------
(***************************************************************************)
(* kmalloc on the real sbrk: the heap of KMalloc, whose calls of sbrk are  *)
(* the sbrk of Paging, on the pages and frames that Paging set up.  The    *)
(* composition starts when boot has finished, which is when the heap may   *)
(* first be used.                                                          *)
(*                                                                         *)
(* KMalloc reads back what it wrote to an address.  The memory below does  *)
(* not keep that promise once two addresses of the heap show the same      *)
(* physical byte: from that step on nothing is known of the heap, so the   *)
(* composition records the step and stops (corrupt).                       *)
(***************************************************************************)
EXTENDS KMalloc

CONSTANTS
  ENTRIES, SIZEOF_FRAME, HEAP_PDE, KERNEL_PDE, RAM_BASE,
  RamLength,       \* length of the RAM, in pages
  MaxRefusals      \* bound: how often sbrk may fail on a page it can not map

VARIABLES
  phase, tlb, ram, pde, pte, low, frame, kds,   \* as in Paging
  refusals,        \* how many times sbrk has failed
  corrupt          \* two heap addresses in use show the same byte

P == INSTANCE Paging
       WITH FRAME_SIZE <- PAGESIZE, RamLengths <- {RamLength},
            Increments <- {}, IoRanges <- {}

ASSUME KernelHeapAssumption ==
  /\ ENTRIES \in Nat \ {0} /\ SIZEOF_FRAME \in Nat \ {0}
  /\ KERNEL_PDE \in Nat /\ HEAP_PDE \in 1..(KERNEL_PDE - 1)
  /\ KERNEL_PDE + 2 < ENTRIES
  /\ RAM_BASE \in 0..(ENTRIES - 1)
  /\ LET meta == (RamLength - P!KERNEL_SIZE_IN_RAM) * SIZEOF_FRAME
     IN /\ RamLength \in Nat /\ RamLength > P!KERNEL_SIZE_IN_RAM
        /\ meta < (ENTRIES - P!FRAMES_PDE) * ENTRIES * PAGESIZE
        /\ meta % (ENTRIES * PAGESIZE) # 0
  \* what ends the heap is the kernel above it, not the bound MaxPages
  /\ (KERNEL_PDE - HEAP_PDE) * ENTRIES <= MaxPages

paging == <<phase, tlb, ram, pde, pte, low, frame, kds>>
allvars == <<vars, paging, refusals, corrupt>>

-----------------------------------------------------------------------------

(* Paging as init_frame_alloc leaves it.                                   *)
Booted ==
  LET dir == [d \in P!Dir |->
                CASE d = KERNEL_PDE -> P!BigPde(0)
                  [] d = P!PAGE_TABLES_PDE -> P!BigPde(1)
                  [] OTHER -> [P!NoPde EXCEPT !.ptaddr = ENTRIES + d]]
  IN /\ phase = "tables"
     /\ tlb = TRUE
     /\ ram = RamLength
     /\ pde = dir
     /\ pte = [t \in P!Table |-> [i \in P!Dir |-> P!NoPte]]
     /\ low = {}
     /\ frame = [f \in {} |-> 0]
     /\ kds = 0

HeapInit ==
  /\ Init
  /\ Booted
  /\ refusals = 0
  /\ corrupt = FALSE

init_frame_alloc ==
  /\ P!init_frame_alloc
  /\ UNCHANGED <<vars, refusals, corrupt>>

(* The physical byte behind heap address a.                                *)
PhysByte(a) ==
  P!Translate(P!HeapPage(a \div PAGESIZE)) * PAGESIZE + (a % PAGESIZE)

(* Two addresses of the page infos or of the list show the same byte.      *)
Aliased ==
  \E a, b \in 0..(max_pos - 1) : a # b /\ PhysByte(a) = PhysByte(b)

(* The sbrk(amount) of a step of the heap; nothing is called for 0.        *)
CallSbrk(amount) ==
  /\ phase = "ready"
  /\ ~corrupt
  /\ IF amount = 0
     THEN UNCHANGED <<paging, refusals>>
     ELSE /\ refusals < MaxRefusals
          /\ P!sbrk(amount)
          /\ refusals' = IF kds' = kds THEN refusals + 1 ELSE refusals

(* The call succeeded, or none was needed.                                 *)
Succeeded(amount) == amount = 0 \/ kds' # kds

(* get_first_value asks for the page infos and a page on the first call.   *)
FirstAmount == IF first THEN 0 ELSE SIZEOF_PAGE_INFOS + PAGESIZE

RmAmount ==
  IF cur < max_pos /\ hdr[cur].begin = ptr
  THEN -(pagesize_rm_update(merge_freed_ptr, MergedSize) * PAGESIZE)
  ELSE 0

AppendAmount ==
  IF cur >= max_pos /\ aux = NULL THEN pagesize_add_update * PAGESIZE ELSE 0

Calls(ok) ==
  \/ \E s \in Sizes \ {0} : kmalloc(s, ok)
  \/ \E p \in DOMAIN live \cup {NULL} : free(p, ok)
  \/ \E p \in DOMAIN live, s \in Sizes : realloc(p, s, ok)

Searches(ok) == search_step \/ search_hit \/ search_append(ok)
Removals(ok) == rm_step \/ rm_found \/ rm_not_found

HeapCall ==
  /\ pc = "idle"
  /\ CallSbrk(FirstAmount)
  /\ Calls(Succeeded(FirstAmount))
  /\ corrupt' = Aliased'

HeapSearch ==
  /\ pc = "search"
  /\ CallSbrk(AppendAmount)
  /\ Searches(Succeeded(AppendAmount))
  /\ corrupt' = Aliased'

HeapRemove ==
  /\ pc = "rm"
  /\ CallSbrk(RmAmount)
  /\ Removals(Succeeded(RmAmount))
  /\ corrupt' = Aliased'

(* The page fault handler spins; a corrupt heap is not followed further;   *)
(* neither is one that has used up the bound on refusals.                  *)
Stop ==
  /\ corrupt \/ pc = "fault" \/ refusals = MaxRefusals
  /\ UNCHANGED allvars

HeapNext ==
  \/ init_frame_alloc
  \/ HeapCall
  \/ HeapSearch
  \/ HeapRemove
  \/ Stop

HeapBehaviour == HeapInit /\ [][HeapNext]_allvars

-----------------------------------------------------------------------------

(* The page count in the heap's page infos and g_kds_size, which sbrk      *)
(* keeps, never drift apart, whatever calls succeeded, failed or shrank.   *)
BreakAgrees ==
  IF first THEN kds = SIZEOF_PAGE_INFOS + nb_pages * PAGESIZE ELSE kds = 0

(* The page infos, every header and every block of the heap lie on pages   *)
(* that are mapped: no list walk and no caller's access faults.            *)
ListMapped ==
  \A a \in 0..(max_pos - 1) : P!IsMapped(P!HeapPage(a \div PAGESIZE))

-----------------------------------------------------------------------------

(* What the code says of itself and does not do.                           *)

(* Heap memory behaves as memory: no two heap addresses in use show the    *)
(* same physical byte.                                                     *)
NoAliasing == ~corrupt

(* "sbrk failed: not enough memory" (pages.c:93) is the only reason sbrk   *)
(* reports for a refusal: when it refuses a page, alloc_frames has no      *)
(* frame left for it.                                                      *)
RefusedOnlyWhenFull ==
  [][refusals' > refusals => P!FirstFits(1) = {}]_allvars
=============================================================================
