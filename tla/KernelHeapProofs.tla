-------------------------- MODULE KernelHeapProofs --------------------------
(***************************************************************************)
(* Proofs about KernelHeap, kmalloc on the sbrk of pages.c: the invariant  *)
(* of KMallocProofs and that of PagingProofs hold together, and the break  *)
(* ties them.                                                              *)
(***************************************************************************)
EXTENDS KernelHeap, KMallocProofs

PP == INSTANCE PagingProofs
        WITH FRAME_SIZE <- PAGESIZE, RamLengths <- {RamLength},
             Increments <- Int, IoRanges <- {}

-----------------------------------------------------------------------------
(* The paging of the composition is the one that PagingProofs is about *)

LEMMA SameMap ==
  /\ \A v : P!Translate(v) = PP!Translate(v) /\ P!Mappable(v) = PP!Mappable(v)
  /\ \A i : P!HeapPage(i) = PP!HeapPage(i)
  /\ \A b : P!Pages(b) = PP!Pages(b)
<1>1. \A v : P!PteOf(v) = PP!PteOf(v)
  BY DEF P!PteOf, PP!PteOf
<1>2. \A e : P!Addr4mb(e) = PP!Addr4mb(e)
  BY DEF P!Addr4mb, PP!Addr4mb
<1>3. \A v : P!Translate(v) = PP!Translate(v)
  BY <1>1, <1>2 DEF P!Translate, PP!Translate, P!NONE, PP!NONE
<1>4. \A v : P!Mappable(v) = PP!Mappable(v)
  BY <1>1 DEF P!Mappable, PP!Mappable
<1>5. \A i : P!HeapPage(i) = PP!HeapPage(i)
  BY DEF P!HeapPage, PP!HeapPage
<1>6. \A b : P!Pages(b) = PP!Pages(b)
  BY Zenon DEF P!Pages, PP!Pages
<1> QED BY <1>3, <1>4, <1>5, <1>6

LEMMA SameSbrk ==
  ASSUME NEW s, P!sbrk(s)
  PROVE  PP!sbrk(s)
BY ZenonT(60) DEF P!sbrk, PP!sbrk, P!sbrk_refused, PP!sbrk_refused, P!sbrk_map, PP!sbrk_map,
       P!sbrk_shrink, PP!sbrk_shrink, P!TooMany, PP!TooMany, P!FirstFits, PP!FirstFits,
       P!FreeRun, PP!FreeRun, P!FramesCount, PP!FramesCount, P!Pages, PP!Pages,
       P!KERNEL_SIZE_IN_RAM, PP!KERNEL_SIZE_IN_RAM,
       P!map_pages, PP!map_pages, P!MapCount, PP!MapCount, P!Mappable, PP!Mappable,
       P!PteOf, PP!PteOf, P!MapDir, PP!MapDir, P!MapTables, PP!MapTables,
       P!get_kds_end_addr, PP!get_kds_end_addr, P!HeapPage, PP!HeapPage,
       P!unmap_pages, PP!unmap_pages, P!Addr4mb, PP!Addr4mb, P!Dir, PP!Dir,
       P!Table, PP!Table

LEMMA SameInit ==
  ASSUME P!init_frame_alloc
  PROVE  PP!init_frame_alloc
BY ZenonT(60) DEF P!init_frame_alloc, PP!init_frame_alloc, P!DirWithFrames, PP!DirWithFrames,
       P!TablesWithFrames, PP!TablesWithFrames, P!FramePage, PP!FramePage,
       P!FramesPdes, PP!FramesPdes, P!Pages, PP!Pages, P!MetaSize, PP!MetaSize,
       P!MetaEnd, PP!MetaEnd, P!FramesCount, PP!FramesCount, P!Dir, PP!Dir,
       P!Table, PP!Table, P!init_ram_frames, PP!init_ram_frames,
       P!get_physaddr, PP!get_physaddr, P!Addr4mb, PP!Addr4mb,
       P!KERNEL_SIZE_IN_RAM, PP!KERNEL_SIZE_IN_RAM, P!FRAMES_PDE, PP!FRAMES_PDE

LEMMA PagingConstants ==
  /\ ENTRIES \in Nat \ {0} /\ PAGESIZE \in Nat \ {0} /\ SIZEOF_FRAME \in Nat \ {0}
  /\ KERNEL_PDE \in Nat /\ HEAP_PDE \in 1..(KERNEL_PDE - 1)
  /\ PP!FRAMES_PDE < ENTRIES
  /\ RAM_BASE \in 0..(ENTRIES - 1)
  /\ \A len \in {RamLength} :
       LET meta == (len - PP!KERNEL_SIZE_IN_RAM) * SIZEOF_FRAME
       IN /\ len \in Nat /\ len > PP!KERNEL_SIZE_IN_RAM
          /\ meta < (ENTRIES - PP!FRAMES_PDE) * ENTRIES * PAGESIZE
          /\ meta % (ENTRIES * PAGESIZE) # 0
  /\ Int \subseteq Int
  /\ {} \subseteq [addr : Nat, len : Nat]
  /\ \A r \in {} : r.addr + r.len <= ENTRIES * ENTRIES * PAGESIZE
<1>1. P!KERNEL_SIZE_IN_RAM = PP!KERNEL_SIZE_IN_RAM /\ P!FRAMES_PDE = PP!FRAMES_PDE
      /\ PP!FRAMES_PDE = KERNEL_PDE + 2
  BY DEF P!KERNEL_SIZE_IN_RAM, PP!KERNEL_SIZE_IN_RAM, P!FRAMES_PDE, PP!FRAMES_PDE
<1> QED BY <1>1, KernelHeapAssumption, KMallocAssumption

LEMMA PagingStep ==
  ASSUME PP!IInv, [PP!Next]_(PP!vars)
  PROVE  PP!IInv'
BY PP!StepInv, PagingConstants

(* Booted is a state that the invariant of PagingProofs allows.            *)
LEMMA BootedInv ==
  ASSUME Booted
  PROVE  PP!IInv
<1>1. P!Dir = PP!Dir /\ P!Table = PP!Table /\ PP!Dir = 0..(ENTRIES - 1)
  BY DEF P!Dir, PP!Dir, P!Table, PP!Table
<1>2. /\ P!PAGE_TABLES_PDE = KERNEL_PDE + 1 /\ PP!PAGE_TABLES_PDE = KERNEL_PDE + 1
      /\ KERNEL_PDE \in PP!Dir /\ KERNEL_PDE + 1 \in PP!Dir /\ KERNEL_PDE # KERNEL_PDE + 1
      /\ ENTRIES \in Nat
  BY <1>1, KernelHeapAssumption DEF P!PAGE_TABLES_PDE, PP!PAGE_TABLES_PDE
<1>3. PP!BigPde(0) \in PP!PdeType /\ PP!BigPde(1) \in PP!PdeType
  BY <1>2 DEF PP!BigPde, PP!PdeType
<1>4. ASSUME NEW d \in PP!Dir
      PROVE  /\ pde[d] \in PP!PdeType
             /\ d = KERNEL_PDE => pde[d] = PP!BigPde(0)
             /\ d = KERNEL_PDE + 1 => pde[d] = PP!BigPde(1)
             /\ d # KERNEL_PDE /\ d # KERNEL_PDE + 1
                  => pde[d].big = FALSE /\ pde[d].ptaddr = ENTRIES + d
  <2> DEFINE e == [P!NoPde EXCEPT !.ptaddr = ENTRIES + d]
  <2>1. pde[d] = CASE d = KERNEL_PDE -> P!BigPde(0)
                   [] d = P!PAGE_TABLES_PDE -> P!BigPde(1)
                   [] OTHER -> e
    BY <1>1 DEF Booted
  <2>2. P!BigPde(0) = PP!BigPde(0) /\ P!BigPde(1) = PP!BigPde(1)
    BY DEF P!BigPde, PP!BigPde
  <2>3. e \in PP!PdeType /\ e.big = FALSE /\ e.ptaddr = ENTRIES + d
    <3>1. ENTRIES + d \in Nat
      BY <1>1, <1>2
    <3>2. P!NoPde \in PP!PdeType /\ P!NoPde.big = FALSE
      BY DEF P!NoPde, PP!PdeType
    <3> QED BY <3>1, <3>2 DEF PP!PdeType
  <2> HIDE DEF e
  <2>4. CASE d = KERNEL_PDE
    BY <1>2, <1>3, <2>1, <2>2, <2>4
  <2>5. CASE d = KERNEL_PDE + 1
    BY <1>2, <1>3, <2>1, <2>2, <2>5
  <2>6. CASE d # KERNEL_PDE /\ d # KERNEL_PDE + 1
    BY <1>2, <2>1, <2>3, <2>6
  <2> QED BY <2>4, <2>5, <2>6
<1>5. pde \in [PP!Dir -> PP!PdeType]
  <2>1. pde = [d \in PP!Dir |-> pde[d]]
    BY <1>1 DEF Booted
  <2> QED BY <1>4, <2>1
<1>6. pte \in [PP!Table -> [PP!Dir -> PP!PteType]]
  BY <1>1 DEF Booted, P!NoPte, PP!PteType
<1>7. PP!TypeOK
  BY <1>5, <1>6 DEF Booted, PP!TypeOK, PP!PdeType, PP!PteType
<1>8. PP!DirInv
  <2>1. pde[KERNEL_PDE] = PP!BigPde(0) /\ pde[PP!PAGE_TABLES_PDE] = PP!BigPde(1)
    BY <1>2, <1>4
  <2>2. \A d \in PP!Other : pde[d].big = FALSE /\ pde[d].ptaddr = ENTRIES + d
    BY <1>2, <1>4 DEF PP!Other
  <2>3. PP!Shape
    BY <2>1, <2>2 DEF PP!Shape
  <2> QED BY <2>3 DEF Booted, PP!DirInv
<1>9. PP!HeapBound
  <2>1. PP!Pages(0) = 0
    BY PP!PagesMono, PagingConstants, 0 \in Nat
  <2>2. HEAP_PDE * ENTRIES <= KERNEL_PDE * ENTRIES /\ HEAP_PDE * ENTRIES \in Nat
    BY KernelHeapAssumption
  <2> QED BY <2>1, <2>2 DEF Booted, PP!HeapBound, PP!HeapPage
<1> QED BY <1>7, <1>8, <1>9
        DEF Booted, PP!IInv, PP!StartInv, PP!KernelIntact, PP!HeapMapped, PP!Ready

-----------------------------------------------------------------------------
(* The inductive invariant *)

(* Both components' invariants, and the break that ties them; the heap is  *)
(* only used once boot has finished.                                       *)
HeapInv ==
  /\ PP!IInv
  /\ Proper
  /\ BreakAgrees
  /\ first => phase = "ready"

(* What a call of sbrk does to the break.                                  *)
LEMMA SbrkEffect ==
  ASSUME PP!IInv, NEW amount \in Int, CallSbrk(amount)
  PROVE  /\ PP!IInv' /\ phase = "ready" /\ phase' = "ready" /\ kds \in Nat
         /\ amount = 0 => kds' = kds
         /\ amount > 0 => kds' = kds \/ kds' = kds + amount
         /\ amount < 0 => kds' = kds + amount
<1>1. phase = "ready" /\ kds \in Nat
  BY DEF CallSbrk, PP!IInv, PP!TypeOK
<1>2. CASE amount = 0
  <2>1. UNCHANGED <<phase, tlb, ram, pde, pte, low, frame, kds>>
    BY <1>2 DEF CallSbrk, paging
  <2>2. PP!IInv'
    BY <2>1, PagingStep DEF PP!vars
  <2> QED BY <1>1, <1>2, <2>1, <2>2
<1>3. CASE amount # 0
  <2>1. PP!sbrk(amount)
    BY <1>3, SameSbrk DEF CallSbrk
  <2>2. PP!IInv'
    BY <2>1, PagingStep DEF PP!Next
  <2>3. phase' = phase
    BY <2>1 DEF PP!sbrk
  <2>4. amount > 0 => kds' = kds \/ kds' = kds + amount
    BY <1>3, <2>1 DEF PP!sbrk, PP!sbrk_refused, PP!sbrk_map
  <2>5. amount < 0 => kds' = kds + amount
    BY <1>3, <2>1 DEF PP!sbrk, PP!sbrk_shrink
  <2> QED BY <1>1, <1>3, <2>2, <2>3, <2>4, <2>5
<1> QED BY <1>2, <1>3

(* The heap's part of a step is a step of KMalloc, whose sbrk was free to  *)
(* succeed or fail.                                                        *)
LEMMA HeapSteps ==
  ASSUME Good, HeapNext
  PROVE  [Next]_vars
<1>1. CASE init_frame_alloc \/ Stop
  BY <1>1 DEF init_frame_alloc, Stop, allvars
<1>2. CASE HeapCall
  <2>1. PICK ok \in BOOLEAN : Calls(ok)
    BY <1>2 DEF HeapCall, Succeeded
  <2>2. DOMAIN live \subseteq Addr
    BY HeldInAddr
  <2>3. Call
    BY <2>1, <2>2 DEF Calls, Call
  <2> QED BY <2>3 DEF Next
<1>3. CASE HeapSearch
  <2>1. PICK ok \in BOOLEAN : Searches(ok)
    BY <1>3 DEF HeapSearch, Succeeded
  <2> QED BY <2>1 DEF Searches, Walk, Next
<1>4. CASE HeapRemove
  BY <1>4 DEF HeapRemove, Removals, Walk, Next
<1> QED BY <1>1, <1>2, <1>3, <1>4 DEF HeapNext

LEMMA ProperStep ==
  ASSUME RequestsFit, Proper, [Next]_vars
  PROVE  Proper'
<1>1. pc' # "wrapped"
  BY StaysGood DEF Proper
<1> QED BY <1>1, NextStep DEF Proper

-----------------------------------------------------------------------------
(* The break through each step *)

(* The heap ends below the kernel: sbrk never gives it MaxPages pages.     *)
LEMMA BreakBound ==
  ASSUME PP!TypeOK', PP!HeapBound', NEW n \in Nat, kds' = Limit(n)
  PROVE  n < MaxPages
<1> DEFINE q == PP!Pages(kds')
           h == HEAP_PDE * ENTRIES
           k == KERNEL_PDE * ENTRIES
<1>1. kds' \in Nat
  BY DEF PP!TypeOK
<1>2. q \in Nat /\ (n < q <=> n * PAGESIZE < kds')
  BY <1>1, PP!PagesOf, PagingConstants
<1>3. n * PAGESIZE < kds'
  <2>1. n * PAGESIZE \in Nat /\ SIZEOF_PAGE_INFOS \in Nat /\ SIZEOF_PAGE_INFOS >= 1
    BY KMallocAssumption, LimitFacts
  <2> QED BY <2>1 DEF Limit
<1>4. h + q <= k
  BY DEF PP!HeapBound, PP!HeapPage
<1>5. h \in Nat /\ k \in Nat /\ (KERNEL_PDE - HEAP_PDE) * ENTRIES = k - h
  BY KernelHeapAssumption
<1>6. k - h <= MaxPages /\ MaxPages \in Nat
  BY <1>5, KernelHeapAssumption, KMallocAssumption
<1> HIDE DEF q, h, k
<1> QED BY <1>2, <1>3, <1>4, <1>5, <1>6

LEMMA CallBreak ==
  ASSUME HeapInv, HeapCall
  PROVE  PP!IInv' /\ BreakAgrees' /\ (first' => phase' = "ready")
<1>1. /\ Good /\ first \in BOOLEAN /\ PP!IInv /\ BreakAgrees
      /\ PAGESIZE \in Nat /\ PAGESIZE >= 1 /\ SIZEOF_PAGE_INFOS \in Nat /\ SIZEOF_PAGE_INFOS >= 1
  BY KMallocAssumption DEF HeapInv, Proper, Good, TypeOK
<1>2. FirstAmount \in Int
  BY <1>1 DEF FirstAmount
<1>3. /\ PP!IInv' /\ phase' = "ready" /\ kds \in Nat
      /\ FirstAmount = 0 => kds' = kds
      /\ FirstAmount > 0 => kds' = kds \/ kds' = kds + FirstAmount
  BY <1>1, <1>2, SbrkEffect DEF HeapCall
<1>4. PICK ok \in BOOLEAN : ok = Succeeded(FirstAmount) /\ Calls(ok)
  BY DEF HeapCall, Succeeded
<1>5. CASE first
  <2>1. kds' = kds
    BY <1>3, <1>5 DEF FirstAmount
  <2>2. first' = TRUE /\ nb_pages' = nb_pages
    BY <1>1, <1>4, <1>5, ZenonT(60) DEF Calls, kmalloc, free, realloc, mem_add_value, mem_rm_value,
         FirstFails, get_first_value, vars, heap
  <2> QED BY <1>1, <1>3, <1>5, <2>1, <2>2 DEF BreakAgrees
<1>6. CASE ~first
  <2>1. FirstAmount = SIZEOF_PAGE_INFOS + PAGESIZE /\ FirstAmount > 0 /\ kds = 0
    BY <1>1, <1>6 DEF FirstAmount, BreakAgrees
  <2>2. DOMAIN live = {}
    BY <1>1, <1>6, ListFacts
  <2>a. \/ \E s \in Sizes : mem_add_value(s, s, NULL, ok)
        \/ \E p \in {NULL} : mem_rm_value(p, ok)
    BY <1>4, <2>2 DEF Calls, kmalloc, free
  <2>3. CASE kds' = kds
    <3>0. FirstAmount # 0
      BY <1>2, <2>1
    <3>1. ok = FALSE
      BY <1>4, <2>3, <3>0 DEF Succeeded
    <3>2. FirstFails(ok)
      BY <1>6, <3>1 DEF FirstFails
    <3>3. first' = first
      BY <2>a, <3>2 DEF mem_add_value, mem_rm_value, vars, heap
    <3> QED BY <1>3, <1>6, <2>1, <2>3, <3>3 DEF BreakAgrees
  <2>4. CASE kds' = kds + FirstAmount
    <3>0. kds' # kds
      BY <1>1, <2>1, <2>4
    <3>1. ok = TRUE
      BY <1>4, <3>0 DEF Succeeded
    <3>2. MaxPages # 0
      BY KernelHeapAssumption
    <3>3. ~FirstFails(ok)
      BY <3>1, <3>2 DEF FirstFails
    <3>4. first' = TRUE /\ nb_pages' = 1
      BY <1>6, <2>a, <3>3 DEF mem_add_value, mem_rm_value, get_first_value
    <3>5. kds' = SIZEOF_PAGE_INFOS + nb_pages' * PAGESIZE
      BY <1>1, <2>1, <2>4, <3>4
    <3> QED BY <1>3, <3>4, <3>5 DEF BreakAgrees
  <2> QED BY <1>3, <2>1, <2>3, <2>4
<1> QED BY <1>5, <1>6

LEMMA SearchBreak ==
  ASSUME RequestsFit, HeapInv, HeapSearch
  PROVE  PP!IInv' /\ BreakAgrees' /\ (first' => phase' = "ready")
<1> DEFINE pages == pagesize_add_update
<1>1. /\ Good /\ first /\ PP!IInv /\ kds = Limit(nb_pages) /\ pc = "search"
      /\ nb_pages \in Nat /\ max_pos \in Nat /\ HDR \in Nat /\ size \in Nat
      /\ PAGESIZE \in Nat /\ PAGESIZE >= 1 /\ Limit(nb_pages) \in Nat
  <2>1. Good /\ PP!IInv /\ BreakAgrees /\ pc = "search"
    BY DEF HeapInv, Proper, HeapSearch
  <2>2. first /\ nb_pages \in Nat /\ max_pos \in Nat /\ size \in Nat
    BY <2>1, KMallocAssumption DEF Good, TypeOK, PlaceInv
  <2> QED BY <2>1, <2>2, HdrNat, LimitFacts, KMallocAssumption DEF BreakAgrees, Limit
<1>2. pages \in Nat /\ pages * PAGESIZE \in Nat /\ (pages > 0 => pages * PAGESIZE > 0)
  <2>1. Wrap(max_pos + HDR + size) \in Int
    BY <1>1, KMallocAssumption DEF Wrap
  <2>2. pages \in Nat
    BY <1>1, <2>1, DivPages DEF pagesize_add_update
  <2> QED BY <1>1, <2>2
<1> HIDE DEF pages
<1>3. AppendAmount = (IF cur >= max_pos /\ aux = NULL THEN pages * PAGESIZE ELSE 0)
  BY DEF AppendAmount, pages
<1>4. AppendAmount \in Nat
  BY <1>2, <1>3
<1>5. /\ PP!IInv' /\ phase' = "ready" /\ kds \in Nat
      /\ AppendAmount = 0 => kds' = kds
      /\ AppendAmount > 0 => kds' = kds \/ kds' = kds + AppendAmount
  BY <1>1, <1>4, SbrkEffect DEF HeapSearch
<1>6. PICK ok \in BOOLEAN : ok = Succeeded(AppendAmount) /\ Searches(ok)
  BY DEF HeapSearch, Succeeded
<1>7. ASSUME first' = first, nb_pages' \in Nat, kds' = Limit(nb_pages')
      PROVE  BreakAgrees'
  BY <1>1, <1>7 DEF BreakAgrees, Limit
<1>8. CASE search_step \/ search_hit
  <2>1. first' = first /\ nb_pages' = nb_pages
    BY <1>8 DEF search_step, search_hit, heap
  <2>2. AppendAmount = 0
    <3>1. cur \in Nat
      BY <1>1 DEF Good, TypeOK
    <3>2. cur < max_pos \/ aux # NULL
      BY <1>8 DEF search_step, search_hit
    <3> QED BY ONLY <1>1, <1>3, <3>1, <3>2
  <2> QED BY <1>1, <1>5, <1>7, <2>1, <2>2
<1>9. CASE search_append(ok)
  <2>1. AppendAmount = pages * PAGESIZE
    BY <1>3, <1>9 DEF search_append
  <2>2. first' = first /\ (~(SbrkGrows(pages) /\ (~ok \/ nb_pages + pages > MaxPages))
                             => nb_pages' = nb_pages + pages)
    BY <1>9 DEF search_append, heap, pages
  <2>3. pages > 0 => SbrkGrows(pages)
    BY <1>1, NoPhantom DEF Phantom, pages
  <2>4. CASE pages = 0
    <3>1. AppendAmount = 0 /\ nb_pages' = nb_pages
      BY <1>1, <2>1, <2>2, <2>4 DEF SbrkGrows
    <3> QED BY <1>1, <1>5, <1>7, <2>2, <3>1
  <2>5. CASE pages > 0 /\ kds' = kds
    <3>0. AppendAmount # 0
      BY <1>2, <2>1, <2>5
    <3>1. ok = FALSE
      BY <1>6, <2>5, <3>0 DEF Succeeded
    <3>2. nb_pages' = nb_pages
      BY <1>9, <2>3, <2>5, <3>1 DEF search_append, heap, pages
    <3> QED BY <1>1, <1>5, <1>7, <2>2, <2>5, <3>2
  <2>6. CASE pages > 0 /\ kds' = kds + AppendAmount
    <3>0. kds' # kds
      BY <1>2, <1>5, <2>1, <2>6
    <3>1. ok = TRUE
      BY <1>6, <3>0 DEF Succeeded
    <3>2. kds' = Limit(nb_pages + pages) /\ nb_pages + pages \in Nat
      BY <1>1, <1>2, <2>1, <2>6, LimitFacts
    <3>3. nb_pages + pages < MaxPages
      <4>1. ASSUME NEW n \in Nat, kds' = Limit(n) PROVE n < MaxPages
        <5>1. PP!TypeOK' /\ PP!HeapBound'
          BY <1>5 DEF PP!IInv
        <5> QED BY <4>1, <5>1, BreakBound
      <4> QED BY <3>2, <4>1
    <3>4. nb_pages' = nb_pages + pages
      BY <1>1, <1>2, <2>2, <3>1, <3>3, KMallocAssumption
    <3> QED BY <1>5, <1>7, <2>2, <3>2, <3>4
  <2> QED BY <1>2, <1>5, <2>1, <2>4, <2>5, <2>6
<1> QED BY <1>5, <1>6, <1>8, <1>9 DEF Searches

LEMMA RemoveBreak ==
  ASSUME HeapInv, HeapRemove
  PROVE  PP!IInv' /\ BreakAgrees' /\ (first' => phase' = "ready")
<1> DEFINE found == cur < max_pos /\ hdr[cur].begin = ptr
           pages == pagesize_rm_update(merge_freed_ptr, MergedSize)
<1>1. /\ Good /\ first /\ PP!IInv /\ kds = Limit(nb_pages) /\ pc = "rm"
      /\ nb_pages \in Nat /\ PAGESIZE \in Nat /\ PAGESIZE >= 1 /\ cur \in Nat /\ max_pos \in Nat
  <2>1. Good /\ PP!IInv /\ BreakAgrees /\ pc = "rm"
    BY DEF HeapInv, Proper, HeapRemove
  <2>2. first /\ nb_pages \in Nat /\ cur \in Nat /\ max_pos \in Nat
    BY <2>1, KMallocAssumption DEF Good, TypeOK, PlaceInv
  <2> QED BY <2>1, <2>2, KMallocAssumption DEF BreakAgrees, Limit
<1>2. ASSUME found PROVE pages \in Nat /\ nb_pages - pages \in Nat
  <2> DEFINE m == merge_freed_ptr
  <2>1. m \in DOMAIN hdr
    BY <1>1, <1>2, MergeFacts
  <2>2. m \in Nat /\ m >= FirstBlock /\ m <= max_pos
    BY <1>1, <2>1, ListFacts DEF IsList
  <2>3. m <= Limit(nb_pages) /\ Limit(nb_pages) \in Nat
    <3>1. max_pos <= Limit(nb_pages)
      BY <1>1 DEF Good, Tiling, InsideLimit
    <3>2. Limit(nb_pages) \in Nat
      BY <1>1, LimitFacts
    <3> QED BY <1>1, <2>2, <3>1, <3>2
  <2> HIDE DEF m
  <2>4. CASE pages = 0
    BY <1>1, <2>4
  <2>5. CASE pages # 0
    <3>1. pages = (Limit(nb_pages) - m) \div PAGESIZE
      BY <2>5 DEF pagesize_rm_update, m
    <3>2. Limit(nb_pages) - m \in Nat
      BY <2>2, <2>3
    <3>3. pages \in Nat
      BY <3>1, <3>2, DivPages
    <3> HIDE DEF pages
    <3>4. nb_pages - pages \in 0..nb_pages
      BY <1>1, <2>2, <2>3, <3>1, PagesBack
    <3> QED BY <1>1, <3>3, <3>4
  <2> QED BY <2>4, <2>5
<1>3. RmAmount = IF found THEN -(pages * PAGESIZE) ELSE 0
  BY DEF RmAmount
<1> HIDE DEF pages, found
<1>4. RmAmount \in Int /\ RmAmount <= 0
  <2>1. CASE found
    <3>1. pages * PAGESIZE \in Nat
      BY <1>1, <1>2, <2>1
    <3> QED BY <1>3, <2>1, <3>1
  <2>2. CASE ~found
    BY <1>3, <2>2
  <2> QED BY <2>1, <2>2
<1>5. PP!IInv' /\ phase' = "ready" /\ kds \in Nat /\ kds' = kds + RmAmount
  BY <1>1, <1>4, SbrkEffect DEF HeapRemove
<1>6. ASSUME first' = first, nb_pages' \in Nat, kds' = Limit(nb_pages')
      PROVE  BreakAgrees'
  BY <1>1, <1>6 DEF BreakAgrees, Limit
<1>7. CASE found
  <2>1. first' = first /\ nb_pages' = nb_pages - pages
    <3>1. rm_found
      BY <1>1, <1>7 DEF HeapRemove, Removals, rm_step, rm_not_found, found
    <3> QED BY <3>1 DEF rm_found, pages
  <2>2. kds' = Limit(nb_pages) - pages * PAGESIZE
    <3>1. pages * PAGESIZE \in Nat /\ Limit(nb_pages) \in Nat
      BY <1>1, <1>2, <1>7, LimitFacts
    <3> QED BY <1>1, <1>3, <1>5, <1>7, <3>1
  <2>3. Limit(nb_pages - pages) = Limit(nb_pages) - pages * PAGESIZE
    <3> DEFINE r == nb_pages - pages
    <3>1. r \in Nat /\ pages \in Nat /\ r + pages = nb_pages
      BY <1>1, <1>2, <1>7
    <3> HIDE DEF r
    <3>2. /\ Limit(r + pages) = Limit(r) + pages * PAGESIZE
          /\ Limit(r) \in Nat /\ pages * PAGESIZE \in Nat
      BY <3>1, LimitFacts
    <3>3. Limit(r) = Limit(nb_pages) - pages * PAGESIZE
      BY <3>1, <3>2
    <3> QED BY <3>3 DEF r
  <2> QED BY <1>2, <1>5, <1>6, <1>7, <2>1, <2>2, <2>3
<1>8. CASE ~found
  <2>1. first' = first /\ nb_pages' = nb_pages
    <3>1. rm_step \/ rm_not_found
      BY <1>8 DEF HeapRemove, Removals, rm_found, found
    <3> QED BY <3>1 DEF rm_step, rm_not_found, heap
  <2>2. kds' = kds
    BY <1>3, <1>5, <1>8
  <2> QED BY <1>1, <1>5, <1>6, <2>1, <2>2
<1> QED BY <1>7, <1>8

-----------------------------------------------------------------------------
(* What the run checks *)

LEMMA HeapStep ==
  ASSUME RequestsFit, HeapInv, [HeapNext]_allvars
  PROVE  HeapInv'
<1>1. PP!IInv /\ Proper /\ Good /\ BreakAgrees /\ (first => phase = "ready")
  BY DEF HeapInv, Proper
<1>2. Proper'
  <2>1. [Next]_vars
    BY <1>1, HeapSteps DEF allvars
  <2> QED BY <1>1, <2>1, ProperStep
<1>3. ASSUME PP!IInv', BreakAgrees', first' => phase' = "ready" PROVE HeapInv'
  BY <1>2, <1>3 DEF HeapInv
<1>4. CASE init_frame_alloc
  <2>1. PP!init_frame_alloc /\ UNCHANGED vars
    BY <1>4, SameInit DEF init_frame_alloc
  <2>2. PP!IInv'
    BY <1>1, <2>1, PagingStep DEF PP!Next, PP!Boot
  <2>3. phase' = "ready" /\ kds' = kds /\ first' = first /\ nb_pages' = nb_pages
    BY <2>1 DEF PP!init_frame_alloc, vars
  <2> QED BY <1>1, <1>3, <2>2, <2>3 DEF BreakAgrees
<1>5. CASE UNCHANGED allvars
  <2>1. UNCHANGED <<phase, tlb, ram, pde, pte, low, frame, kds, first, nb_pages>>
    BY <1>5 DEF allvars, vars, paging
  <2>2. PP!IInv'
    BY <1>1, <2>1, PagingStep DEF PP!vars
  <2> QED BY <1>1, <1>3, <2>1, <2>2 DEF BreakAgrees
<1>6. CASE HeapCall
  BY <1>3, <1>6, CallBreak
<1>7. CASE HeapSearch
  BY <1>3, <1>7, SearchBreak
<1>8. CASE HeapRemove
  BY <1>3, <1>8, RemoveBreak
<1> QED BY <1>4, <1>5, <1>6, <1>7, <1>8 DEF HeapNext, Stop

(* The composition keeps the invariants of its parts, if requests are not  *)
(* so large that an address wraps around: kmalloc stays a proper heap on   *)
(* an sbrk that may refuse, shrink or fail half way, and sbrk keeps the    *)
(* kernel mapped whatever kmalloc asks for.                                *)
THEOREM KernelHeapInvariant ==
  ASSUME RequestsFit
  PROVE  HeapBehaviour => []HeapInv
<1>1. HeapInit => HeapInv
  <2> SUFFICES ASSUME HeapInit PROVE HeapInv
    OBVIOUS
  <2>1. Proper
    BY InitInv DEF HeapInit, Init, IInv, Proper
  <2>2. BreakAgrees /\ ~first
    BY DEF HeapInit, Init, Booted, BreakAgrees
  <2> QED BY <2>1, <2>2, BootedInv DEF HeapInit, HeapInv
<1>2. HeapInv /\ [HeapNext]_allvars => HeapInv'
  BY HeapStep
<1> QED BY <1>1, <1>2, PTL DEF HeapBehaviour

(* nb_pages of the page infos (update_page_number) and g_kds_size of sbrk  *)
(* never drift apart.                                                      *)
THEOREM KernelHeapBreakAgrees ==
  ASSUME RequestsFit
  PROVE  HeapBehaviour => []BreakAgrees
<1>1. HeapInv => BreakAgrees
  BY DEF HeapInv
<1> QED BY <1>1, KernelHeapInvariant, PTL

(* No list walk of kmalloc.c and no access of a caller to its block        *)
(* faults: everything below max_pos is mapped.                             *)
THEOREM KernelHeapListMapped ==
  ASSUME RequestsFit
  PROVE  HeapBehaviour => []ListMapped
<1>1. HeapInv => ListMapped
  <2> SUFFICES ASSUME HeapInv, NEW a \in 0..(max_pos - 1)
               PROVE  P!IsMapped(P!HeapPage(a \div PAGESIZE))
    BY DEF ListMapped
  <2> DEFINE i == a \div PAGESIZE
  <2>1. Good /\ PP!IInv /\ BreakAgrees /\ max_pos \in Nat /\ nb_pages \in Nat
    BY KMallocAssumption DEF HeapInv, Proper, Good, TypeOK
  <2>2. first
    BY <2>1 DEF Good, StartInv
  <2>3. max_pos <= kds /\ kds \in Nat /\ phase = "ready"
    <3>1. max_pos <= Limit(nb_pages) /\ kds = Limit(nb_pages) /\ Limit(nb_pages) \in Nat
      BY <2>1, <2>2, LimitFacts DEF Good, Tiling, InsideLimit, BreakAgrees, Limit
    <3> QED BY <2>2, <3>1 DEF HeapInv
  <2>4. a \in Nat /\ a < kds
    BY <2>1, <2>3
  <2>5. i \in Nat /\ i * PAGESIZE <= a
    BY <2>4, DivPages
  <2> HIDE DEF i
  <2>6. i \in 0..(PP!Pages(kds) - 1)
    <3>1. PP!Pages(kds) \in Nat /\ (i < PP!Pages(kds) <=> i * PAGESIZE < kds)
      BY <2>3, <2>5, PP!PagesOf, PagingConstants
    <3>2. i * PAGESIZE \in Nat
      BY <2>5, LimitFacts
    <3>3. i * PAGESIZE < kds
      BY <2>3, <2>4, <2>5, <3>2
    <3> QED BY <2>5, <3>1, <3>3
  <2>7. PP!IsMapped(PP!HeapPage(i))
    BY <2>1, <2>3, <2>6 DEF PP!IInv, PP!HeapMapped, PP!Ready
  <2>8. P!IsMapped(P!HeapPage(i))
    BY <2>7, SameMap DEF P!IsMapped, PP!IsMapped, P!NONE, PP!NONE
  <2> QED BY <2>8 DEF i
<1> QED BY <1>1, KernelHeapInvariant, PTL
=============================================================================
