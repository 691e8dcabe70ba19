------------------------------- MODULE KMalloc -------------------------------
(***************************************************************************)
(* The kernel heap, src/kmalloc: a singly linked list of blocks, each with *)
(* a t_mem_infos header in front of its memory, kept in address order      *)
(* between the t_page_infos at the start of the heap and max_pos.          *)
(*                                                                         *)
(* Addresses are offsets from the first heap page.  The two list walks     *)
(* (mem_search_place, mem_rm_value) are modelled node by node: they follow *)
(* the next pointers stored in the headers.  A header absorbed by a merge  *)
(* or cut off with the pages above the break leaves the domain of hdr, so  *)
(* a walk that reached it would leave the domain too.                      *)
(*                                                                         *)
(* sbrk is an oracle here that succeeds or fails (ok); KernelHeap replaces *)
(* it by the sbrk of pages.c.  An address has WIDTH values (2^32), and a   *)
(* request that is large enough wraps around.  What follows once a caller  *)
(* was given memory that is not there is not modelled (pc = "wrapped").    *)
(***************************************************************************)
EXTENDS Integers

CONSTANTS
  SIZEOF_PAGE_INFOS,   \* sizeof(t_page_infos)
  SIZEOF_MEM_INFOS,    \* sizeof(t_mem_infos)
  PAGESIZE,            \* getpagesize()
  WIDTH,               \* values of a word
  HEAP_BASE,           \* address of the first heap page
  MaxPages,            \* bound: pages sbrk can give the heap
  Sizes                \* bound: sizes callers ask for, 0 included

ASSUME KMallocAssumption ==
  /\ SIZEOF_PAGE_INFOS \in Nat \ {0}
  /\ SIZEOF_MEM_INFOS \in Nat \ {0}
  /\ PAGESIZE \in Nat \ {0}
  /\ WIDTH \in Nat /\ HEAP_BASE \in Nat
  /\ MaxPages \in Nat
  /\ HEAP_BASE + SIZEOF_PAGE_INFOS + MaxPages * PAGESIZE < WIDTH
  /\ Sizes \subseteq 0..(WIDTH - 1) /\ 0 \in Sizes

VARIABLES
  first,      \* get_first_value has set up the heap
  nb_pages,   \* page_infos->nb_pages
  max_pos,    \* page_infos->max_pos
  hdr,        \* t_mem_infos stored at each list address
  pc,         \* "idle", "search" (mem_search_place), "rm" (mem_rm_value),
              \* "dump" (mem_dump), "fault", "wrapped"
  cur,        \* mem_infos, the node a walk is at
  aux,        \* mem_search_place: min_avaible_place; mem_rm_value: last
  size,       \* argument of the running allocation
  asked,      \* history: bytes its caller needs
  ptr,        \* argument of the running free, or block that realloc replaces
  live,       \* history: pointer -> size of the allocations callers hold
  lost        \* history: blocks realloc left behind

vars == <<first, nb_pages, max_pos, hdr, pc, cur, aux, size, asked, ptr, live, lost>>
heap == <<first, nb_pages, max_pos, hdr>>

NULL == -1
HDR == SIZEOF_MEM_INFOS
FirstBlock == SIZEOF_PAGE_INFOS
Addr == 0..(SIZEOF_PAGE_INFOS + (MaxPages + 1) * PAGESIZE)

(* An address as an offset from the heap, after an addition.               *)
Wrap(a) == IF HEAP_BASE + a >= WIDTH THEN a - WIDTH ELSE a

(* End of the memory the heap believes it owns.                            *)
Limit(pages) == SIZEOF_PAGE_INFOS + pages * PAGESIZE

Header(a, sz, free) ==
  [size |-> sz, is_free |-> free, begin |-> a + HDR, next |-> Wrap(a + HDR + sz)]

Put(h, a, v) == [x \in DOMAIN h \cup {a} |-> IF x = a THEN v ELSE h[x]]
Cut(h, S) == [x \in DOMAIN h \ S |-> h[x]]

-----------------------------------------------------------------------------

Init ==
  /\ first = FALSE
  /\ nb_pages = 0
  /\ max_pos = 0
  /\ hdr = [a \in {} |-> Header(0, 0, FALSE)]
  /\ pc = "idle"
  /\ cur = 0
  /\ aux = NULL
  /\ size = 0
  /\ asked = 0
  /\ ptr = NULL
  /\ live = [p \in {} |-> 0]
  /\ lost = {}

(* Mutant: counts both pages that sbrk mapped for the first request.       *)
FirstCountsTwo ==
  /\ first' = TRUE
  /\ IF first
     THEN UNCHANGED <<nb_pages, max_pos>>
     ELSE nb_pages' = 2 /\ max_pos' = FirstBlock
  /\ UNCHANGED hdr

(* get_first_value: the first call takes one page and room for page_infos. *)
get_first_value ==
  /\ first' = TRUE
  /\ IF first
     THEN UNCHANGED <<nb_pages, max_pos>>
     ELSE nb_pages' = 1 /\ max_pos' = FirstBlock
  /\ UNCHANGED hdr

(* ok: sbrk answered the request for the first page, if one was made.      *)
FirstFails(ok) == ~first /\ (~ok \/ MaxPages = 0)

-----------------------------------------------------------------------------
(* Allocation.  replaced is the block that realloc moves away from.        *)

Done(newlive, newlost) ==
  /\ live' = newlive
  /\ lost' = newlost
  /\ cur' = 0
  /\ aux' = NULL
  /\ size' = 0
  /\ asked' = 0
  /\ ptr' = NULL

(* The caller gets NULL and keeps what it had.                             *)
ReturnNull == pc' = "idle" /\ Done(live, lost)

(* The caller gets p; realloc has copied the old block and dropped it      *)
(* without freeing it.                                                     *)
ReturnBlock(p) ==
  Done([q \in (DOMAIN live \ {ptr}) \cup {p} |-> IF q = p THEN asked ELSE live[q]],
       IF ptr = NULL THEN lost ELSE lost \cup {ptr - HDR})

mem_add_value(s, need, replaced, ok) ==
  IF FirstFails(ok)
  THEN UNCHANGED vars
  ELSE /\ get_first_value
       /\ pc' = "search"
       /\ cur' = FirstBlock
       /\ aux' = NULL
       /\ size' = s
       /\ asked' = need
       /\ ptr' = replaced
       /\ UNCHANGED <<live, lost>>

kmalloc(s, ok) ==
  /\ pc = "idle"
  /\ IF s = 0 THEN UNCHANGED vars ELSE mem_add_value(s, s, NULL, ok)

(* calloc clears exactly the bytes it asked for, all inside its block; the *)
(* product has the width of a word.                                        *)
calloc(nmemb, s, ok) ==
  LET total_size == (nmemb * s) % WIDTH
  IN /\ pc = "idle"
     /\ total_size \in Sizes
     /\ IF total_size = 0
        THEN UNCHANGED vars
        ELSE mem_add_value(total_size, nmemb * s, NULL, ok)

(* Mutant: is_free is not tested.                                          *)
BetterUsed(a) ==
  /\ hdr[a].size >= size
  /\ aux = NULL \/ hdr[a].size < hdr[aux].size

(* Mutant: the first block that is large enough.                           *)
BetterFirst(a) ==
  /\ hdr[a].is_free
  /\ hdr[a].size >= size
  /\ aux = NULL

(* mem_search_place, one list node: remember the smallest free block that  *)
(* is large enough, the first one among equals.                            *)
Better(a) ==
  /\ hdr[a].is_free
  /\ hdr[a].size >= size
  /\ aux = NULL \/ hdr[a].size < hdr[aux].size

search_step ==
  /\ pc = "search"
  /\ cur < max_pos
  /\ aux' = IF Better(cur) THEN cur ELSE aux
  /\ cur' = hdr[cur].next
  /\ UNCHANGED <<heap, pc, size, asked, ptr, live, lost>>

(* prepare_split_value: cut the rest off as a free block when a header and *)
(* at least one byte fit in it.                                            *)
prepare_split_value(a) ==
  LET free_size == hdr[a].size - size
      rest == hdr[a].begin + size
  IN IF free_size >= HDR + 1
     THEN Put(Put(hdr, rest, Header(rest, free_size - HDR, TRUE)), a,
              [hdr[a] EXCEPT !.is_free = FALSE, !.size = size, !.next = rest])
     ELSE [hdr EXCEPT ![a].is_free = FALSE]

search_hit ==
  /\ pc = "search"
  /\ cur >= max_pos
  /\ aux # NULL
  /\ hdr' = prepare_split_value(aux)
  /\ pc' = "idle"
  /\ ReturnBlock(hdr[aux].begin)
  /\ UNCHANGED <<first, nb_pages, max_pos>>

(* Mutant: the header of the new block is not counted.                     *)
AddForgetsHeader ==
  LET need == Wrap(max_pos + size)
  IN IF need > Limit(nb_pages)
     THEN (need - Limit(nb_pages)) \div PAGESIZE + 1
     ELSE 0

(* pagesize_add_update: how many pages the heap asks sbrk for.             *)
pagesize_add_update ==
  LET need == Wrap(max_pos + HDR + size)
  IN IF need > Limit(nb_pages)
     THEN (need - Limit(nb_pages)) \div PAGESIZE + 1
     ELSE 0

(* sbrk takes a ssize_t: an amount beyond it counts as negative, or as 0,  *)
(* and sbrk reports success.                                               *)
SbrkGrows(pages) == pages > 0 /\ pages * PAGESIZE < WIDTH \div 2

(* The new block ends where an address wrapped around, or its pages were   *)
(* never asked for.                                                        *)
Phantom(pages) ==
  \/ HEAP_BASE + max_pos + HDR + size >= WIDTH
  \/ pages > 0 /\ ~SbrkGrows(pages)

search_append(ok) ==
  LET pages == pagesize_add_update
  IN /\ pc = "search"
     /\ cur >= max_pos
     /\ aux = NULL
     /\ IF SbrkGrows(pages) /\ (~ok \/ nb_pages + pages > MaxPages)
        THEN /\ ReturnNull
             /\ UNCHANGED heap
        ELSE /\ nb_pages' = nb_pages + pages
             /\ hdr' = Put(hdr, max_pos, Header(max_pos, size, FALSE))
             /\ max_pos' = Wrap(max_pos + HDR + size)
             /\ pc' = IF Phantom(pages) THEN "wrapped" ELSE "idle"
             /\ ReturnBlock(max_pos + HDR)
             /\ UNCHANGED first

-----------------------------------------------------------------------------
(* free *)

mem_rm_value(p, ok) ==
  IF FirstFails(ok)
  THEN /\ pc' = "fault"     \* page_infos is NULL and is dereferenced
       /\ UNCHANGED <<heap, cur, aux, size, asked, ptr, live, lost>>
  ELSE /\ get_first_value
       /\ pc' = "rm"
       /\ cur' = FirstBlock
       /\ aux' = FirstBlock
       /\ ptr' = p
       /\ UNCHANGED <<size, asked, live, lost>>

(* Callers free a live pointer, NULL, or a pointer they freed before and   *)
(* that no live block has got since.                                       *)
MayFree(p) ==
  p \in DOMAIN live \/ ~(\E a \in DOMAIN hdr : hdr[a].begin = p /\ ~hdr[a].is_free)

free(p, ok) ==
  /\ pc = "idle"
  /\ MayFree(p)
  /\ mem_rm_value(p, ok)

(* Mutant: the walk does not advance.                                      *)
RmStuck ==
  /\ pc = "rm"
  /\ cur < max_pos
  /\ hdr[cur].begin # ptr
  /\ aux' = cur
  /\ UNCHANGED <<heap, pc, cur, size, asked, ptr, live, lost>>

rm_step ==
  /\ pc = "rm"
  /\ cur < max_pos
  /\ hdr[cur].begin # ptr
  /\ aux' = cur
  /\ cur' = hdr[cur].next
  /\ UNCHANGED <<heap, pc, size, asked, ptr, live, lost>>

(* Mutant: the block behind is never merged.                               *)
AfterIgnored == FALSE

(* merge_freed_ptr: the block behind is found by address, the one before   *)
(* is the node the walk came from.                                         *)
AfterMerges ==
  LET after == cur + HDR + hdr[cur].size
  IN after < max_pos /\ hdr[after].is_free

(* Mutant: the block before is merged although it is in use.               *)
BeforeUsed == aux # cur

BeforeMerges == aux # cur /\ hdr[aux].is_free

merge_freed_ptr == IF BeforeMerges THEN aux ELSE cur

MergedSize ==
  LET after == cur + HDR + hdr[cur].size
      own == hdr[cur].size + (IF AfterMerges THEN HDR + hdr[after].size ELSE 0)
  IN IF BeforeMerges THEN hdr[aux].size + HDR + own ELSE own

Absorbed ==
  (IF AfterMerges THEN {cur + HDR + hdr[cur].size} ELSE {})
    \cup (IF BeforeMerges THEN {cur} ELSE {})

(* Mutant: one page too many is given back.                                *)
RmOnePageMore(m, sz) ==
  IF m + HDR + sz >= max_pos THEN (Limit(nb_pages) - m) \div PAGESIZE + 1 ELSE 0

(* pagesize_rm_update: whole pages above the header of a block at the end  *)
(* of the list.                                                            *)
pagesize_rm_update(m, sz) ==
  IF m + HDR + sz >= max_pos THEN (Limit(nb_pages) - m) \div PAGESIZE ELSE 0

rm_found ==
  LET m == merge_freed_ptr
      pages == pagesize_rm_update(m, MergedSize)
      merged == Put(Cut(hdr, Absorbed), m, Header(m, MergedSize, TRUE))
  IN /\ pc = "rm"
     /\ cur < max_pos
     /\ hdr[cur].begin = ptr
     /\ nb_pages' = nb_pages - pages
     /\ max_pos' = IF pages > 0 THEN m ELSE max_pos
     /\ hdr' = IF pages > 0 THEN Cut(merged, {m}) ELSE merged
     /\ pc' = "idle"
     /\ Done([q \in DOMAIN live \ {ptr} |-> live[q]], lost)
     /\ UNCHANGED first

rm_not_found ==
  /\ pc = "rm"
  /\ cur >= max_pos
  /\ ReturnNull
  /\ UNCHANGED heap

-----------------------------------------------------------------------------

realloc(p, s, ok) ==
  /\ pc = "idle"
  /\ p \in DOMAIN live \cup {NULL}
  /\ \/ /\ p # NULL
        /\ s = 0
        /\ mem_rm_value(p, ok)
     \/ /\ p = NULL
        /\ kmalloc(s, ok)
     \/ /\ p # NULL
        /\ s # 0
        /\ hdr[p - HDR].size >= s
        /\ live' = [live EXCEPT ![p] = s]
        /\ UNCHANGED <<heap, pc, cur, aux, size, asked, ptr, lost>>
     \/ /\ p # NULL
        /\ s # 0
        /\ hdr[p - HDR].size < s
        /\ mem_add_value(s, s, p, ok)

-----------------------------------------------------------------------------

(* mem_dump prints the used blocks, and sets the heap up if nothing has.   *)
mem_dump(ok) ==
  /\ pc = "idle"
  /\ IF FirstFails(ok)
     THEN pc' = "fault" /\ UNCHANGED <<heap, cur>>
     ELSE /\ get_first_value
          /\ pc' = "dump"
          /\ cur' = FirstBlock
  /\ UNCHANGED <<aux, size, asked, ptr, live, lost>>

dump_step ==
  /\ pc = "dump"
  /\ cur < max_pos
  /\ cur' = hdr[cur].next
  /\ UNCHANGED <<heap, pc, aux, size, asked, ptr, live, lost>>

dump_end ==
  /\ pc = "dump"
  /\ cur >= max_pos
  /\ ReturnNull
  /\ UNCHANGED heap

(* The page fault handler spins for ever; a heap that wrapped around is    *)
(* not followed further.                                                   *)
page_fault_handler ==
  /\ pc \in {"fault", "wrapped"}
  /\ UNCHANGED vars

Walk ==
  \/ search_step
  \/ search_hit
  \/ \E ok \in BOOLEAN : search_append(ok)
  \/ rm_step
  \/ rm_found
  \/ rm_not_found
  \/ dump_step
  \/ dump_end

Call ==
  \E ok \in BOOLEAN :
    \/ \E s \in Sizes : kmalloc(s, ok)
    \/ \E nmemb, s \in Sizes : calloc(nmemb, s, ok)
    \/ mem_dump(ok)
    \/ \E p \in Addr \cup {NULL} : free(p, ok)
    \/ \E p \in Addr \cup {NULL}, s \in Sizes : realloc(p, s, ok)

Next == Call \/ Walk \/ page_fault_handler

Spec == Init /\ [][Next]_vars

(* A call that has started keeps executing: no handler preempts it for     *)
(* ever, and nothing else uses the heap meanwhile.                         *)
FairSpec == Spec /\ WF_vars(Walk)

-----------------------------------------------------------------------------

Block == [size : Nat, is_free : BOOLEAN, begin : Nat, next : Nat]

(* Type invariant.                                                         *)
TypeOK ==
  /\ first \in BOOLEAN
  /\ nb_pages \in 0..MaxPages
  /\ max_pos \in Nat
  /\ DOMAIN hdr \subseteq Nat
  /\ hdr \in [DOMAIN hdr -> Block]
  /\ pc \in {"idle", "search", "rm", "dump", "fault", "wrapped"}
  /\ cur \in Nat
  /\ aux \in Nat \cup {NULL}
  /\ size \in Sizes /\ asked \in Nat
  /\ ptr \in Nat \cup {NULL}
  /\ DOMAIN live \subseteq Nat
  /\ live \in [DOMAIN live -> Nat]
  /\ lost \subseteq Nat

(* The list never outgrows the memory that sbrk gave the heap.             *)
InsideLimit == first => FirstBlock <= max_pos /\ max_pos <= Limit(nb_pages)

(* The headers form one list in address order that tiles the heap from the *)
(* first block to max_pos, inside the memory of sbrk, without gap or       *)
(* overlap, whatever splits, merges and page releases happened before.     *)
Tiling ==
  /\ InsideLimit
  /\ max_pos > FirstBlock => FirstBlock \in DOMAIN hdr
  /\ \A a \in DOMAIN hdr :
       /\ a >= FirstBlock
       /\ hdr[a].size >= 1
       /\ hdr[a].begin = a + HDR
       /\ hdr[a].next = a + HDR + hdr[a].size
       /\ hdr[a].next = max_pos \/ hdr[a].next \in DOMAIN hdr
       /\ hdr[a].next <= max_pos
       /\ \A b \in DOMAIN hdr : a < b => hdr[a].next <= b

(* free coalesces completely: two neighbouring blocks are never both free. *)
Coalesced ==
  \A a \in DOMAIN hdr :
    hdr[a].is_free /\ hdr[a].next \in DOMAIN hdr
      => ~hdr[hdr[a].next].is_free

(* Every allocation a caller holds is a used block at least as large as    *)
(* asked for, and every used block is held by a caller or was abandoned by *)
(* realloc: no merge or split frees or leaks somebody's block.             *)
Ownership ==
  /\ \A p \in DOMAIN live :
       /\ p - HDR \in DOMAIN hdr
       /\ ~hdr[p - HDR].is_free
       /\ hdr[p - HDR].size >= live[p]
  /\ \A a \in DOMAIN hdr :
       ~hdr[a].is_free => a + HDR \in DOMAIN live \/ a \in lost

(* A walk stands on a list header or at the end of the list, never on a    *)
(* stale one; what it remembers is a header before it; the block realloc   *)
(* replaces stays the caller's until it returns.                           *)
WalkInv ==
  /\ pc \in {"search", "rm", "dump"} =>
       /\ first
       /\ cur \in DOMAIN hdr \/ cur = max_pos
  /\ pc = "search" => aux = NULL \/ (aux \in DOMAIN hdr /\ aux < cur
                                     /\ hdr[aux].is_free /\ hdr[aux].size >= size)
  /\ pc = "search" => (ptr = NULL \/ ptr \in DOMAIN live) /\ size = asked
  /\ pc = "rm" => aux = cur \/ (aux \in DOMAIN hdr /\ hdr[aux].next = cur)

(* The search is a best fit: a free block that was large enough is never   *)
(* passed over for a larger one or for fresh memory from sbrk.             *)
BestFit ==
  pc = "search" /\ cur >= max_pos =>
    \A a \in DOMAIN hdr :
      hdr[a].is_free /\ hdr[a].size >= size
        => aux # NULL /\ hdr[aux].size <= hdr[a].size

(* Every call that walks the list comes to its end and returns.            *)
CallsReturn == (pc \in {"search", "rm", "dump"}) ~> (pc = "idle")

(* A caller that was not given NULL was given memory: the bytes it asked   *)
(* for lie below the end of what sbrk can ever give (test.c:25 counts them *)
(* as allocated).                                                          *)
MemoryGiven == \A p \in DOMAIN live : p + live[p] <= Limit(MaxPages)

Abstract == INSTANCE HeapSpec
              WITH brk <- IF first THEN Limit(nb_pages) ELSE 0

(* The heap implements the abstract allocator.                             *)
Implements == Abstract!Spec
=============================================================================
