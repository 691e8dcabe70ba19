---------------------------- MODULE PagingProofs ----------------------------
(***************************************************************************)
(* Proofs about Paging, for every number of entries of a table, every page *)
(* and frame size and every amount of RAM.                                 *)
(***************************************************************************)
EXTENDS Paging, Arithmetic, TLAPS

-----------------------------------------------------------------------------
(* Bounds, and bytes as pages *)

LEMMA Consts ==
  /\ ENTRIES \in Nat /\ ENTRIES >= 1 /\ FRAME_SIZE \in Nat /\ FRAME_SIZE >= 1
  /\ HEAP_PDE \in Nat /\ KERNEL_PDE \in Nat /\ 1 <= HEAP_PDE /\ HEAP_PDE < KERNEL_PDE
  /\ KERNEL_PDE + 2 < ENTRIES
  /\ PAGE_TABLES_PDE = KERNEL_PDE + 1 /\ FRAMES_PDE = KERNEL_PDE + 2
  /\ RAM_BASE \in Nat /\ RAM_BASE < ENTRIES
  /\ Increments \subseteq Int /\ SIZEOF_FRAME \in Nat /\ SIZEOF_FRAME >= 1
<1>1. /\ ENTRIES \in Nat \ {0} /\ FRAME_SIZE \in Nat \ {0} /\ SIZEOF_FRAME \in Nat \ {0}
      /\ KERNEL_PDE \in Nat /\ HEAP_PDE \in 1..(KERNEL_PDE - 1)
      /\ FRAMES_PDE < ENTRIES
      /\ RAM_BASE \in 0..(ENTRIES - 1) /\ Increments \subseteq Int
  BY PagingAssumption
<1> QED BY ONLY <1>1 DEF PAGE_TABLES_PDE, FRAMES_PDE

(* Pages(b) is the number of pages that b bytes begin.                     *)
LEMMA PagesOf ==
  ASSUME NEW b \in Nat
  PROVE  /\ Pages(b) \in Nat
         /\ b <= Pages(b) * FRAME_SIZE
         /\ \A i \in Nat : i < Pages(b) <=> i * FRAME_SIZE < b
<1> DEFINE F == FRAME_SIZE
           q == b \div F
           r == b % F
<1>1. F \in Nat /\ F >= 1
  BY Consts
<1>2. q \in Nat /\ r \in 0..(F - 1) /\ b = q * F + r
  BY <1>1, DivMod
<1>3. Pages(b) = q + (IF r > 0 THEN 1 ELSE 0)
  BY DEF Pages
<1> HIDE DEF F, q, r
<1>4. Pages(b) \in Nat
  BY <1>2, <1>3
<1>5. q * F \in Nat /\ (q + 1) * F = q * F + F
  BY <1>1, <1>2
<1>6. b <= Pages(b) * F
  BY <1>1, <1>2, <1>3, <1>5
<1>7. ASSUME NEW i \in Nat PROVE i < Pages(b) <=> i * F < b
  <2>1. i * F \in Nat /\ (i < q => i * F + F <= q * F) /\ (q < i => q * F + F <= i * F)
    BY <1>1, <1>2, MulMono
  <2>2. i = q => i * F = q * F
    OBVIOUS
  <2> QED BY ONLY <1>1, <1>2, <1>3, <1>5, <2>1, <2>2, i \in Nat
<1> QED BY <1>4, <1>6, <1>7 DEF F

LEMMA PagesMono ==
  ASSUME NEW a \in Nat, NEW b \in Nat
  PROVE  /\ a <= b => Pages(a) <= Pages(b)
         /\ Pages(a + b) <= Pages(a) + Pages(b)
         /\ a >= 1 => Pages(a) >= 1
         /\ Pages(0) = 0
<1>1. /\ Pages(a) \in Nat /\ Pages(b) \in Nat /\ Pages(a + b) \in Nat /\ Pages(0) \in Nat
      /\ FRAME_SIZE \in Nat /\ FRAME_SIZE >= 1
  BY PagesOf, Consts, a + b \in Nat, 0 \in Nat
<1>2. a <= b => Pages(a) <= Pages(b)
  <2>1. a <= Pages(a) * FRAME_SIZE
    BY PagesOf
  <2>2. Pages(b) \in Nat /\ (Pages(a) < Pages(b) <=> Pages(a) * FRAME_SIZE < b)
    BY <1>1, PagesOf
  <2>3. b <= Pages(b) * FRAME_SIZE /\ Pages(b) * FRAME_SIZE \in Nat /\ Pages(a) * FRAME_SIZE \in Nat
    BY <1>1, PagesOf, MulMono
  <2>4. Pages(b) < Pages(a) <=> Pages(b) * FRAME_SIZE < a
    BY <1>1, PagesOf
  <2> QED BY <1>1, <2>3, <2>4
<1>3. Pages(a + b) <= Pages(a) + Pages(b)
  <2> DEFINE p == Pages(a) + Pages(b)
  <2>1. a <= Pages(a) * FRAME_SIZE /\ b <= Pages(b) * FRAME_SIZE
    BY PagesOf
  <2>2. p * FRAME_SIZE = Pages(a) * FRAME_SIZE + Pages(b) * FRAME_SIZE
    BY <1>1
  <2>3. Pages(a) * FRAME_SIZE \in Nat /\ Pages(b) * FRAME_SIZE \in Nat /\ p \in Nat
    BY <1>1, MulMono
  <2>4. p < Pages(a + b) <=> p * FRAME_SIZE < a + b
    BY <2>3, PagesOf, a + b \in Nat
  <2> QED BY <1>1, <2>1, <2>2, <2>3, <2>4
<1>4. a >= 1 => Pages(a) >= 1
  <2>1. 0 < Pages(a) <=> 0 * FRAME_SIZE < a
    BY PagesOf, 0 \in Nat
  <2> QED BY <1>1, <2>1
<1>5. Pages(0) = 0
  <2>1. 0 < Pages(0) <=> 0 * FRAME_SIZE < 0
    BY PagesOf, 0 \in Nat
  <2> QED BY <1>1, <2>1
<1> QED BY <1>2, <1>3, <1>4, <1>5

-----------------------------------------------------------------------------
(* The directory and the tables *)

PdeType == [pres : BOOLEAN, big : BOOLEAN, ptaddr : Nat]
PteType == [pres : BOOLEAN, addr : Nat]
Other == Dir \ {KERNEL_PDE, PAGE_TABLES_PDE}

MapType == pde \in [Dir -> PdeType] /\ pte \in [Table -> [Dir -> PteType]]

(* The kernel and the page tables are in 4 MB pages; every other entry of  *)
(* the directory has its own table, present or not.                        *)
Shape ==
  /\ pde[KERNEL_PDE] = BigPde(0) /\ pde[PAGE_TABLES_PDE] = BigPde(1)
  /\ \A d \in Other : pde[d].big = FALSE /\ pde[d].ptaddr = ENTRIES + d

(* A step that takes nothing away from the directory or a table.           *)
Extended ==
  /\ \A d \in Dir : /\ pde'[d].big = pde[d].big /\ pde'[d].ptaddr = pde[d].ptaddr
                    /\ pde[d].pres = TRUE => pde'[d].pres = TRUE
  /\ \A t \in Table, i \in Dir : pte[t][i].pres = TRUE => pte'[t][i] = pte[t][i]

LEMMA PageParts ==
  ASSUME NEW v \in VPages
  PROVE  /\ v \in Nat /\ v \div ENTRIES \in Dir /\ v % ENTRIES \in Dir
         /\ v = (v \div ENTRIES) * ENTRIES + (v % ENTRIES)
<1>1. ENTRIES \in Nat /\ ENTRIES >= 1 /\ v \in Nat /\ v < ENTRIES * ENTRIES
  BY Consts DEF VPages
<1>2. /\ v \div ENTRIES \in Nat /\ v % ENTRIES \in 0..(ENTRIES - 1)
      /\ v = (v \div ENTRIES) * ENTRIES + (v % ENTRIES)
  BY <1>1, DivMod
<1>3. v \div ENTRIES < ENTRIES
  <2> DEFINE q == v \div ENTRIES
  <2>1. q * ENTRIES \in Nat /\ (ENTRIES <= q <=> ENTRIES * ENTRIES <= q * ENTRIES)
    BY <1>1, <1>2, MulMono
  <2> HIDE DEF q
  <2>2. q \in Nat /\ q * ENTRIES <= v
    BY <1>1, <1>2, <2>1 DEF q
  <2>3. ENTRIES * ENTRIES \in Nat
    BY <1>1
  <2>4. ~(ENTRIES <= q)
    BY ONLY <1>1, <2>1, <2>2, <2>3
  <2>5. q < ENTRIES
    BY ONLY <1>1, <2>2, <2>4
  <2> QED BY <2>5 DEF q
<1> QED BY <1>1, <1>2, <1>3 DEF Dir

LEMMA PageOf ==
  ASSUME NEW d \in Dir, NEW i \in Dir
  PROVE  /\ d * ENTRIES + i \in VPages
         /\ (d * ENTRIES + i) \div ENTRIES = d /\ (d * ENTRIES + i) % ENTRIES = i
<1>1. ENTRIES \in Nat /\ ENTRIES >= 1 /\ d \in Nat /\ i \in 0..(ENTRIES - 1) /\ d < ENTRIES
  BY Consts DEF Dir
<1>2. /\ d * ENTRIES + i \in Nat
      /\ (d * ENTRIES + i) \div ENTRIES = d /\ (d * ENTRIES + i) % ENTRIES = i
  BY <1>1, DivModOf
<1>3. d * ENTRIES + ENTRIES <= ENTRIES * ENTRIES /\ d * ENTRIES \in Nat
  BY <1>1, MulMono
<1>4. d * ENTRIES + i < ENTRIES * ENTRIES /\ ENTRIES * ENTRIES \in Nat
  BY ONLY <1>1, <1>3
<1> QED BY <1>2, <1>4 DEF VPages

(* The entry of a page, as the processor and map_pages find it.            *)
LEMMA EntryOf ==
  ASSUME MapType, Shape, NEW v \in VPages
  PROVE  LET d == v \div ENTRIES
             i == v % ENTRIES
         IN /\ d \in Dir /\ i \in Dir /\ pde[d] \in PdeType
            /\ d \in Other => /\ ENTRIES + d \in Table /\ pte[ENTRIES + d][i] \in PteType
                              /\ PteOf(v) = pte[ENTRIES + d][i] /\ pde[d].big = FALSE
            /\ d \notin Other => pde[d].pres = TRUE /\ pde[d].big = TRUE
<1> DEFINE d == v \div ENTRIES
           i == v % ENTRIES
<1>1. d \in Dir /\ i \in Dir
  BY PageParts
<1>2. d \in Other => ENTRIES + d \in Table
  BY <1>1, Consts DEF Dir, Table, Other
<1>3. d \in Other => PteOf(v) = pte[ENTRIES + d][i] /\ pde[d].big = FALSE
  BY <1>1 DEF PteOf, Shape
<1>4. d \notin Other => pde[d].pres = TRUE /\ pde[d].big = TRUE
  BY <1>1 DEF Other, Shape, BigPde
<1> QED BY <1>1, <1>2, <1>3, <1>4 DEF MapType

(* What is mapped stays mapped to the same page.                           *)
LEMMA TranslateKept ==
  ASSUME MapType, MapType', Shape, Shape', Extended, NEW v \in VPages, IsMapped(v)
  PROVE  Translate(v)' = Translate(v)
<1> DEFINE d == v \div ENTRIES
           i == v % ENTRIES
<1>1. d \in Dir /\ i \in Dir /\ pde[d] \in PdeType /\ pde'[d] \in PdeType
  BY EntryOf DEF MapType
<1>2. pde[d].pres = TRUE /\ pde'[d].pres = TRUE
  BY <1>1 DEF IsMapped, Translate, Extended, PdeType
<1>3. pde'[d].big = pde[d].big /\ pde'[d].ptaddr = pde[d].ptaddr
  BY <1>1 DEF Extended
<1>4. CASE d \in Other
  <2>1. /\ ENTRIES + d \in Table /\ pte[ENTRIES + d][i] \in PteType
        /\ PteOf(v) = pte[ENTRIES + d][i] /\ pde[d].big = FALSE
    BY <1>4, EntryOf
  <2>2. PteOf(v)' = pte'[ENTRIES + d][i]
    BY <1>4 DEF Shape, PteOf
  <2>3. pte[ENTRIES + d][i].pres = TRUE
    BY <1>2, <2>1 DEF IsMapped, Translate, PteType
  <2>4. pte'[ENTRIES + d][i] = pte[ENTRIES + d][i]
    BY <1>1, <2>1, <2>3 DEF Extended
  <2> QED BY <1>2, <1>3, <2>1, <2>2, <2>3, <2>4 DEF Translate
<1>5. CASE d \notin Other
  <2>1. pde[d].big = TRUE
    BY <1>5, EntryOf
  <2> QED BY <1>2, <1>3, <2>1 DEF Translate, Addr4mb
<1> QED BY <1>4, <1>5

(* map_pages and map_io write only entries that were absent.               *)
LEMMA MapEffect ==
  ASSUME MapType, Shape, NEW Seen, NEW addr,
         \A w \in VPages : w \in DOMAIN addr => w \in Seen /\ Mappable(w) /\ addr[w] \in Nat,
         pde' = MapDir(Seen), pte' = MapTables(addr)
  PROVE  /\ MapType' /\ Shape' /\ Extended
         /\ \A w \in VPages : w \in DOMAIN addr => ~IsMapped(w) /\ Translate(w)' = addr[w]
<1>0. KERNEL_PDE \in Dir /\ PAGE_TABLES_PDE \in Dir /\ NONE = -1
  BY Consts DEF Dir, NONE
<1>1. ASSUME NEW d \in Dir
      PROVE  /\ pde'[d] \in PdeType /\ pde'[d].big = pde[d].big
             /\ pde'[d].ptaddr = pde[d].ptaddr
             /\ pde[d].pres = TRUE => pde'[d] = pde[d]
             /\ (\E v \in Seen : v \div ENTRIES = d) => pde'[d].pres = TRUE
  <2>1. pde[d] \in PdeType
    BY DEF MapType
  <2>2. pde'[d] = IF \E v \in Seen : v \div ENTRIES = d
                  THEN [pde[d] EXCEPT !.pres = TRUE] ELSE pde[d]
    BY DEF MapDir
  <2> DEFINE e == [pde[d] EXCEPT !.pres = TRUE]
  <2>3. /\ e \in PdeType /\ e.pres = TRUE /\ e.big = pde[d].big /\ e.ptaddr = pde[d].ptaddr
        /\ pde[d].pres = TRUE => e = pde[d]
    BY <2>1 DEF PdeType
  <2> HIDE DEF e
  <2>4. pde'[d] = IF \E v \in Seen : v \div ENTRIES = d THEN e ELSE pde[d]
    BY <2>2 DEF e
  <2> QED BY <2>1, <2>3, <2>4
<1>2. Shape'
  <2>1. pde[KERNEL_PDE].pres = TRUE /\ pde[PAGE_TABLES_PDE].pres = TRUE
    BY DEF Shape, BigPde
  <2>2. pde'[KERNEL_PDE] = pde[KERNEL_PDE] /\ pde'[PAGE_TABLES_PDE] = pde[PAGE_TABLES_PDE]
    BY <1>0, <1>1, <2>1
  <2> QED BY <1>1, <2>2 DEF Shape, Other
<1>3. ASSUME NEW t \in Table, NEW i \in Dir
      PROVE  LET w == (t - ENTRIES) * ENTRIES + i
             IN /\ w \in VPages /\ t - ENTRIES \in Dir /\ w \div ENTRIES = t - ENTRIES /\ w % ENTRIES = i
                /\ pte'[t][i] = IF w \in DOMAIN addr THEN [pres |-> TRUE, addr |-> addr[w]]
                                ELSE pte[t][i]
  <2>1. t - ENTRIES \in Dir
    BY Consts DEF Table, Dir
  <2>2. pte'[t][i] = IF (t - ENTRIES) * ENTRIES + i \in DOMAIN addr
                     THEN [pres |-> TRUE, addr |-> addr[(t - ENTRIES) * ENTRIES + i]]
                     ELSE pte[t][i]
    BY DEF MapTables
  <2> QED BY <2>1, <2>2, PageOf
<1>4. ASSUME NEW t \in Table, NEW i \in Dir
      PROVE  /\ pte'[t][i] \in PteType
             /\ pte[t][i].pres = TRUE => pte'[t][i] = pte[t][i]
  <2> DEFINE w == (t - ENTRIES) * ENTRIES + i
  <2>1. /\ w \in VPages /\ t - ENTRIES \in Dir /\ w \div ENTRIES = t - ENTRIES /\ w % ENTRIES = i
        /\ pte'[t][i] = IF w \in DOMAIN addr THEN [pres |-> TRUE, addr |-> addr[w]] ELSE pte[t][i]
    BY <1>3
  <2> HIDE DEF w
  <2>2. pte[t][i] \in PteType
    BY DEF MapType
  <2>3. CASE w \in DOMAIN addr
    <3>1. w \in Seen /\ Mappable(w) /\ addr[w] \in Nat
      BY <2>1, <2>3
    <3>2. w \div ENTRIES \in Other
      BY <2>1, <3>1, EntryOf DEF Mappable
    <3>3. PteOf(w) = pte[ENTRIES + (t - ENTRIES)][i]
      BY <2>1, <3>2, EntryOf
    <3>4. ENTRIES + (t - ENTRIES) = t
      BY Consts DEF Table
    <3>5. pte[t][i].pres # TRUE
      BY <3>1, <3>3, <3>4 DEF Mappable
    <3>6. [pres |-> TRUE, addr |-> addr[w]] \in PteType
      BY <3>1 DEF PteType
    <3>7. pte'[t][i] = [pres |-> TRUE, addr |-> addr[w]]
      BY <2>1, <2>3
    <3>8. pte'[t][i] \in PteType
      BY ONLY <3>6, <3>7
    <3> QED BY <3>5, <3>8
  <2>4. CASE w \notin DOMAIN addr
    BY <2>1, <2>2, <2>4
  <2> QED BY <2>3, <2>4
<1>5. MapType'
  <2>1. pde' \in [Dir -> PdeType]
    BY <1>1 DEF MapDir
  <2>2. pte' \in [Table -> [Dir -> PteType]]
    <3>1. ASSUME NEW t \in Table PROVE pte'[t] \in [Dir -> PteType]
      BY <1>4 DEF MapTables
    <3> QED BY <3>1 DEF MapTables
  <2> QED BY <2>1, <2>2 DEF MapType
<1>6. Extended
  BY <1>1, <1>4 DEF Extended
<1>7. ASSUME NEW w \in VPages, w \in DOMAIN addr
      PROVE  ~IsMapped(w) /\ Translate(w)' = addr[w]
  <2> DEFINE d == w \div ENTRIES
             i == w % ENTRIES
  <2>1. w \in Seen /\ Mappable(w) /\ addr[w] \in Nat
    BY <1>7
  <2>2. d \in Other /\ d \in Dir /\ i \in Dir /\ w \in Nat /\ w = d * ENTRIES + i
    BY <2>1, EntryOf, PageParts DEF Mappable
  <2>3. /\ ENTRIES + d \in Table /\ pte[ENTRIES + d][i] \in PteType
        /\ PteOf(w) = pte[ENTRIES + d][i] /\ pde[d].big = FALSE
    BY <2>2, EntryOf
  <2>4. ~IsMapped(w)
    BY <2>1, <2>3 DEF IsMapped, Translate, Mappable
  <2>5. pde'[d].pres = TRUE /\ pde'[d].big = FALSE /\ pde'[d].ptaddr = ENTRIES + d
    BY <1>1, <2>1, <2>2, <2>3 DEF Shape
  <2>6. pte'[ENTRIES + d][i] = [pres |-> TRUE, addr |-> addr[w]]
    <3>1. (ENTRIES + d) - ENTRIES = d
      BY Consts, <2>2 DEF Dir
    <3> HIDE DEF d, i
    <3> QED BY <1>3, <1>7, <2>2, <2>3, <3>1
  <2>7. Translate(w)' = addr[w]
    BY <2>5, <2>6 DEF Translate, PteOf
  <2> QED BY <2>4, <2>7
<1> QED BY <1>2, <1>5, <1>6, <1>7

(* The table of an entry that is not present is empty, so that map_pages   *)
(* shows nothing but what it maps when it makes the entry present.         *)
Clear == \A d \in Other, i \in Dir : pde[d].pres = FALSE => pte[ENTRIES + d][i].pres = FALSE

LEMMA MapOnly ==
  ASSUME MapType, Shape, Clear, NEW Seen, NEW addr,
         \A w \in VPages : w \in DOMAIN addr => w \in Seen /\ Mappable(w) /\ addr[w] \in Nat,
         pde' = MapDir(Seen), pte' = MapTables(addr)
  PROVE  /\ Clear'
         /\ \A w \in VPages : w \notin DOMAIN addr => Translate(w)' = Translate(w)
<1>0. MapType' /\ Shape' /\ Extended
  BY MapEffect
<1>1. ASSUME NEW d \in Dir, pde'[d].pres = FALSE
      PROVE  pde[d].pres = FALSE /\ \A w \in Seen : w \div ENTRIES # d
  <2>1. pde[d] \in PdeType
    BY DEF MapType
  <2>2. [pde[d] EXCEPT !.pres = TRUE].pres = TRUE
    BY <2>1 DEF PdeType
  <2>3. pde'[d] = IF \E w \in Seen : w \div ENTRIES = d
                  THEN [pde[d] EXCEPT !.pres = TRUE] ELSE pde[d]
    BY DEF MapDir
  <2> QED BY <1>1, <2>2, <2>3
<1>2. ASSUME NEW d \in Other, NEW i \in Dir, d * ENTRIES + i \notin DOMAIN addr
      PROVE  pte'[ENTRIES + d][i] = pte[ENTRIES + d][i]
  <2> DEFINE t == ENTRIES + d
  <2>1. t \in Table /\ t - ENTRIES = d
    BY Consts DEF Dir, Table, Other
  <2> HIDE DEF t
  <2>2. pte'[t][i] = IF (t - ENTRIES) * ENTRIES + i \in DOMAIN addr
                     THEN [pres |-> TRUE, addr |-> addr[(t - ENTRIES) * ENTRIES + i]]
                     ELSE pte[t][i]
    BY <2>1 DEF MapTables
  <2> QED BY <1>2, <2>1, <2>2 DEF t
<1>3. Clear'
  <2> SUFFICES ASSUME NEW d \in Other, NEW i \in Dir, pde'[d].pres = FALSE
               PROVE  pte'[ENTRIES + d][i].pres = FALSE
    BY DEF Clear
  <2>1. d \in Dir
    BY DEF Other
  <2>2. pde[d].pres = FALSE /\ \A w \in Seen : w \div ENTRIES # d
    BY <1>1, <2>1
  <2>3. d * ENTRIES + i \notin DOMAIN addr
    BY <2>1, <2>2, PageOf
  <2> QED BY <1>2, <2>2, <2>3 DEF Clear
<1>4. ASSUME NEW w \in VPages, w \notin DOMAIN addr PROVE Translate(w)' = Translate(w)
  <2> DEFINE d == w \div ENTRIES
             i == w % ENTRIES
  <2>1. CASE IsMapped(w)
    BY <1>0, <2>1, TranslateKept
  <2>2. CASE ~IsMapped(w)
    <3>1. d \in Other /\ d \in Dir /\ i \in Dir /\ w = d * ENTRIES + i /\ pde[d] \in PdeType
      <4>1. d \in Dir /\ i \in Dir /\ w = d * ENTRIES + i /\ pde[d] \in PdeType
        BY EntryOf, PageParts
      <4>2. d \notin Other => Translate(w) = Addr4mb(pde[d]) * ENTRIES + i
        BY EntryOf DEF Translate
      <4>3. Addr4mb(pde[d]) * ENTRIES + i \in Nat
        <5>1. pde[d].ptaddr \in Nat /\ i \in Nat
          BY <4>1 DEF PdeType, Dir
        <5>2. Addr4mb(pde[d]) \in Nat
          BY <5>1, DivMod, Consts DEF Addr4mb
        <5> HIDE DEF d, i
        <5>3. Addr4mb(pde[d]) * ENTRIES \in Nat
          BY <5>2, MulMono, Consts
        <5> QED BY <5>1, <5>3
      <4> QED BY <2>2, <4>1, <4>2, <4>3 DEF IsMapped, NONE
    <3>2. /\ PteOf(w) = pte[ENTRIES + d][i] /\ pde[d].big = FALSE
          /\ pte[ENTRIES + d][i] \in PteType
      BY <3>1, EntryOf
    <3>3. pte[ENTRIES + d][i].pres = FALSE
      <4>1. CASE pde[d].pres = FALSE
        BY <3>1, <4>1 DEF Clear
      <4>2. CASE pde[d].pres = TRUE
        <5>1. pte[ENTRIES + d][i].pres => pte[ENTRIES + d][i].addr = NONE
          BY <2>2, <3>2, <4>2 DEF IsMapped, Translate
        <5>2. pte[ENTRIES + d][i].addr \in Nat /\ pte[ENTRIES + d][i].pres \in BOOLEAN
          BY <3>2 DEF PteType
        <5> QED BY <5>1, <5>2 DEF NONE
      <4> QED BY <3>1, <4>1, <4>2 DEF PdeType
    <3>4. pte'[ENTRIES + d][i].pres = FALSE
      BY <1>2, <1>4, <3>1, <3>3
    <3>5. PteOf(w)' = pte'[ENTRIES + d][i] /\ pde'[d].big = FALSE
      BY <1>0, <3>1 DEF Shape, PteOf
    <3>6. Translate(w)' = NONE
      BY <3>4, <3>5 DEF Translate
    <3> QED BY <2>2, <3>6 DEF IsMapped
  <2> QED BY <2>1, <2>2
<1> QED BY <1>3, <1>4

(* The first page that can not be mapped ends the loop of map_pages.       *)
LEMMA MapCountFacts ==
  ASSUME NEW v \in Nat, NEW n \in Nat
  PROVE  LET k == MapCount(v, n)
         IN /\ k \in 0..n
            /\ \A i \in 0..(k - 1) : Mappable(v + i)
            /\ k = n \/ ~Mappable(v + k)
<1> DEFINE S == {k \in 0..n : k = n \/ ~Mappable(v + k)}
<1>1. S \in SUBSET Nat /\ n \in S
  OBVIOUS
<1>2. PICK k \in S : \A j \in S : k <= j
  <2> HIDE DEF S
  <2> QED BY <1>1, LeastNat
<1>3. /\ k \in 0..n
      /\ \A i \in 0..(k - 1) : Mappable(v + i)
      /\ k = n \/ ~Mappable(v + k)
  BY <1>2
<1> QED BY <1>3 DEF MapCount

-----------------------------------------------------------------------------
(* The inductive invariant *)

DirInv ==
  /\ phase = "paging" =>
       /\ pde[KERNEL_PDE] = BigPde(0) /\ pde[PAGE_TABLES_PDE] = BigPde(1)
       /\ \A d \in Other \ {0} : pde[d] = NoPde
  /\ phase = "finalized" =>
       /\ pde[KERNEL_PDE] = BigPde(0) /\ pde[PAGE_TABLES_PDE] = BigPde(1)
       /\ \A d \in Other : pde[d] = NoPde
  /\ phase \in {"tables", "ready"} => Shape

StartInv ==
  /\ ~Ready => kds = 0
  /\ Ready => DOMAIN frame = 0..(FramesCount - 1)

(* The heap grows up to the kernel and no further.                         *)
HeapBound == HeapPage(Pages(kds)) <= KERNEL_PDE * ENTRIES

IInv == TypeOK /\ DirInv /\ StartInv /\ HeapBound /\ KernelIntact /\ HeapMapped

LEMMA MetaFacts ==
  ASSUME TypeOK
  PROVE  /\ FramesCount \in Nat /\ FramesCount >= 1 /\ MetaSize \in Nat /\ MetaSize >= 1
         /\ MetaSize < (ENTRIES - FRAMES_PDE) * ENTRIES * FRAME_SIZE
         /\ MetaSize % (ENTRIES * FRAME_SIZE) # 0
<1>1. ram \in RamLengths
  BY DEF TypeOK
<1>2. /\ ram \in Nat /\ ram > KERNEL_SIZE_IN_RAM
      /\ (ram - KERNEL_SIZE_IN_RAM) * SIZEOF_FRAME < (ENTRIES - FRAMES_PDE) * ENTRIES * FRAME_SIZE
      /\ ((ram - KERNEL_SIZE_IN_RAM) * SIZEOF_FRAME) % (ENTRIES * FRAME_SIZE) # 0
  BY <1>1, PagingAssumption
<1>3. KERNEL_SIZE_IN_RAM \in Nat
  BY Consts DEF KERNEL_SIZE_IN_RAM
<1>4. FramesCount \in Nat /\ FramesCount >= 1
  BY <1>2, <1>3 DEF FramesCount
<1>5. MetaSize \in Nat /\ MetaSize >= 1
  <2>1. SIZEOF_FRAME \in Nat /\ SIZEOF_FRAME >= 1
    BY Consts
  <2>2. FramesCount * SIZEOF_FRAME \in Nat /\ 1 * SIZEOF_FRAME <= FramesCount * SIZEOF_FRAME
    BY <1>4, <2>1, MulMono, 1 \in Nat
  <2> QED BY <2>1, <2>2 DEF MetaSize
<1> QED BY <1>2, <1>4, <1>5 DEF MetaSize, FramesCount

LEMMA InitInv == Init => IInv
<1> SUFFICES ASSUME Init PROVE IInv
  OBVIOUS
<1>1. NoPde \in PdeType /\ NoPte \in PteType
  BY DEF NoPde, NoPte, PdeType, PteType
<1>2. TypeOK
  BY <1>1, ZenonT(60) DEF Init, TypeOK, PdeType, PteType
<1>3. HeapBound
  <2>1. Pages(0) = 0
    BY PagesMono, 0 \in Nat
  <2>2. HEAP_PDE * ENTRIES <= KERNEL_PDE * ENTRIES /\ HEAP_PDE * ENTRIES \in Nat
    BY Consts, MulMono
  <2> QED BY <2>1, <2>2 DEF Init, HeapBound, HeapPage
<1> QED BY <1>2, <1>3 DEF Init, IInv, DirInv, StartInv, KernelIntact, HeapMapped, Ready

(* A step that changes none of these variables.                            *)
LEMMA Frame ==
  ASSUME UNCHANGED <<phase, ram, pde, pte, kds>>
  PROVE  /\ DirInv => DirInv' /\ (HeapBound => HeapBound')
         /\ KernelIntact => KernelIntact' /\ (HeapMapped => HeapMapped')
  BY ZenonT(60) DEF DirInv, HeapBound, KernelIntact, HeapMapped, Ready, Shape, Translate, IsMapped,
         PteOf, MetaPages, MetaSize, FramesCount

(* The boot steps before the frame table.                                  *)
LEMMA BootInv ==
  ASSUME IInv, init_page_directory \/ finalize_pagination \/ tlb_evict \/ init_page_tables
  PROVE  IInv'
<1>0. KERNEL_PDE \in Dir /\ PAGE_TABLES_PDE \in Dir /\ 0 \in Dir /\ KERNEL_PDE # 0
      /\ PAGE_TABLES_PDE # 0 /\ KERNEL_PDE # PAGE_TABLES_PDE
  BY Consts DEF Dir
<1>1. BigPde(0) \in PdeType /\ BigPde(1) \in PdeType /\ NoPde \in PdeType /\ NoPte \in PteType
  BY Consts DEF BigPde, NoPde, NoPte, PdeType, PteType
<1>2. TypeOK /\ DirInv /\ StartInv /\ HeapBound
  BY DEF IInv
<1>3. MapType
  BY <1>2 DEF TypeOK, MapType, PdeType, PteType
<1>4. UNCHANGED <<ram, low, frame, kds>> /\ ~Ready /\ ~Ready'
  BY DEF init_page_directory, finalize_pagination, tlb_evict, init_page_tables, Ready
<1>5. ASSUME phase' \in {"reset", "paging", "finalized", "tables", "ready", "fault"},
             tlb' \in BOOLEAN, MapType', DirInv'
      PROVE  IInv'
  <2>1. TypeOK'
    BY <1>2, <1>4, <1>5 DEF TypeOK, MapType, PdeType, PteType, FramesCount
  <2>2. StartInv' /\ HeapBound'
    BY <1>2, <1>4 DEF StartInv, HeapBound
  <2> QED BY <1>4, <1>5, <2>1, <2>2 DEF IInv, KernelIntact, HeapMapped
<1>6. CASE init_page_directory
  <2>1. ASSUME NEW d \in Dir
        PROVE  pde'[d] = IF d \in {0, KERNEL_PDE} THEN BigPde(0)
                         ELSE IF d = PAGE_TABLES_PDE THEN BigPde(1) ELSE NoPde
    BY <1>0, <1>6 DEF init_page_directory
  <2>2. pde' \in [Dir -> PdeType]
    BY <1>1, <1>6, <2>1 DEF init_page_directory
  <2>3. MapType'
    BY <1>3, <1>6, <2>2 DEF init_page_directory, MapType
  <2>4. DirInv'
    BY <1>0, <1>6, <2>1 DEF init_page_directory, DirInv, Other
  <2> QED BY <1>2, <1>5, <1>6, <2>3, <2>4 DEF init_page_directory, TypeOK
<1>7. CASE finalize_pagination
  <2>1. pde' \in [Dir -> PdeType] /\ \A d \in Dir : pde'[d] = IF d = 0 THEN NoPde ELSE pde[d]
    BY <1>1, <1>3, <1>7 DEF finalize_pagination, MapType
  <2>2. MapType'
    BY <1>3, <1>7, <2>1 DEF finalize_pagination, MapType
  <2>3. DirInv'
    BY <1>0, <1>2, <1>7, <2>1 DEF finalize_pagination, DirInv, Other
  <2> QED BY <1>5, <1>7, <2>2, <2>3 DEF finalize_pagination
<1>8. CASE tlb_evict
  <2>1. MapType' /\ DirInv'
    BY <1>2, <1>3, <1>8, Frame DEF tlb_evict, MapType
  <2> QED BY <1>2, <1>5, <1>8, <2>1 DEF tlb_evict, TypeOK
<1>9. CASE init_page_tables /\ tlb
  <2>1. ASSUME NEW d \in Dir
        PROVE  pde'[d] = IF pde[d].pres THEN pde[d] ELSE [pde[d] EXCEPT !.ptaddr = ENTRIES + d]
    BY <1>9 DEF init_page_tables
  <2>2. ASSUME NEW d \in Dir PROVE ENTRIES + d \in Nat
    BY Consts DEF Dir
  <2>3. ASSUME NEW d \in Dir PROVE pde'[d] \in PdeType
    BY <1>3, <2>1, <2>2 DEF PdeType, MapType
  <2>4. pde' \in [Dir -> PdeType]
    BY <1>9, <2>3 DEF init_page_tables
  <2>5. pte' \in [Table -> [Dir -> PteType]]
    BY <1>1, <1>9 DEF init_page_tables
  <2>6. Shape'
    <3>1. phase = "finalized"
      BY <1>9 DEF init_page_tables
    <3>2. pde'[KERNEL_PDE] = BigPde(0) /\ pde'[PAGE_TABLES_PDE] = BigPde(1)
      <4>1. pde[KERNEL_PDE] = BigPde(0) /\ pde[PAGE_TABLES_PDE] = BigPde(1)
        BY <1>2, <3>1 DEF DirInv
      <4>2. pde[KERNEL_PDE].pres = TRUE /\ pde[PAGE_TABLES_PDE].pres = TRUE
        BY <4>1 DEF BigPde
      <4> QED BY <1>0, <2>1, <4>1, <4>2
    <3>3. ASSUME NEW d \in Other PROVE pde'[d].big = FALSE /\ pde'[d].ptaddr = ENTRIES + d
      <4>1. d \in Dir /\ pde[d] = NoPde
        BY <1>2, <3>1 DEF DirInv, Other
      <4>2. pde[d].pres = FALSE /\ pde[d].big = FALSE /\ pde[d] \in PdeType
        BY <1>1, <4>1 DEF NoPde
      <4>3. pde'[d] = [pde[d] EXCEPT !.ptaddr = ENTRIES + d]
        BY <2>1, <4>1, <4>2
      <4> QED BY <4>2, <4>3 DEF PdeType
    <3> QED BY <3>2, <3>3 DEF Shape
  <2>7. DirInv'
    BY <1>9, <2>6 DEF init_page_tables, DirInv
  <2> QED BY <1>2, <1>5, <1>9, <2>4, <2>5, <2>7 DEF init_page_tables, MapType, TypeOK
<1>10. CASE init_page_tables /\ ~tlb
  <2>1. MapType' /\ DirInv'
    BY <1>3, <1>10 DEF init_page_tables, MapType, DirInv
  <2> QED BY <1>2, <1>5, <1>10, <2>1 DEF init_page_tables, TypeOK
<1> QED BY <1>6, <1>7, <1>8, <1>9, <1>10

(* The kernel and the page tables are where boot put them, by Shape.       *)
LEMMA KernelPages ==
  ASSUME Shape', NEW i \in Dir
  PROVE  /\ Translate(KERNEL_PDE * ENTRIES + i)' = i
         /\ Translate(PAGE_TABLES_PDE * ENTRIES + i)' = ENTRIES + i
<1>1. ENTRIES \in Nat /\ ENTRIES >= 1 /\ KERNEL_PDE \in Dir /\ PAGE_TABLES_PDE \in Dir
  BY Consts DEF Dir
<1>2. 0 * ENTRIES = 0 /\ 0 \div ENTRIES = 0 /\ 1 * ENTRIES = ENTRIES /\ ENTRIES \div ENTRIES = 1
  BY <1>1
<1>3. i \in Nat
  BY DEF Dir
<1>4. ASSUME NEW d \in Dir, NEW a \in {0, 1}, pde'[d] = BigPde(a)
      PROVE  Translate(d * ENTRIES + i)' = a * ENTRIES + i
  <2>1. (d * ENTRIES + i) \div ENTRIES = d /\ (d * ENTRIES + i) % ENTRIES = i
    BY PageOf
  <2>2. pde'[d].pres = TRUE /\ pde'[d].big = TRUE /\ Addr4mb(pde'[d]) = a
    BY <1>2, <1>4 DEF BigPde, Addr4mb
  <2> QED BY <2>1, <2>2 DEF Translate
<1> QED BY <1>1, <1>2, <1>3, <1>4 DEF Shape

(* The page tables that init_page_directory_for_frames fills hold the      *)
(* whole frame table: its page i is in table i \div ENTRIES.               *)
LEMMA FramePages ==
  ASSUME TypeOK
  PROVE  /\ FramesPdes \in Nat /\ FRAMES_PDE + FramesPdes <= ENTRIES /\ MetaPages \in Nat
         /\ \A i \in 0..(MetaPages - 1) :
              /\ FRAMES_PDE + (i \div ENTRIES) \in Dir
              /\ FramePage(FRAMES_PDE + (i \div ENTRIES), i % ENTRIES)
<1> DEFINE S == ENTRIES * FRAME_SIZE
           Q == MetaSize \div S
           m == MetaSize % S
<1>1. /\ ENTRIES \in Nat /\ ENTRIES >= 1 /\ FRAME_SIZE \in Nat /\ FRAME_SIZE >= 1
      /\ FRAMES_PDE \in Nat /\ FRAMES_PDE < ENTRIES
  BY Consts
<1>2. /\ MetaSize \in Nat /\ MetaSize < (ENTRIES - FRAMES_PDE) * ENTRIES * FRAME_SIZE /\ m # 0
  BY MetaFacts
<1>3. S \in Nat /\ S >= 1
  <2>1. 1 * FRAME_SIZE <= ENTRIES * FRAME_SIZE /\ ENTRIES * FRAME_SIZE \in Nat
    BY <1>1, MulMono, 1 \in Nat
  <2> QED BY <1>1, <2>1
<1>4. (ENTRIES - FRAMES_PDE) * ENTRIES * FRAME_SIZE = (ENTRIES - FRAMES_PDE) * S
  BY <1>1
<1> HIDE DEF S
<1>5. Q \in Nat /\ m \in 0..(S - 1) /\ MetaSize = Q * S + m
  BY <1>2, <1>3, DivMod
<1>6. FramesPdes = Q + 1
  BY <1>2, <1>5 DEF FramesPdes, S
<1> DEFINE n == ENTRIES - FRAMES_PDE
<1>7. n \in Nat /\ MetaSize < n * S
  BY <1>1, <1>2, <1>4
<1> HIDE DEF Q, m, n
<1>8. Q < n
  <2>1. n * S \in Nat /\ Q * S \in Nat /\ (n <= Q <=> n * S <= Q * S)
    BY <1>3, <1>5, <1>7, MulMono
  <2>2. ~(n * S <= Q * S)
    BY ONLY <1>2, <1>5, <1>7, <2>1, <1>3
  <2> QED BY ONLY <1>5, <1>7, <2>1, <2>2
<1>9. FRAMES_PDE + FramesPdes <= ENTRIES
  BY <1>1, <1>5, <1>6, <1>8 DEF n
<1>10. MetaPages \in Nat /\ m \in Nat /\ Pages(m) \in Nat
  BY <1>2, <1>3, <1>5, PagesOf DEF MetaPages
<1>11. ASSUME NEW i \in 0..(MetaPages - 1)
       PROVE  /\ FRAMES_PDE + (i \div ENTRIES) \in Dir
              /\ FramePage(FRAMES_PDE + (i \div ENTRIES), i % ENTRIES)
  <2> DEFINE q == i \div ENTRIES
             r == i % ENTRIES
  <2>1. i \in Nat /\ q \in Nat /\ r \in 0..(ENTRIES - 1) /\ i = q * ENTRIES + r
    <3>1. i \in Nat
      BY <1>10
    <3> QED BY <1>1, <3>1, DivMod
  <2>2. i * FRAME_SIZE < MetaSize
    BY <1>2, <1>10, PagesOf DEF MetaPages
  <2> HIDE DEF q, r
  <2>3. i * FRAME_SIZE = q * S + r * FRAME_SIZE
    BY <1>1, <2>1 DEF S
  <2>4. q * S \in Nat /\ r * FRAME_SIZE \in Nat /\ Q * S \in Nat
    BY <1>1, <1>3, <1>5, <2>1, MulMono
  <2>5. q <= Q
    <3>1. Q < q => Q * S + S <= q * S
      BY <1>3, <1>5, <2>1, MulMono
    <3> QED BY ONLY <1>3, <1>5, <2>1, <2>2, <2>3, <2>4, <3>1
  <2>6. q = Q => r < Pages(m)
    <3>1. q = Q => q * S = Q * S
      OBVIOUS
    <3>2. q = Q => r * FRAME_SIZE < m
      BY ONLY <1>3, <1>5, <2>1, <2>2, <2>3, <2>4, <3>1
    <3>3. r \in Nat /\ (r < Pages(m) <=> r * FRAME_SIZE < m)
      BY <1>10, <2>1, PagesOf
    <3> QED BY <3>2, <3>3
  <2>7. FRAMES_PDE + q \in Dir
    BY <1>1, <1>5, <1>8, <2>1, <2>5 DEF n, Dir
  <2>8. FramePage(FRAMES_PDE + q, r)
    <3>1. (FRAMES_PDE + q) - FRAMES_PDE = q
      BY <1>1, <2>1
    <3>2. q \in 0..(FramesPdes - 1) /\ (q < FramesPdes - 1 \/ r < Pages(m))
      BY ONLY <1>5, <1>6, <2>1, <2>5, <2>6
    <3> QED BY <3>1, <3>2 DEF FramePage, m, S
  <2> QED BY <2>7, <2>8 DEF q, r
<1> QED BY <1>5, <1>6, <1>9, <1>10, <1>11

(* init_frame_alloc ends the boot with the frame table mapped.             *)
LEMMA FrameTableMapped ==
  ASSUME IInv, init_frame_alloc
  PROVE  /\ MapType' /\ Shape'
         /\ \A i \in 0..(MetaPages - 1) :
              LET d == FRAMES_PDE + (i \div ENTRIES)
                  p == pte'[ENTRIES + d][i % ENTRIES]
              IN /\ d \in Dir /\ i % ENTRIES \in Dir /\ FRAMES_PDE * ENTRIES + i \in VPages
                 /\ (FRAMES_PDE * ENTRIES + i) \div ENTRIES = d
                 /\ (FRAMES_PDE * ENTRIES + i) % ENTRIES = i % ENTRIES
                 /\ pde'[d].pres = TRUE /\ pde'[d].big = FALSE /\ pde'[d].ptaddr = ENTRIES + d
                 /\ p.pres = TRUE /\ p.addr = 2 * ENTRIES + i
<1>0. /\ ENTRIES \in Nat /\ ENTRIES >= 1 /\ KERNEL_PDE \in Nat
      /\ PAGE_TABLES_PDE = KERNEL_PDE + 1 /\ FRAMES_PDE = KERNEL_PDE + 2
      /\ KERNEL_PDE \in Dir /\ PAGE_TABLES_PDE \in Dir /\ FRAMES_PDE \in Nat
  BY Consts DEF Dir
<1>1. TypeOK /\ Shape /\ phase = "tables"
  BY DEF IInv, DirInv, init_frame_alloc
<1>2. MapType
  BY <1>1 DEF TypeOK, MapType, PdeType, PteType
<1>3. /\ FramesPdes \in Nat /\ FRAMES_PDE + FramesPdes <= ENTRIES /\ MetaPages \in Nat
      /\ \A i \in 0..(MetaPages - 1) :
           /\ FRAMES_PDE + (i \div ENTRIES) \in Dir
           /\ FramePage(FRAMES_PDE + (i \div ENTRIES), i % ENTRIES)
  BY <1>1, FramePages
<1>4. ASSUME NEW d \in Dir
      PROVE  /\ pde'[d] \in PdeType /\ pde'[d].ptaddr = pde[d].ptaddr
             /\ d - FRAMES_PDE \in 0..(FramesPdes - 1) =>
                  pde'[d].pres = TRUE /\ pde'[d].big = FALSE /\ d \in Other
             /\ d - FRAMES_PDE \notin 0..(FramesPdes - 1) => pde'[d] = pde[d]
  <2> DEFINE e == [pde[d] EXCEPT !.pres = TRUE, !.big = FALSE]
  <2>1. pde[d] \in PdeType
    BY <1>2 DEF MapType
  <2>2. e \in PdeType /\ e.pres = TRUE /\ e.big = FALSE /\ e.ptaddr = pde[d].ptaddr
    BY <2>1 DEF PdeType
  <2>3. pde'[d] = IF d - FRAMES_PDE \in 0..(FramesPdes - 1) THEN e ELSE pde[d]
    BY DEF init_frame_alloc, DirWithFrames
  <2> HIDE DEF e
  <2>4. d - FRAMES_PDE \in 0..(FramesPdes - 1) => d \in Other
    BY <1>0, <1>3 DEF Other, Dir
  <2> QED BY <2>1, <2>2, <2>3, <2>4
<1>5. ASSUME NEW t \in Table, NEW i \in Dir
      PROVE  pte'[t][i] =
               IF FramePage(t - ENTRIES, i)
               THEN [pres |-> TRUE,
                     addr |-> 2 * ENTRIES + (t - ENTRIES - FRAMES_PDE) * ENTRIES + i]
               ELSE pte[t][i]
  BY DEF init_frame_alloc, TablesWithFrames
<1>6. MapType'
  <2>1. pde' \in [Dir -> PdeType]
    BY <1>4 DEF init_frame_alloc, DirWithFrames
  <2>2. ASSUME NEW t \in Table, NEW i \in Dir PROVE pte'[t][i] \in PteType
    <3>1. CASE FramePage(t - ENTRIES, i)
      <4> DEFINE c == t - ENTRIES - FRAMES_PDE
      <4>1. c \in Nat /\ i \in Nat
        BY <1>0, <1>3, <3>1 DEF FramePage, Dir
      <4> HIDE DEF c
      <4>2. 2 * ENTRIES + c * ENTRIES + i \in Nat
        BY <1>0, <4>1, MulMono
      <4>3. [pres |-> TRUE, addr |-> 2 * ENTRIES + c * ENTRIES + i] \in PteType
        BY <4>2 DEF PteType
      <4> QED BY <1>5, <3>1, <4>3 DEF c
    <3>2. CASE ~FramePage(t - ENTRIES, i)
      BY <1>2, <1>5, <3>2 DEF MapType
    <3> QED BY <3>1, <3>2
  <2>3. pte' \in [Table -> [Dir -> PteType]]
    <3>1. ASSUME NEW t \in Table PROVE pte'[t] \in [Dir -> PteType]
      BY <2>2 DEF init_frame_alloc, TablesWithFrames
    <3> QED BY <3>1 DEF init_frame_alloc, TablesWithFrames
  <2> QED BY <2>1, <2>3 DEF MapType
<1>7. Shape'
  <2>1. pde'[KERNEL_PDE] = pde[KERNEL_PDE] /\ pde'[PAGE_TABLES_PDE] = pde[PAGE_TABLES_PDE]
    <3>1. /\ KERNEL_PDE - FRAMES_PDE \notin 0..(FramesPdes - 1)
          /\ PAGE_TABLES_PDE - FRAMES_PDE \notin 0..(FramesPdes - 1)
      BY <1>0, <1>3
    <3> QED BY <1>0, <1>4, <3>1
  <2>2. ASSUME NEW d \in Other PROVE pde'[d].big = FALSE /\ pde'[d].ptaddr = ENTRIES + d
    BY <1>1, <1>4 DEF Shape, Other
  <2> QED BY <1>1, <2>1, <2>2 DEF Shape
<1>8. ASSUME NEW i \in 0..(MetaPages - 1)
      PROVE  LET d == FRAMES_PDE + (i \div ENTRIES)
                 p == pte'[ENTRIES + d][i % ENTRIES]
             IN /\ d \in Dir /\ i % ENTRIES \in Dir /\ FRAMES_PDE * ENTRIES + i \in VPages
                /\ (FRAMES_PDE * ENTRIES + i) \div ENTRIES = d
                /\ (FRAMES_PDE * ENTRIES + i) % ENTRIES = i % ENTRIES
                /\ pde'[d].pres = TRUE /\ pde'[d].big = FALSE /\ pde'[d].ptaddr = ENTRIES + d
                /\ p.pres = TRUE /\ p.addr = 2 * ENTRIES + i
  <2> DEFINE q == i \div ENTRIES
             r == i % ENTRIES
             d == FRAMES_PDE + q
  <2>1. i \in Nat
    BY <1>3
  <2>2. q \in Nat /\ r \in 0..(ENTRIES - 1) /\ i = q * ENTRIES + r
    BY <1>0, <2>1, DivMod
  <2>3. d \in Dir /\ FramePage(d, r)
    BY <1>3
  <2> HIDE DEF q, r
  <2>4. r \in Dir /\ ENTRIES + d \in Table
    BY <1>0, <2>2, <2>3 DEF Dir, Table
  <2>5. FRAMES_PDE * ENTRIES + i = d * ENTRIES + r
    BY <1>0, <2>1, <2>2
  <2>6. /\ d * ENTRIES + r \in VPages
        /\ (d * ENTRIES + r) \div ENTRIES = d /\ (d * ENTRIES + r) % ENTRIES = r
    BY <2>3, <2>4, PageOf
  <2>7. d - FRAMES_PDE \in 0..(FramesPdes - 1) /\ d - FRAMES_PDE = q
    BY <1>0, <2>2, <2>3 DEF FramePage
  <2>8. pde'[d].pres = TRUE /\ pde'[d].big = FALSE /\ pde'[d].ptaddr = ENTRIES + d
    BY <1>1, <1>4, <2>3, <2>7 DEF Shape
  <2>9. (ENTRIES + d) - ENTRIES = d
    BY <1>0, <2>3 DEF Dir
  <2>10. pte'[ENTRIES + d][r] = [pres |-> TRUE,
                                 addr |-> 2 * ENTRIES + ((ENTRIES + d) - ENTRIES - FRAMES_PDE) * ENTRIES + r]
    <3> DEFINE t == ENTRIES + d
    <3>1. t \in Table /\ r \in Dir /\ FramePage(t - ENTRIES, r)
      BY <2>3, <2>4, <2>9
    <3> HIDE DEF t
    <3>2. pte'[t][r] = [pres |-> TRUE, addr |-> 2 * ENTRIES + (t - ENTRIES - FRAMES_PDE) * ENTRIES + r]
      BY <1>5, <3>1
    <3> QED BY <3>2 DEF t
  <2>11. 2 * ENTRIES + ((ENTRIES + d) - ENTRIES - FRAMES_PDE) * ENTRIES + r = 2 * ENTRIES + i
    <3>1. (ENTRIES + d) - ENTRIES - FRAMES_PDE = q
      BY <1>0, <2>2
    <3>2. q * ENTRIES \in Nat
      BY <1>0, <2>2, MulMono
    <3> QED BY <1>0, <2>2, <3>1, <3>2
  <2>12. pte'[ENTRIES + d][r].pres = TRUE /\ pte'[ENTRIES + d][r].addr = 2 * ENTRIES + i
    BY <2>10, <2>11
  <2> QED BY <2>3, <2>4, <2>5, <2>6, <2>8, <2>12 DEF q, r
<1> QED BY <1>6, <1>7, <1>8

LEMMA FrameAllocInv ==
  ASSUME IInv, init_frame_alloc
  PROVE  IInv'
<1>1. MapType' /\ Shape'
  BY FrameTableMapped
<1>2. TypeOK /\ StartInv /\ HeapBound /\ kds = 0 /\ ~Ready
  BY DEF IInv, StartInv, init_frame_alloc, Ready
<1>3. UNCHANGED <<tlb, ram, low, kds>> /\ phase' = "ready"
  BY DEF init_frame_alloc
<1>4. FramesCount \in Nat /\ FramesCount' = FramesCount /\ MetaPages' = MetaPages
  BY <1>2, <1>3, MetaFacts DEF FramesCount, MetaPages, MetaSize
<1>5. /\ DOMAIN frame' = 0..(FramesCount - 1)
      /\ \A f \in DOMAIN frame' : frame'[f] \in [ref : Nat, addr : Nat, vaddr : Nat]
  <2> DEFINE fend == get_physaddr(DirWithFrames, TablesWithFrames, MetaEnd)
  <2>1. frame' = init_ram_frames(fend)
    BY DEF init_frame_alloc
  <2> HIDE DEF fend
  <2>2. ASSUME NEW f \in 0..(FramesCount - 1)
        PROVE  FRAMES_PDE * ENTRIES * FRAME_SIZE + f * SIZEOF_FRAME \in Nat
    <3>1. /\ FRAMES_PDE \in Nat /\ ENTRIES \in Nat /\ FRAME_SIZE \in Nat /\ FRAME_SIZE >= 1
          /\ SIZEOF_FRAME \in Nat /\ SIZEOF_FRAME >= 1 /\ f \in Nat /\ ENTRIES >= 1
      BY <1>4, Consts
    <3>2. FRAMES_PDE * ENTRIES \in Nat /\ f * SIZEOF_FRAME \in Nat
      BY <3>1, MulMono
    <3>3. FRAMES_PDE * ENTRIES * FRAME_SIZE \in Nat
      BY <3>1, <3>2, MulMono
    <3> QED BY <3>2, <3>3
  <2>3. DOMAIN frame' = 0..(FramesCount - 1)
    BY <2>1 DEF init_ram_frames
  <2>4. ASSUME NEW f \in 0..(FramesCount - 1)
        PROVE  frame'[f] \in [ref : Nat, addr : Nat, vaddr : Nat]
    BY <2>1, <2>2 DEF init_ram_frames
  <2> QED BY <2>3, <2>4
<1>6. TypeOK'
  BY <1>1, <1>2, <1>3, <1>4, <1>5 DEF TypeOK, MapType, PdeType, PteType
<1>7. DirInv' /\ StartInv' /\ HeapBound'
  BY <1>1, <1>2, <1>3, <1>4, <1>5 DEF DirInv, StartInv, HeapBound, Ready
<1>8. KernelIntact'
  <2>1. ASSUME NEW i \in Dir
        PROVE  /\ Translate(KERNEL_PDE * ENTRIES + i)' = i
               /\ Translate(PAGE_TABLES_PDE * ENTRIES + i)' = ENTRIES + i
    BY <1>1, KernelPages
  <2>2. ASSUME NEW i \in 0..(MetaPages - 1)
        PROVE  Translate(FRAMES_PDE * ENTRIES + i)' = 2 * ENTRIES + i
    <3> DEFINE v == FRAMES_PDE * ENTRIES + i
               d == FRAMES_PDE + (i \div ENTRIES)
               p == pte'[ENTRIES + d][i % ENTRIES]
    <3>1. /\ v \div ENTRIES = d /\ v % ENTRIES = i % ENTRIES
          /\ pde'[d].pres = TRUE /\ pde'[d].big = FALSE /\ pde'[d].ptaddr = ENTRIES + d
          /\ p.pres = TRUE /\ p.addr = 2 * ENTRIES + i
      BY FrameTableMapped
    <3> HIDE DEF v
    <3>2. PteOf(v)' = p
      BY <3>1 DEF PteOf
    <3>3. Translate(v)' = 2 * ENTRIES + i
      BY <3>1, <3>2 DEF Translate
    <3> QED BY <3>3 DEF v
  <2> QED BY <1>4, <2>1, <2>2 DEF KernelIntact
<1>9. HeapMapped'
  <2>1. Pages(kds') = 0
    BY <1>2, <1>3, PagesMono, 0 \in Nat
  <2> QED BY <2>1 DEF HeapMapped
<1> QED BY <1>6, <1>7, <1>8, <1>9 DEF IInv

(* After boot, a step changes nothing that a mapped page shows.            *)
Kept == Ready => \A v \in VPages : IsMapped(v) => Translate(v)' = Translate(v)

(* After boot, a step that only adds to the directory and the tables.      *)
LEMMA Grows ==
  ASSUME IInv, Ready, UNCHANGED <<phase, ram>>, MapType', Shape', Extended
  PROVE  /\ DirInv' /\ KernelIntact' /\ Kept
         /\ \A w \in VPages : IsMapped(w) => IsMapped(w)'
<1>1. TypeOK /\ Shape /\ MapType
  BY DEF IInv, DirInv, Ready, TypeOK, MapType, PdeType, PteType
<1>2. ASSUME NEW w \in VPages, IsMapped(w) PROVE IsMapped(w)' /\ Translate(w)' = Translate(w)
  <2>1. Translate(w)' = Translate(w)
    BY <1>1, <1>2, TranslateKept
  <2> QED BY <1>2, <2>1 DEF IsMapped
<1>3. ASSUME NEW i \in 0..(MetaPages - 1)
      PROVE  Translate(FRAMES_PDE * ENTRIES + i)' = 2 * ENTRIES + i
  <2> DEFINE q == i \div ENTRIES
             r == i % ENTRIES
             v == FRAMES_PDE * ENTRIES + i
  <2>1. MetaPages \in Nat /\ FRAMES_PDE + q \in Dir
    BY <1>1, FramePages
  <2>2. i \in Nat /\ ENTRIES \in Nat /\ ENTRIES >= 1 /\ FRAMES_PDE \in Nat
    BY <2>1, Consts
  <2>3. q \in Nat /\ r \in 0..(ENTRIES - 1) /\ i = q * ENTRIES + r
    BY <2>2, DivMod
  <2> HIDE DEF q, r
  <2>4. v = (FRAMES_PDE + q) * ENTRIES + r
    BY <2>2, <2>3
  <2>5. v \in VPages
    BY <2>1, <2>3, <2>4, PageOf DEF Dir
  <2>6. Translate(v) = 2 * ENTRIES + i
    BY DEF IInv, KernelIntact
  <2> HIDE DEF v
  <2>7. IsMapped(v)
    BY <2>2, <2>6 DEF IsMapped, NONE
  <2>8. Translate(v)' = 2 * ENTRIES + i
    BY <1>2, <2>5, <2>6, <2>7
  <2> QED BY <2>8 DEF v
<1>4. MetaPages' = MetaPages
  BY DEF MetaPages, MetaSize, FramesCount
<1>5. KernelIntact'
  BY <1>3, <1>4, KernelPages DEF KernelIntact
<1>6. DirInv'
  BY DEF DirInv, Ready
<1>7. Kept
  BY <1>2 DEF Kept
<1> QED BY <1>2, <1>5, <1>6, <1>7

(* The pages of the heap, up to the kernel.                                *)
LEMMA HeapPages ==
  ASSUME TypeOK, HeapBound
  PROVE  /\ Pages(kds) \in Nat /\ HEAP_PDE * ENTRIES \in Nat /\ KERNEL_PDE * ENTRIES \in VPages
         /\ get_kds_end_addr = HEAP_PDE * ENTRIES + Pages(kds)
         /\ get_kds_end_addr <= KERNEL_PDE * ENTRIES
         /\ (KERNEL_PDE * ENTRIES) \div ENTRIES = KERNEL_PDE
         /\ \A w \in Nat : w <= KERNEL_PDE * ENTRIES => w \in VPages
<1>1. Pages(kds) \in Nat
  BY PagesOf DEF TypeOK
<1>2. HEAP_PDE * ENTRIES \in Nat
  BY Consts, MulMono
<1>3. 0 \in Dir /\ KERNEL_PDE \in Dir
  BY Consts DEF Dir
<1>4. /\ KERNEL_PDE * ENTRIES + 0 \in VPages
      /\ (KERNEL_PDE * ENTRIES + 0) \div ENTRIES = KERNEL_PDE
  BY <1>3, PageOf
<1>5. KERNEL_PDE * ENTRIES \in Nat /\ KERNEL_PDE * ENTRIES + 0 = KERNEL_PDE * ENTRIES
  BY Consts, MulMono
<1>6. KERNEL_PDE * ENTRIES \in VPages /\ (KERNEL_PDE * ENTRIES) \div ENTRIES = KERNEL_PDE
  BY <1>4, <1>5
<1>7. ASSUME NEW w \in Nat, w <= KERNEL_PDE * ENTRIES PROVE w \in VPages
  <2> DEFINE x == KERNEL_PDE * ENTRIES
             y == ENTRIES * ENTRIES
  <2>1. x \in 0..(y - 1) /\ y \in Nat /\ w <= x
    BY <1>6, <1>7, Consts DEF VPages
  <2> HIDE DEF x, y
  <2>2. w \in 0..(y - 1)
    BY <2>1
  <2> QED BY <2>2 DEF VPages, y
<1> QED BY <1>1, <1>2, <1>6, <1>7 DEF HeapBound, HeapPage, get_kds_end_addr

(* map_pages has put the frames f to f + k - 1 at the break; of the other  *)
(* frames, alloc_frames may have marked some that were free.               *)
MapsFrames(f, k) ==
  LET v == get_kds_end_addr
  IN /\ f + k <= FramesCount /\ v + k <= KERNEL_PDE * ENTRIES
     /\ \A g \in f..(f + k - 1) : /\ frame[g].ref = 0 /\ frame'[g].ref = 2
                                 /\ frame'[g].vaddr = (v + g - f) * FRAME_SIZE
     /\ \A g \in DOMAIN frame : g \notin f..(f + k - 1) =>
          frame'[g] = frame[g] \/ (frame[g].ref = 0 /\ frame'[g].ref = 1)
     /\ \A w \in v..(v + k - 1) : ~IsMapped(w) /\ IsMapped(w)'
     /\ \A w \in VPages : w \notin v..(v + k - 1) => Translate(w)' = Translate(w)

(* sbrk with frames to map: the pages map_pages has mapped when it stops   *)
(* are above the break and below the kernel, and were free.                *)
LEMMA SbrkMap ==
  ASSUME IInv, Ready, NEW size \in Nat, size >= 1, sbrk_map(size), UNCHANGED <<phase, tlb, ram>>
  PROVE  /\ IInv' /\ Kept
         /\ kds' > kds => \A w \in get_kds_end_addr..(get_kds_end_addr + Pages(kds' - kds) - 1) :
                            ~IsMapped(w) /\ IsMapped(w)'
         /\ \A g \in DOMAIN frame : frame[g].ref # 0 => frame'[g] = frame[g]
         /\ Clear => Clear' /\ \E f, k \in Nat : MapsFrames(f, k)
<1> DEFINE n == Pages(size)
           v == get_kds_end_addr
           k == MapCount(v, n)
           top == KERNEL_PDE * ENTRIES
<1>1. TypeOK /\ Shape /\ MapType /\ HeapBound /\ kds \in Nat /\ DOMAIN frame = 0..(FramesCount - 1)
  BY DEF IInv, DirInv, StartInv, Ready, TypeOK, MapType, PdeType, PteType
<1>2. /\ n \in Nat /\ Pages(kds) \in Nat /\ HEAP_PDE * ENTRIES \in Nat /\ top \in VPages
      /\ v = HEAP_PDE * ENTRIES + Pages(kds) /\ v <= top /\ top \in Nat
      /\ top \div ENTRIES = KERNEL_PDE
      /\ \A w \in Nat : w <= top => w \in VPages
  BY <1>1, HeapPages, PagesOf DEF VPages
<1>3. PICK f \in FirstFits(n) :
        map_pages(v, f, n, [g \in DOMAIN frame |-> IF g \in f..(f + n - 1)
                                            THEN [frame[g] EXCEPT !.ref = 1] ELSE frame[g]])
  BY DEF sbrk_map
<1>4. kds' = (IF k = n THEN kds + size ELSE kds) /\ low' = low
  BY DEF sbrk_map
<1> DEFINE table == [g \in DOMAIN frame |-> IF g \in f..(f + n - 1)
                                            THEN [frame[g] EXCEPT !.ref = 1] ELSE frame[g]]
           addr == [w \in v..(v + k - 1) |-> table[f + w - v].addr]
           Seen == v..(v + (IF k < n THEN k ELSE n - 1))
<1>5. /\ pde' = MapDir(Seen)
      /\ pte' = MapTables(addr)
      /\ frame' = [g \in DOMAIN table |->
                    IF g \in f..(f + k - 1)
                    THEN [table[g] EXCEPT !.ref = @ + 1, !.vaddr = (v + g - f) * FRAME_SIZE]
                    ELSE table[g]]
  BY <1>3 DEF map_pages
<1>6. v \in Nat
  BY <1>2
<1> HIDE DEF v
<1>7. k \in 0..n /\ (\A i \in 0..(k - 1) : Mappable(v + i)) /\ (k = n \/ ~Mappable(v + k))
  BY <1>2, <1>6, MapCountFacts
<1> HIDE DEF n, k, top
<1>8. v + k <= top
  <2>1. ~Mappable(top)
    <3>1. pde[KERNEL_PDE].pres = TRUE /\ pde[KERNEL_PDE].big = TRUE
      BY <1>1 DEF Shape, BigPde
    <3> QED BY <1>2, <3>1 DEF Mappable
  <2>2. top - v \in 0..(k - 1) => Mappable(v + (top - v))
    BY <1>7
  <2>3. v + (top - v) = top
    BY <1>2, <1>6
  <2>4. top - v \notin 0..(k - 1)
    BY <2>1, <2>2, <2>3
  <2> QED BY <1>2, <1>6, <1>7, <2>4
<1>9. /\ FramesCount \in Nat /\ f \in Nat /\ f + n <= FramesCount
      /\ \A g \in f..(f + n - 1) : frame[g].ref = 0
  BY <1>1, <1>3, MetaFacts DEF FirstFits, FreeRun
<1>10. ASSUME NEW g \in DOMAIN frame
       PROVE  /\ g \in Nat /\ frame[g] \in [ref : Nat, addr : Nat, vaddr : Nat]
              /\ table[g] \in [ref : Nat, addr : Nat, vaddr : Nat]
              /\ g \notin f..(f + n - 1) => table[g] = frame[g]
              /\ g \in f..(f + n - 1) => table[g].ref = 1
  <2>1. g \in Nat /\ frame[g] \in [ref : Nat, addr : Nat, vaddr : Nat]
    BY <1>1, <1>9 DEF TypeOK
  <2> DEFINE e == [frame[g] EXCEPT !.ref = 1]
  <2>2. e \in [ref : Nat, addr : Nat, vaddr : Nat] /\ e.ref = 1
    BY <2>1
  <2> HIDE DEF e
  <2>3. table[g] = IF g \in f..(f + n - 1) THEN e ELSE frame[g]
    BY DEF e
  <2> HIDE DEF table
  <2> QED BY <2>1, <2>2, <2>3
<1>11. DOMAIN table = DOMAIN frame
  OBVIOUS
<1> HIDE DEF table
<1>12. ASSUME NEW w \in v..(v + k - 1)
       PROVE  w \in VPages /\ w \in Seen /\ Mappable(w) /\ addr[w] \in Nat
  <2>1. w \in Nat /\ w <= top /\ w \in Seen
    BY <1>2, <1>6, <1>7, <1>8
  <2>2. Mappable(w)
    <3>1. w - v \in 0..(k - 1) /\ v + (w - v) = w
      BY <1>6, <1>7, <2>1
    <3> QED BY <1>7, <3>1
  <2>3. f + w - v \in DOMAIN frame
    <3>1. n \in Nat /\ k \in 0..n
      BY <1>2, <1>7
    <3>2. f + w - v \in 0..(FramesCount - 1)
      BY ONLY <1>6, <1>9, <2>1, <3>1, w \in v..(v + k - 1)
    <3> QED BY <1>1, <3>2
  <2>4. table[f + w - v].addr \in Nat
    BY <1>10, <2>3
  <2> QED BY <1>2, <2>1, <2>2, <2>4
<1>13. DOMAIN addr = v..(v + k - 1)
  OBVIOUS
<1> HIDE DEF addr, Seen
<1>14. /\ MapType' /\ Shape' /\ Extended
       /\ \A w \in VPages : w \in DOMAIN addr => ~IsMapped(w) /\ Translate(w)' = addr[w]
  BY <1>1, <1>5, <1>12, <1>13, MapEffect
<1>15. /\ DirInv' /\ KernelIntact' /\ Kept
       /\ \A w \in VPages : IsMapped(w) => IsMapped(w)'
  BY <1>14, Grows
<1>16. ASSUME NEW w \in v..(v + k - 1) PROVE ~IsMapped(w) /\ IsMapped(w)'
  <2>1. ~IsMapped(w) /\ Translate(w)' = addr[w] /\ addr[w] \in Nat
    BY <1>12, <1>13, <1>14
  <2> QED BY <2>1 DEF IsMapped, NONE
<1>17. /\ kds' \in Nat /\ Pages(kds') \in Nat /\ Pages(kds') <= Pages(kds) + k
       /\ kds' > kds => k = n /\ kds' - kds = size
  <2>1. Pages(kds + size) <= Pages(kds) + n /\ kds + size \in Nat
    BY <1>1, PagesMono DEF n
  <2>2. kds' \in Nat
    BY <1>1, <1>4, <2>1
  <2>3. Pages(kds') \in Nat
    BY <2>2, PagesOf
  <2> QED BY <1>1, <1>2, <1>4, <1>7, <2>1, <2>2, <2>3, SMTT(40)
<1>18. HeapBound'
  <2>1. HEAP_PDE * ENTRIES + Pages(kds') <= top
    BY <1>2, <1>7, <1>8, <1>17
  <2> QED BY <2>1 DEF HeapBound, HeapPage, top
<1>19. HeapMapped'
  <2> SUFFICES ASSUME NEW i \in 0..(Pages(kds') - 1) PROVE IsMapped(HeapPage(i))'
    BY DEF HeapMapped
  <2> DEFINE w == HEAP_PDE * ENTRIES + i
  <2>1. i \in Nat /\ w \in Nat
    BY <1>2, <1>17
  <2>2. CASE i < Pages(kds)
    <3>1. w <= top
      BY <1>2, <2>1, <2>2
    <3>2. w \in VPages
      BY <1>2, <2>1, <3>1
    <3>3. IsMapped(w)
      BY <1>2, <2>1, <2>2 DEF IInv, HeapMapped, HeapPage
    <3>4. IsMapped(w)'
      BY <1>15, <3>2, <3>3
    <3> QED BY <3>4 DEF HeapPage
  <2>3. CASE i >= Pages(kds)
    <3>1. w \in v..(v + k - 1)
      BY <1>2, <1>7, <1>17, <2>1, <2>3
    <3> HIDE DEF w
    <3>2. IsMapped(w)'
      BY <1>16, <3>1
    <3> QED BY <3>2 DEF HeapPage, w
  <2> QED BY <1>2, <2>1, <2>2, <2>3
<1>20. /\ DOMAIN frame' = DOMAIN frame
       /\ \A g \in DOMAIN frame : frame'[g] \in [ref : Nat, addr : Nat, vaddr : Nat]
       /\ \A g \in DOMAIN frame : frame[g].ref # 0 => frame'[g] = frame[g]
       /\ \A g \in f..(f + k - 1) : /\ frame[g].ref = 0 /\ frame'[g].ref = 2
                                   /\ frame'[g].vaddr = (v + g - f) * FRAME_SIZE
       /\ \A g \in DOMAIN frame : g \notin f..(f + k - 1) =>
            frame'[g] = frame[g] \/ (frame[g].ref = 0 /\ frame'[g].ref = 1)
  <2>1. DOMAIN frame' = DOMAIN frame
    BY <1>5, <1>11
  <2>2. ASSUME NEW g \in DOMAIN frame
        PROVE  /\ frame'[g] \in [ref : Nat, addr : Nat, vaddr : Nat]
               /\ frame[g].ref # 0 => frame'[g] = frame[g]
               /\ g \in f..(f + k - 1) => /\ frame[g].ref = 0 /\ frame'[g].ref = 2
                                          /\ frame'[g].vaddr = (v + g - f) * FRAME_SIZE
               /\ g \notin f..(f + k - 1) =>
                    frame'[g] = frame[g] \/ (frame[g].ref = 0 /\ frame'[g].ref = 1)
    <3>1. CASE g \in f..(f + k - 1)
      <4> DEFINE a == (v + g - f) * FRAME_SIZE
      <4>1. a \in Nat
        <5>1. v + g - f \in Nat /\ FRAME_SIZE \in Nat /\ FRAME_SIZE >= 1
          BY <1>6, <1>9, <1>10, <3>1, Consts
        <5> QED BY <5>1, MulMono
      <4>2. frame'[g] = [table[g] EXCEPT !.ref = @ + 1, !.vaddr = a]
        BY <1>5, <1>11, <3>1
      <4> HIDE DEF a
      <4>3. g \in f..(f + n - 1)
        BY <1>2, <1>7, <1>9, <3>1
      <4>4. /\ frame'[g] \in [ref : Nat, addr : Nat, vaddr : Nat]
            /\ frame'[g].ref = 2 /\ frame'[g].vaddr = a
        <5>1. table[g] \in [ref : Nat, addr : Nat, vaddr : Nat]
          BY <1>10
        <5> DEFINE R == [ref : Nat, addr : Nat, vaddr : Nat]
                   b == table[g].ref + 1
                   t == [table[g] EXCEPT !.ref = b]
        <5>2. b \in Nat /\ b = 2
          BY <1>10, <4>3
        <5> HIDE DEF b
        <5>3. t \in R /\ t.ref = b
          BY ONLY <5>1, <5>2
        <5> HIDE DEF t
        <5>4. /\ [t EXCEPT !.vaddr = a] \in R
              /\ [t EXCEPT !.vaddr = a].ref = t.ref /\ [t EXCEPT !.vaddr = a].vaddr = a
          BY ONLY <4>1, <5>3
        <5>5. frame'[g] = [t EXCEPT !.vaddr = a]
          BY ONLY <4>2 DEF t, b
        <5> QED BY ONLY <5>2, <5>3, <5>4, <5>5
      <4> QED BY <1>9, <3>1, <4>4, <4>3 DEF a
    <3>2. CASE g \notin f..(f + k - 1)
      <4>1. frame'[g] = table[g]
        BY <1>5, <1>11, <3>2
      <4> QED BY <1>9, <1>10, <3>2, <4>1
    <3> QED BY <3>1, <3>2
  <2>3. \A g \in f..(f + k - 1) : g \in DOMAIN frame
    BY <1>1, <1>2, <1>7, <1>9
  <2> QED BY <2>1, <2>2, <2>3
<1>21. TypeOK' /\ StartInv'
  <2>1. FramesCount' = FramesCount
    BY DEF FramesCount
  <2>2. StartInv'
    BY <1>1, <1>20, <2>1 DEF StartInv, Ready
  <2> QED BY <1>1, <1>4, <1>14, <1>17, <1>20, <2>1, <2>2 DEF TypeOK, MapType, PdeType, PteType
<1>22. kds' > kds => \A w \in v..(v + Pages(kds' - kds) - 1) : ~IsMapped(w) /\ IsMapped(w)'
  BY <1>16, <1>17 DEF n
<1>23. ASSUME Clear PROVE Clear' /\ \E x, y \in Nat : MapsFrames(x, y)
  <2>1. /\ Clear'
        /\ \A w \in VPages : w \notin DOMAIN addr => Translate(w)' = Translate(w)
    BY <1>1, <1>5, <1>12, <1>13, <1>23, MapOnly
  <2>2. MapsFrames(f, k)
    <3>1. f + k <= FramesCount
      BY <1>2, <1>7, <1>9
    <3> QED BY <1>8, <1>13, <1>16, <1>20, <2>1, <3>1 DEF MapsFrames, v, top
  <2>3. k \in Nat
    BY <1>2, <1>7
  <2> QED BY <1>9, <2>1, <2>2, <2>3
<1> QED BY <1>15, <1>18, <1>19, <1>20, <1>21, <1>22, <1>23 DEF IInv, v

(* sbrk with a negative size clears no entry of a table.                   *)
LEMMA SbrkShrink ==
  ASSUME IInv, Ready, NEW size \in Int, size < 0, sbrk_shrink(size), UNCHANGED <<phase, tlb, ram>>
  PROVE  IInv' /\ frame' = frame /\ kds' <= kds /\ Kept
<1> DEFINE n == Pages(-size)
           v == get_kds_end_addr - n
<1>1. TypeOK /\ DirInv /\ StartInv /\ HeapBound /\ Shape /\ MapType /\ kds \in Nat
  BY DEF IInv, DirInv, Ready, TypeOK, MapType, PdeType, PteType
<1>2. /\ low' = low \cup {<<Addr4mb(pde[w \div ENTRIES]), w % ENTRIES>> : w \in v..(v + n - 1)}
      /\ UNCHANGED <<pde, pte, frame>> /\ kds' = kds + size /\ kds' \in Nat /\ kds' <= kds
  BY <1>1 DEF sbrk_shrink, unmap_pages
<1>3. /\ Pages(kds) \in Nat /\ Pages(kds') \in Nat /\ n \in Nat
      /\ n <= Pages(kds) /\ Pages(kds') <= Pages(kds)
  <2>1. -size \in Nat /\ -size <= kds
    BY <1>1, <1>2
  <2> QED BY <1>1, <1>2, <2>1, PagesOf, PagesMono
<1>4. ASSUME NEW w \in v..(v + n - 1)
      PROVE  <<Addr4mb(pde[w \div ENTRIES]), w % ENTRIES>> \in Nat \X Dir
  <2>1. w \in VPages
    <3>1. /\ HEAP_PDE * ENTRIES \in Nat /\ KERNEL_PDE * ENTRIES \in VPages
          /\ get_kds_end_addr = HEAP_PDE * ENTRIES + Pages(kds)
          /\ get_kds_end_addr <= KERNEL_PDE * ENTRIES
          /\ \A x \in Nat : x <= KERNEL_PDE * ENTRIES => x \in VPages
      BY <1>1, HeapPages
    <3>2. KERNEL_PDE * ENTRIES \in Nat
      BY <3>1 DEF VPages
    <3>3. w \in Nat /\ w <= KERNEL_PDE * ENTRIES
      BY <1>3, <3>1, <3>2
    <3> QED BY <3>1, <3>3
  <2>2. w \div ENTRIES \in Dir /\ w % ENTRIES \in Dir
    BY <2>1, PageParts
  <2>3. pde[w \div ENTRIES].ptaddr \in Nat
    BY <1>1, <2>2 DEF MapType, PdeType
  <2>4. Addr4mb(pde[w \div ENTRIES]) \in Nat
    BY <2>3, DivMod, Consts DEF Addr4mb
  <2> QED BY <2>2, <2>4
<1> HIDE DEF n, v
<1>5. low' \subseteq Nat \X Dir
  BY <1>1, <1>2, <1>4 DEF TypeOK
<1>6. FramesCount' = FramesCount
  BY DEF FramesCount
<1>7. TypeOK'
  BY <1>1, <1>2, <1>5, <1>6 DEF TypeOK
<1>8. StartInv' /\ DirInv'
  BY <1>1, <1>2, <1>6 DEF StartInv, DirInv, Ready, Shape
<1>9. HeapBound'
  <2>1. HEAP_PDE * ENTRIES \in Nat /\ KERNEL_PDE * ENTRIES \in Nat
    BY Consts, MulMono
  <2> QED BY <1>1, <1>3, <2>1 DEF HeapBound, HeapPage
<1>10. KernelIntact' /\ HeapMapped' /\ Kept
  <2>1. \A w : Translate(w)' = Translate(w)
    BY <1>2 DEF Translate, PteOf
  <2>2. MetaPages' = MetaPages
    BY DEF MetaPages, MetaSize, FramesCount
  <2>3. KernelIntact'
    BY <2>1, <2>2 DEF KernelIntact, IInv
  <2>4. \A i \in 0..(Pages(kds') - 1) : i \in 0..(Pages(kds) - 1)
    BY <1>3
  <2>5. \A i \in 0..(Pages(kds) - 1) : Translate(HeapPage(i)) # NONE
    BY DEF IInv, HeapMapped, IsMapped
  <2>6. \A i \in 0..(Pages(kds') - 1) : Translate(HeapPage(i))' # NONE
    BY <2>1, <2>4, <2>5 DEF HeapPage
  <2> QED BY <2>1, <2>3, <2>6 DEF HeapMapped, IsMapped, Kept
<1> QED BY <1>2, <1>7, <1>8, <1>9, <1>10 DEF IInv

(* alloc_pages returns page 0 or one behind the heap, whatever it finds.   *)
LEMMA AllocPages ==
  ASSUME TypeOK, NEW n \in Nat
  PROVE  /\ alloc_pages(n) \in Nat
         /\ alloc_pages(n) = 0 \/ alloc_pages(n) >= KERNEL_PDE * ENTRIES
         /\ n # 0 /\ Runs(n) # {} /\ Min(Runs(n)) # FirstPde * ENTRIES => alloc_pages(n) >= 1
<1>1. ENTRIES \in Nat /\ ENTRIES >= 1 /\ FRAME_SIZE \in Nat /\ FRAME_SIZE >= 1
      /\ FRAMES_PDE \in Nat /\ KERNEL_PDE \in Nat /\ KERNEL_PDE <= FRAMES_PDE
  BY Consts
<1>2. MetaEnd \in Nat /\ MetaEnd >= (FRAMES_PDE * ENTRIES) * FRAME_SIZE /\ FRAMES_PDE * ENTRIES \in Nat
  <2>1. FRAMES_PDE * ENTRIES \in Nat
    BY <1>1, MulMono
  <2>2. FRAMES_PDE * ENTRIES * FRAME_SIZE \in Nat
    BY <1>1, <2>1, MulMono
  <2> QED BY <2>1, <2>2, MetaFacts DEF MetaEnd
<1>3. MetaEnd \div FRAME_SIZE \in Nat /\ MetaEnd \div FRAME_SIZE >= FRAMES_PDE * ENTRIES
  <2> DEFINE b == FRAMES_PDE * ENTRIES
  <2>1. b \in Nat /\ MetaEnd >= b * FRAME_SIZE
    BY <1>2
  <2> HIDE DEF b
  <2>2. MetaEnd \div FRAME_SIZE \in Nat /\ MetaEnd \div FRAME_SIZE >= b
    BY <1>1, <1>2, <2>1, DivMod, DivLow
  <2> QED BY <2>2 DEF b
<1>4. FirstPde \in Nat /\ (MetaEnd \div FRAME_SIZE) % ENTRIES \in Nat /\ FirstPde >= FRAMES_PDE
  <2> DEFINE x == MetaEnd \div FRAME_SIZE
  <2>1. x \in Nat /\ x >= FRAMES_PDE * ENTRIES
    BY <1>3
  <2> HIDE DEF x
  <2>2. x \div ENTRIES \in Nat /\ x % ENTRIES \in 0..(ENTRIES - 1)
    BY <1>1, <2>1, DivMod
  <2>3. x \div ENTRIES >= FRAMES_PDE
    BY <1>1, <2>1, DivLow
  <2>4. x % ENTRIES \in Nat
    BY <1>1, <2>2
  <2> QED BY <2>2, <2>3, <2>4 DEF FirstPde, x
<1>5. FirstPde * ENTRIES \in Nat /\ KERNEL_PDE * ENTRIES \in Nat
      /\ KERNEL_PDE * ENTRIES <= FirstPde * ENTRIES /\ FirstPde * ENTRIES >= 1
  <2>1. FirstPde * ENTRIES \in Nat /\ KERNEL_PDE * ENTRIES \in Nat
        /\ KERNEL_PDE * ENTRIES <= FirstPde * ENTRIES
    BY <1>1, <1>4, MulMono
  <2>2. 1 <= FirstPde /\ 1 \in Nat
    BY <1>1, <1>4, Consts
  <2>3. 1 * ENTRIES <= FirstPde * ENTRIES
    BY <1>1, <1>4, <2>2, MulMono
  <2> QED BY <1>1, <2>1, <2>3
<1>6. Runs(n) \in SUBSET Nat /\ \A s \in Runs(n) : s >= FirstPde * ENTRIES
  <2>1. Runs(n) \subseteq (FirstPde * ENTRIES)..(ENTRIES * ENTRIES - n)
    BY DEF Runs
  <2>2. ENTRIES * ENTRIES - n \in Int
    BY <1>1
  <2> QED BY <1>5, <2>1, <2>2
<1>7. CASE n = 0 \/ Runs(n) = {}
  BY <1>7 DEF alloc_pages
<1>8. CASE n # 0 /\ Runs(n) # {}
  <2> DEFINE s == Min(Runs(n))
  <2>1. s \in Runs(n)
    <3>1. \E x \in Runs(n) : \A y \in Runs(n) : x <= y
      BY <1>6, <1>8, LeastNat
    <3> QED BY <3>1 DEF Min
  <2>2. alloc_pages(n) = IF s = FirstPde * ENTRIES THEN 0
                         ELSE IF HasTable((s - 1) \div ENTRIES) THEN s - 1
                         ELSE SkippedAt((s - 1) \div ENTRIES)
    BY <1>8 DEF alloc_pages
  <2> HIDE DEF s
  <2>3. /\ s \in Nat
        /\ s # FirstPde * ENTRIES => s - 1 \in Nat /\ s - 1 >= FirstPde * ENTRIES
    BY <1>5, <1>6, <2>1
  <2>4. ASSUME NEW d \in Nat, d >= FirstPde
        PROVE  SkippedAt(d) \in Nat /\ SkippedAt(d) >= FirstPde * ENTRIES
    <3>1. d * ENTRIES \in Nat /\ FirstPde * ENTRIES <= d * ENTRIES
      BY <1>1, <1>4, <2>4, MulMono
    <3> DEFINE x == IF \E c \in FirstPde..(d - 1) : HasTable(c) THEN ENTRIES
                    ELSE ((MetaEnd \div FRAME_SIZE) % ENTRIES) + 1
    <3>2. x \in Nat
      BY <1>1, <1>4
    <3>3. SkippedAt(d) = d * ENTRIES + x
      BY DEF SkippedAt
    <3> HIDE DEF x
    <3> QED BY <1>5, <3>1, <3>2, <3>3
  <2>5. s # FirstPde * ENTRIES =>
          (s - 1) \div ENTRIES \in Nat /\ (s - 1) \div ENTRIES >= FirstPde
    BY <1>1, <1>4, <2>3, DivMod, DivLow
  <2>6. s # FirstPde * ENTRIES => /\ SkippedAt((s - 1) \div ENTRIES) \in Nat
                                  /\ SkippedAt((s - 1) \div ENTRIES) >= FirstPde * ENTRIES
    BY <2>4, <2>5
  <2>7. /\ alloc_pages(n) \in Nat
        /\ alloc_pages(n) = 0 \/ alloc_pages(n) >= KERNEL_PDE * ENTRIES
        /\ s # FirstPde * ENTRIES => alloc_pages(n) >= 1
    BY <1>5, <2>2, <2>3, <2>6
  <2> QED BY <2>7 DEF s
<1> QED BY <1>7, <1>8

(* The virtual pages from the start of the heap to the kernel.             *)
Heap == (HEAP_PDE * ENTRIES)..(KERNEL_PDE * ENTRIES - 1)

LEMMA MapIo ==
  ASSUME IInv, NEW r \in IoRanges, map_io(r)
  PROVE  /\ IInv' /\ frame' = frame /\ kds' = kds /\ Kept
         /\ Clear => /\ Clear'
                     /\ Pages(r.len) <= HEAP_PDE * ENTRIES => \A w \in Heap : Translate(w)' = Translate(w)
<1> DEFINE n == Pages(r.len)
           base == r.addr \div FRAME_SIZE
           v == alloc_pages(n)
           new == {w \in v..(v + n - 1) : Mappable(w)}
           addr == [w \in new |-> base + w - v]
           Seen == v..(v + n - 1)
<1>1. n \in Nat /\ base \in Nat
  <2>1. r.len \in Nat /\ r.addr \in Nat /\ FRAME_SIZE \in Nat /\ FRAME_SIZE >= 1
    BY PagingAssumption, Consts
  <2> QED BY <2>1, PagesOf, DivMod
<1>2. Ready /\ pde' = MapDir(Seen) /\ pte' = MapTables(addr) /\ UNCHANGED <<phase, tlb, ram, low, frame, kds>>
  BY DEF map_io, Ready
<1>3. TypeOK /\ StartInv /\ HeapBound /\ Shape /\ MapType /\ kds \in Nat
  BY <1>2 DEF IInv, DirInv, Ready, TypeOK, MapType, PdeType, PteType
<1>4. v \in Nat /\ (v = 0 \/ v >= KERNEL_PDE * ENTRIES)
  BY <1>1, <1>3, AllocPages
<1> HIDE DEF v, base
<1>5. ASSUME NEW w \in DOMAIN addr PROVE w \in Seen /\ Mappable(w) /\ addr[w] \in Nat
  <2>1. w \in Seen /\ Mappable(w) /\ addr[w] = base + w - v
    OBVIOUS
  <2>2. base + w - v \in Nat
    BY <1>1, <1>4, <2>1
  <2> QED BY <2>1, <2>2
<1> HIDE DEF addr, Seen
<1>6. MapType' /\ Shape' /\ Extended
  BY <1>2, <1>3, <1>5, MapEffect
<1>7. /\ DirInv' /\ KernelIntact' /\ Kept
      /\ \A w \in VPages : IsMapped(w) => IsMapped(w)'
  BY <1>2, <1>6, Grows
<1>8. FramesCount' = FramesCount
  BY <1>2 DEF FramesCount
<1>9. TypeOK' /\ StartInv' /\ HeapBound'
  BY <1>2, <1>3, <1>6, <1>8 DEF TypeOK, MapType, PdeType, PteType, StartInv, HeapBound, Ready
<1>10. HeapMapped'
  <2> SUFFICES ASSUME NEW i \in 0..(Pages(kds) - 1) PROVE IsMapped(HeapPage(i))'
    BY <1>2 DEF HeapMapped
  <2> DEFINE w == HEAP_PDE * ENTRIES + i
  <2>1. /\ Pages(kds) \in Nat /\ HEAP_PDE * ENTRIES \in Nat /\ KERNEL_PDE * ENTRIES \in VPages
        /\ get_kds_end_addr = HEAP_PDE * ENTRIES + Pages(kds)
        /\ get_kds_end_addr <= KERNEL_PDE * ENTRIES
        /\ \A x \in Nat : x <= KERNEL_PDE * ENTRIES => x \in VPages
    BY <1>3, HeapPages
  <2>2. KERNEL_PDE * ENTRIES \in Nat
    BY <2>1 DEF VPages
  <2>3. w \in Nat /\ w <= KERNEL_PDE * ENTRIES
    BY <2>1, <2>2
  <2>4. w \in VPages
    BY <2>1, <2>3
  <2>5. IsMapped(w)
    BY <1>2 DEF IInv, HeapMapped, HeapPage
  <2>6. IsMapped(w)'
    BY <1>7, <2>4, <2>5
  <2> QED BY <2>6 DEF HeapPage
<1>11. ASSUME Clear
       PROVE  /\ Clear'
              /\ n <= HEAP_PDE * ENTRIES => \A w \in Heap : Translate(w)' = Translate(w)
  <2>1. /\ Clear'
        /\ \A w \in VPages : w \notin DOMAIN addr => Translate(w)' = Translate(w)
    BY <1>2, <1>3, <1>5, <1>11, MapOnly
  <2>2. ASSUME NEW w \in Heap, n <= HEAP_PDE * ENTRIES PROVE w \in VPages /\ w \notin DOMAIN addr
    <3>1. /\ HEAP_PDE * ENTRIES \in Nat /\ KERNEL_PDE * ENTRIES \in VPages
          /\ \A x \in Nat : x <= KERNEL_PDE * ENTRIES => x \in VPages
      BY <1>3, HeapPages
    <3>2. KERNEL_PDE * ENTRIES \in Nat
      BY <3>1 DEF VPages
    <3>3. w \in Nat /\ HEAP_PDE * ENTRIES <= w /\ w < KERNEL_PDE * ENTRIES
      BY <3>1, <3>2 DEF Heap
    <3>4. w \notin Seen
      BY <1>1, <1>4, <2>2, <3>1, <3>2, <3>3 DEF Seen
    <3>5. w \notin DOMAIN addr
      BY <1>5, <3>4
    <3>6. w \in VPages
      BY <3>1, <3>2, <3>3
    <3> QED BY <3>5, <3>6
  <2> QED BY <2>1, <2>2
<1> QED BY <1>2, <1>7, <1>9, <1>10, <1>11 DEF IInv

-----------------------------------------------------------------------------
(* The theorems *)

(* What a successful sbrk returns, as FreshHeap has it.                    *)
Fresh ==
  kds' > kds =>
    \A v \in get_kds_end_addr..(get_kds_end_addr + Pages(kds' - kds) - 1) :
      ~IsMapped(v) /\ IsMapped(v)'

(* After boot, no step touches a frame that is in use.                     *)
Used == Ready => \A g \in DOMAIN frame : frame[g].ref # 0 => frame'[g] = frame[g]

LEMMA StepInv ==
  ASSUME IInv, [Next]_vars
  PROVE  IInv' /\ Fresh /\ Used /\ Kept
<1>0. kds \in Nat
  BY DEF IInv, TypeOK
<1>1. ASSUME UNCHANGED <<phase, tlb, ram, pde, pte, low, frame, kds>>
      PROVE  IInv' /\ Fresh /\ Used /\ Kept
  <2>1. TypeOK /\ DirInv /\ StartInv /\ HeapBound /\ KernelIntact /\ HeapMapped
    BY DEF IInv
  <2>2. DirInv' /\ HeapBound' /\ KernelIntact' /\ HeapMapped'
    BY <1>1, <2>1, Frame
  <2>3. TypeOK' /\ StartInv'
    BY <1>1, <2>1 DEF TypeOK, StartInv, Ready, FramesCount
  <2>4. \A v : Translate(v)' = Translate(v)
    BY <1>1 DEF Translate, PteOf
  <2> QED BY <1>0, <1>1, <2>2, <2>3, <2>4 DEF IInv, Fresh, Used, Kept, IsMapped
<1>2. CASE init_page_directory \/ finalize_pagination \/ tlb_evict \/ init_page_tables
  <2>1. IInv'
    BY <1>2, BootInv
  <2>2. kds' = kds /\ ~Ready
    BY <1>2 DEF init_page_directory, finalize_pagination, tlb_evict, init_page_tables, Ready
  <2> QED BY <1>0, <2>1, <2>2 DEF Fresh, Used, Kept
<1>3. CASE init_frame_alloc
  <2>1. kds' = kds /\ ~Ready
    BY <1>3 DEF init_frame_alloc, Ready
  <2> QED BY <1>0, <1>3, <2>1, FrameAllocInv DEF Fresh, Used, Kept
<1>4. ASSUME NEW size \in Increments, sbrk(size) PROVE IInv' /\ Fresh /\ Used /\ Kept
  <2>1. size \in Int /\ Ready /\ UNCHANGED <<phase, tlb, ram>>
    BY <1>4, Consts DEF sbrk, Ready
  <2>2. CASE size = 0 /\ UNCHANGED <<pde, pte, low, frame, kds>>
    BY <1>1, <2>1, <2>2
  <2>3. CASE size > 0 /\ sbrk_refused(size)
    BY <1>1, <2>1, <2>3 DEF sbrk_refused
  <2>4. CASE size > 0 /\ sbrk_map(size)
    <3>1. size \in Nat /\ size >= 1
      BY <2>1, <2>4
    <3> QED BY <2>1, <2>4, <3>1, SbrkMap DEF Fresh, Used
  <2>5. CASE size < 0 /\ sbrk_shrink(size)
    <3>1. IInv' /\ frame' = frame /\ kds' <= kds /\ Kept
      BY <2>1, <2>5, SbrkShrink
    <3>2. kds' \in Nat
      BY <3>1 DEF IInv, TypeOK
    <3> QED BY <1>0, <3>1, <3>2 DEF Fresh, Used
  <2> QED BY <1>4, <2>2, <2>3, <2>4, <2>5 DEF sbrk
<1>5. ASSUME NEW r \in IoRanges, map_io(r) PROVE IInv' /\ Fresh /\ Used /\ Kept
  BY <1>0, <1>5, MapIo DEF Fresh, Used
<1>6. CASE page_fault_handler
  BY <1>1, <1>6 DEF page_fault_handler, vars
<1>7. CASE UNCHANGED vars
  BY <1>1, <1>7 DEF vars
<1> QED BY <1>2, <1>3, <1>4, <1>5, <1>6, <1>7 DEF Next, Boot

(* The inductive invariant: the types, the shape of the directory at every *)
(* stage of the boot, the heap below the kernel, and what is mapped.       *)
THEOREM PagingInvariant == Spec => []IInv
<1>1. IInv /\ [Next]_vars => IInv'
  BY StepInv
<1> QED BY InitInv, <1>1, PTL DEF Spec

(* The directory, the tables and the frame table keep their types.         *)
THEOREM PagingTypeOK == Spec => []TypeOK
<1>1. IInv => TypeOK
  BY DEF IInv
<1> QED BY PagingInvariant, <1>1, PTL

(* The kernel, the page tables and the frame table stay mapped where boot  *)
(* put them, whatever sbrk and map_io are asked for, and however many page *)
(* tables the frame table takes.                                           *)
THEOREM PagingKernelIntact == Spec => []KernelIntact
<1>1. IInv => KernelIntact
  BY DEF IInv
<1> QED BY PagingInvariant, <1>1, PTL

(* Every byte below the break is mapped.                                   *)
THEOREM PagingHeapMapped == Spec => []HeapMapped
<1>1. IInv => HeapMapped
  BY DEF IInv
<1> QED BY PagingInvariant, <1>1, PTL

(* The memory a successful sbrk returns was unmapped and is mapped.        *)
THEOREM PagingFreshHeap == Spec => FreshHeap
<1>1. IInv /\ [Next]_vars => [Fresh]_vars
  BY StepInv
<1> QED BY PagingInvariant, <1>1, PTL DEF Spec, FreshHeap, Fresh

(* The frame table does not end on a page boundary.                        *)
PartialLastPage ==
  \A len \in RamLengths : ((len - KERNEL_SIZE_IN_RAM) * SIZEOF_FRAME) % FRAME_SIZE # 0

(* init_ram_frames finds the physical end of the frame table only where    *)
(* the page after its last byte is mapped: the last page of the table.     *)
LEMMA ReservedInit ==
  ASSUME PartialLastPage, IInv, init_frame_alloc
  PROVE  KernelFramesReserved'
<1> DEFINE F == FRAME_SIZE
           j == MetaSize \div F
           m == MetaSize % F
           b == FRAMES_PDE * ENTRIES
           fend == get_physaddr(pde', pte', MetaEnd)
<1>1. /\ ENTRIES \in Nat /\ ENTRIES >= 1 /\ F \in Nat /\ F >= 1 /\ FRAMES_PDE \in Nat
      /\ RAM_BASE \in Nat /\ b \in Nat
  BY Consts, MulMono
<1>2. TypeOK /\ ram \in RamLengths
  BY DEF IInv, TypeOK
<1>3. MetaSize \in Nat /\ m # 0 /\ MetaPages' = MetaPages
  BY <1>2, MetaFacts DEF PartialLastPage, MetaSize, FramesCount, init_frame_alloc, MetaPages
<1>4. j \in Nat /\ m \in 0..(F - 1) /\ MetaSize = j * F + m
  BY <1>1, <1>3, DivMod
<1>5. MetaPages = j + 1
  BY <1>3, <1>4 DEF MetaPages, Pages
<1> HIDE DEF F, j, m
<1>6. MetaEnd = (b + j) * F + m
  <2>1. FRAMES_PDE * ENTRIES * FRAME_SIZE = b * F
    BY DEF F
  <2>2. (b + j) * F = b * F + j * F
    BY <1>1, <1>4
  <2>3. b * F \in Nat /\ j * F \in Nat
    BY <1>1, <1>4, MulMono
  <2> HIDE DEF b
  <2> QED BY <1>4, <2>1, <2>2, <2>3 DEF MetaEnd
<1>7. MetaEnd \div F = b + j /\ MetaEnd % F = m
  <2>1. b + j \in Nat
    BY <1>1, <1>4
  <2> HIDE DEF b
  <2> QED BY <1>1, <1>4, <1>6, <2>1, DivModOf
<1>8. fend = (2 * ENTRIES + j) * F + m
  <2> DEFINE v == b + j
             d == FRAMES_PDE + (j \div ENTRIES)
             p == pte'[ENTRIES + d][j % ENTRIES]
  <2>1. j \in 0..(MetaPages - 1)
    BY <1>4, <1>5
  <2>2. /\ v \div ENTRIES = d /\ v % ENTRIES = j % ENTRIES
        /\ pde'[d].pres = TRUE /\ pde'[d].big = FALSE /\ pde'[d].ptaddr = ENTRIES + d
        /\ p.pres = TRUE /\ p.addr = 2 * ENTRIES + j
    BY <2>1, FrameTableMapped
  <2> HIDE DEF v, b, d
  <2>3. MetaEnd \div FRAME_SIZE = v /\ MetaEnd % FRAME_SIZE = m
    BY <1>7 DEF v, F
  <2>4. fend = p.addr * FRAME_SIZE + m
    BY <2>2, <2>3 DEF get_physaddr
  <2> QED BY <2>2, <2>4 DEF F
<1>9. frame' = init_ram_frames(fend)
  BY DEF init_frame_alloc
<1> HIDE DEF fend, b
<1>10. ASSUME NEW q \in RAM_BASE..(2 * ENTRIES + MetaPages - 1), q - RAM_BASE \in DOMAIN frame'
       PROVE  frame'[q - RAM_BASE].ref = 1
  <2> DEFINE f == q - RAM_BASE
             e == 2 * ENTRIES + j
  <2>1. e \in Nat /\ q \in Nat /\ RAM_BASE + f = q /\ q <= e
    BY <1>1, <1>4, <1>5
  <2> HIDE DEF e
  <2>2. q * F \in Nat /\ e * F \in Nat /\ q * F <= e * F
    BY <1>1, <2>1, MulMono
  <2>3. q * F < e * F + m
    BY <1>3, <1>4, <2>2
  <2>4. (RAM_BASE + f) * FRAME_SIZE < fend
    BY <1>8, <2>1, <2>3 DEF F, e
  <2>5. f \in 0..(FramesCount - 1)
    BY <1>9, <1>10 DEF init_ram_frames
  <2> HIDE DEF f
  <2>6. frame'[f].ref = 1
    BY <1>9, <2>4, <2>5 DEF init_ram_frames
  <2> QED BY <2>6 DEF f
<1> QED BY <1>3, <1>10 DEF KernelFramesReserved

(* No frame of the kernel, the page tables or the frame table is ever free *)
(* if the frame table does not end on a page boundary.  When it does, the  *)
(* address after its end is not mapped, and get_physaddr answers NULL.     *)
THEOREM PagingKernelFramesReserved ==
  ASSUME PartialLastPage
  PROVE  Spec => []KernelFramesReserved
<1>1. Init => KernelFramesReserved
  BY DEF Init, KernelFramesReserved, Ready
<1>2. IInv /\ KernelFramesReserved /\ [Next]_vars => KernelFramesReserved'
  <2> SUFFICES ASSUME IInv, KernelFramesReserved, [Next]_vars PROVE KernelFramesReserved'
    OBVIOUS
  <2>1. CASE init_frame_alloc
    BY <2>1, ReservedInit
  <2>2. CASE ~Ready /\ ~init_frame_alloc
    <3>1. ~Ready'
      BY <2>2 DEF Next, Boot, init_page_directory, finalize_pagination, tlb_evict,
                  init_page_tables, sbrk, map_io, page_fault_handler, vars, Ready
    <3> QED BY <3>1 DEF KernelFramesReserved
  <2>3. CASE Ready
    <3>1. IInv' /\ Used
      BY StepInv
    <3>2. ram' = ram /\ Ready'
      BY <2>3 DEF Next, Boot, init_page_directory, finalize_pagination, tlb_evict,
                  init_page_tables, init_frame_alloc, sbrk, map_io, page_fault_handler, vars, Ready
    <3>3. DOMAIN frame' = DOMAIN frame /\ MetaPages' = MetaPages
      BY <2>3, <3>1, <3>2 DEF IInv, StartInv, FramesCount, MetaPages, MetaSize
    <3>4. \A g \in DOMAIN frame : frame[g].ref = 1 => frame'[g].ref = 1
      BY <2>3, <3>1 DEF Used
    <3> QED BY <2>3, <3>3, <3>4 DEF KernelFramesReserved
  <2> QED BY <2>1, <2>2, <2>3
<1> QED BY PagingInvariant, <1>1, <1>2, PTL DEF Spec

(* FrameBacking page by page: the frames with two references and the pages *)
(* of the heap that are mapped name each other.                            *)
Backing ==
  /\ \A f \in DOMAIN frame : frame[f].ref \in 0..2
  /\ \A f \in DOMAIN frame : frame[f].ref = 2 =>
       \E w \in Heap : frame[f].vaddr = w * FRAME_SIZE /\ IsMapped(w)
  /\ \A w \in Heap : IsMapped(w) =>
       \E f \in DOMAIN frame : frame[f].ref = 2 /\ frame[f].vaddr = w * FRAME_SIZE
  /\ \A f, g \in DOMAIN frame :
       frame[f].ref = 2 /\ frame[g].ref = 2 /\ frame[f].vaddr = frame[g].vaddr => f = g

BackInv ==
  /\ phase = "tables" => /\ \A d \in Other : pde[d].pres = FALSE
                         /\ \A t \in Table, i \in Dir : pte[t][i].pres = FALSE
  /\ Ready => Clear /\ Backing

(* Two pages at the same address are one page.                             *)
LEMMA SamePage ==
  ASSUME NEW a \in Nat, NEW b \in Nat, a * FRAME_SIZE = b * FRAME_SIZE
  PROVE  a = b
<1>1. FRAME_SIZE \in Nat /\ FRAME_SIZE >= 1
  BY Consts
<1>2. /\ a * FRAME_SIZE \in Nat /\ b * FRAME_SIZE \in Nat
      /\ a < b => a * FRAME_SIZE + FRAME_SIZE <= b * FRAME_SIZE
      /\ b < a => b * FRAME_SIZE + FRAME_SIZE <= a * FRAME_SIZE
  BY <1>1, MulMono
<1> QED BY ONLY <1>1, <1>2, a \in Nat, b \in Nat, a * FRAME_SIZE = b * FRAME_SIZE

LEMMA HeapFacts ==
  ASSUME TypeOK, HeapBound
  PROVE  \A w \in Heap : /\ w \in Nat /\ w \in VPages
                         /\ w \div ENTRIES \in Other /\ w \div ENTRIES < KERNEL_PDE
<1> SUFFICES ASSUME NEW w \in Heap
             PROVE  /\ w \in Nat /\ w \in VPages
                    /\ w \div ENTRIES \in Other /\ w \div ENTRIES < KERNEL_PDE
  OBVIOUS
<1>1. /\ HEAP_PDE * ENTRIES \in Nat /\ KERNEL_PDE * ENTRIES \in VPages
      /\ \A x \in Nat : x <= KERNEL_PDE * ENTRIES => x \in VPages
  BY HeapPages
<1>2. KERNEL_PDE * ENTRIES \in Nat
  BY <1>1 DEF VPages
<1>3. w \in Nat /\ w < KERNEL_PDE * ENTRIES
  BY <1>1, <1>2 DEF Heap
<1>4. w \in VPages
  BY <1>1, <1>2, <1>3
<1> DEFINE d == w \div ENTRIES
<1>5. d \in Dir /\ w % ENTRIES \in Dir /\ w = d * ENTRIES + (w % ENTRIES)
  BY <1>4, PageParts
<1> HIDE DEF d
<1>6. d < KERNEL_PDE
  <2>1. /\ ENTRIES \in Nat /\ ENTRIES >= 1 /\ KERNEL_PDE \in Nat /\ d \in Nat /\ w % ENTRIES \in Nat
    BY <1>5, Consts DEF Dir
  <2>2. d * ENTRIES \in Nat /\ (KERNEL_PDE <= d <=> KERNEL_PDE * ENTRIES <= d * ENTRIES)
    BY <2>1, MulMono
  <2> DEFINE y == d * ENTRIES
             z == KERNEL_PDE * ENTRIES
  <2>3. y \in Nat /\ z \in Nat /\ (KERNEL_PDE <= d <=> z <= y) /\ w < z /\ w = y + (w % ENTRIES)
    BY <1>2, <1>3, <1>5, <2>2
  <2> HIDE DEF y, z
  <2> QED BY ONLY <2>1, <2>3, w \in Nat
<1>7. d \in Other
  BY <1>5, <1>6, Consts DEF Other, Dir
<1> QED BY <1>3, <1>4, <1>6, <1>7 DEF d

LEMMA BackingGrows ==
  ASSUME IInv, Ready, Backing, NEW f \in Nat, NEW k \in Nat, MapsFrames(f, k),
         DOMAIN frame' = DOMAIN frame
  PROVE  Backing'
<1> DEFINE v == get_kds_end_addr
           new == f..(f + k - 1)
           Page(g) == v + g - f
<1>1. /\ f + k <= FramesCount /\ v + k <= KERNEL_PDE * ENTRIES
      /\ \A g \in new : /\ frame[g].ref = 0 /\ frame'[g].ref = 2
                        /\ frame'[g].vaddr = Page(g) * FRAME_SIZE
      /\ \A g \in DOMAIN frame : g \notin new =>
           frame'[g] = frame[g] \/ (frame[g].ref = 0 /\ frame'[g].ref = 1)
      /\ \A w \in v..(v + k - 1) : ~IsMapped(w) /\ IsMapped(w)'
      /\ \A w \in VPages : w \notin v..(v + k - 1) => Translate(w)' = Translate(w)
  BY DEF MapsFrames
<1>2. TypeOK /\ HeapBound /\ DOMAIN frame = 0..(FramesCount - 1) /\ FramesCount \in Nat
  BY MetaFacts DEF IInv, StartInv
<1>3. /\ v \in Nat /\ HEAP_PDE * ENTRIES \in Nat /\ HEAP_PDE * ENTRIES <= v
      /\ KERNEL_PDE * ENTRIES \in Nat
  BY <1>2, HeapPages DEF VPages
<1> HIDE DEF v
<1>4. \A w \in Heap : w \in Nat /\ w \in VPages
  BY <1>2, HeapFacts
<1>5. ASSUME NEW g \in new PROVE Page(g) \in v..(v + k - 1) /\ Page(g) \in Heap /\ g \in DOMAIN frame
  BY <1>1, <1>2, <1>3 DEF Heap
<1>6. ASSUME NEW w \in v..(v + k - 1) PROVE f + (w - v) \in new /\ Page(f + (w - v)) = w
  BY <1>3
<1>7. ASSUME NEW w \in Heap, w \notin v..(v + k - 1) PROVE IsMapped(w)' = IsMapped(w)
  <2>1. Translate(w)' = Translate(w)
    BY <1>1, <1>4, <1>7
  <2> QED BY <2>1 DEF IsMapped
<1>8. ASSUME NEW g \in DOMAIN frame, g \notin new, frame'[g].ref = 2
      PROVE  /\ frame'[g] = frame[g] /\ frame[g].ref = 2
             /\ \E w \in Heap : /\ frame[g].vaddr = w * FRAME_SIZE /\ IsMapped(w)
                                /\ IsMapped(w)' /\ w \notin v..(v + k - 1)
  <2>1. frame'[g] = frame[g] /\ frame[g].ref = 2
    BY <1>1, <1>8
  <2>2. PICK w \in Heap : frame[g].vaddr = w * FRAME_SIZE /\ IsMapped(w)
    BY <2>1 DEF Backing
  <2>3. w \notin v..(v + k - 1)
    BY <1>1, <2>2
  <2> QED BY <1>7, <2>1, <2>2, <2>3
<1>9. ASSUME NEW g \in DOMAIN frame PROVE frame'[g].ref \in 0..2
  <2>1. frame[g].ref \in 0..2
    BY DEF Backing
  <2> QED BY <1>1, <2>1
<1>10. ASSUME NEW g \in DOMAIN frame, frame'[g].ref = 2
       PROVE  \E w \in Heap : frame'[g].vaddr = w * FRAME_SIZE /\ IsMapped(w)'
  <2>1. CASE g \in new
    <3>1. Page(g) \in v..(v + k - 1) /\ Page(g) \in Heap /\ frame'[g].vaddr = Page(g) * FRAME_SIZE
      BY <1>1, <1>5, <2>1
    <3>2. PICK w \in v..(v + k - 1) : w = Page(g)
      BY <3>1
    <3>3. IsMapped(w)'
      BY <1>1
    <3> QED BY <3>1, <3>2, <3>3
  <2>2. CASE g \notin new
    BY <1>8, <1>10, <2>2
  <2> QED BY <2>1, <2>2
<1>11. ASSUME NEW w \in Heap, IsMapped(w)'
       PROVE  \E g \in DOMAIN frame : frame'[g].ref = 2 /\ frame'[g].vaddr = w * FRAME_SIZE
  <2>1. CASE w \in v..(v + k - 1)
    <3> DEFINE g == f + (w - v)
    <3>1. g \in new /\ Page(g) = w
      BY <1>6, <2>1
    <3> HIDE DEF g
    <3> QED BY <1>1, <1>5, <3>1
  <2>2. CASE w \notin v..(v + k - 1)
    <3>1. IsMapped(w)
      BY <1>7, <1>11, <2>2
    <3>2. PICK g \in DOMAIN frame : frame[g].ref = 2 /\ frame[g].vaddr = w * FRAME_SIZE
      BY <3>1 DEF Backing
    <3>3. frame'[g] = frame[g]
      BY <1>1, <3>2
    <3> QED BY <3>2, <3>3
  <2> QED BY <2>1, <2>2
<1>12. ASSUME NEW g \in DOMAIN frame, NEW h \in DOMAIN frame, g \in new, h \notin new,
              frame'[g].ref = 2, frame'[h].ref = 2, frame'[g].vaddr = frame'[h].vaddr
       PROVE  FALSE
  <2>1. Page(g) \in v..(v + k - 1) /\ Page(g) \in Heap /\ frame'[g].vaddr = Page(g) * FRAME_SIZE
    BY <1>1, <1>5, <1>12
  <2>2. PICK w \in Heap : /\ frame[h].vaddr = w * FRAME_SIZE /\ frame'[h] = frame[h]
                          /\ w \notin v..(v + k - 1)
    BY <1>8, <1>12
  <2> DEFINE x == Page(g)
  <2>3. x \in Nat /\ w \in Nat
    BY <1>4, <2>1
  <2>4. x * FRAME_SIZE = w * FRAME_SIZE
    BY <1>12, <2>1, <2>2
  <2> HIDE DEF x
  <2>5. x = w
    BY <2>3, <2>4, SamePage
  <2> QED BY <2>1, <2>2, <2>5 DEF x
<1>13. ASSUME NEW g \in DOMAIN frame, NEW h \in DOMAIN frame, g \in new, h \in new,
              frame'[g].vaddr = frame'[h].vaddr
       PROVE  g = h
  <2> DEFINE x == Page(g)
             y == Page(h)
  <2>1. x \in Heap /\ y \in Heap /\ x * FRAME_SIZE = y * FRAME_SIZE
    BY <1>1, <1>5, <1>13
  <2>2. x \in Nat /\ y \in Nat
    BY <1>4, <2>1
  <2> HIDE DEF x, y
  <2>3. x = y
    BY <2>1, <2>2, SamePage
  <2> QED BY <1>3, <1>13, <2>3 DEF x, y
<1>14. ASSUME NEW g \in DOMAIN frame, NEW h \in DOMAIN frame, g \notin new, h \notin new,
              frame'[g].ref = 2, frame'[h].ref = 2, frame'[g].vaddr = frame'[h].vaddr
       PROVE  g = h
  <2>1. frame'[g] = frame[g] /\ frame'[h] = frame[h]
    BY <1>8, <1>14
  <2> QED BY <1>14, <2>1 DEF Backing
<1> QED BY <1>9, <1>10, <1>11, <1>12, <1>13, <1>14 DEF Backing

(* No range that map_io is asked for reaches from page 0 into the heap.    *)
IoBelowHeap == \A r \in IoRanges : Pages(r.len) <= HEAP_PDE * ENTRIES

LEMMA BackInit ==
  ASSUME IInv, BackInv, init_frame_alloc
  PROVE  BackInv'
<1>0. /\ KERNEL_PDE \in Nat /\ FRAMES_PDE = KERNEL_PDE + 2 /\ ENTRIES \in Nat
  BY Consts
<1>1. /\ \A d \in Other : pde[d].pres = FALSE
      /\ \A t \in Table, i \in Dir : pte[t][i].pres = FALSE
      /\ phase' = "ready" /\ Shape
  BY DEF BackInv, init_frame_alloc, IInv, DirInv
<1>2. IInv'
  BY FrameAllocInv
<1>3. ASSUME NEW d \in Other, NEW i \in Dir
      PROVE  /\ ENTRIES + d \in Table /\ (ENTRIES + d) - ENTRIES = d /\ d \in Dir
             /\ d - FRAMES_PDE \in 0..(FramesPdes - 1) => pde'[d].pres = TRUE
             /\ d - FRAMES_PDE \notin 0..(FramesPdes - 1) =>
                  pde'[d].pres = FALSE /\ pte'[ENTRIES + d][i].pres = FALSE
  <2> DEFINE t == ENTRIES + d
  <2>1. t \in Table /\ t - ENTRIES = d /\ d \in Dir
    BY <1>0 DEF Table, Other, Dir
  <2>2. pde[d] \in PdeType /\ pde[d].pres = FALSE
    BY <1>1, <2>1 DEF IInv, TypeOK, PdeType
  <2>3. [pde[d] EXCEPT !.pres = TRUE, !.big = FALSE].pres = TRUE
    BY <2>2 DEF PdeType
  <2>4. pde'[d] = IF d - FRAMES_PDE \in 0..(FramesPdes - 1)
                  THEN [pde[d] EXCEPT !.pres = TRUE, !.big = FALSE] ELSE pde[d]
    BY <2>1 DEF init_frame_alloc, DirWithFrames
  <2>5. d - FRAMES_PDE \notin 0..(FramesPdes - 1) => ~FramePage(d, i)
    BY DEF FramePage
  <2> HIDE DEF t
  <2>6. pte'[t][i] = IF FramePage(t - ENTRIES, i)
                     THEN [pres |-> TRUE,
                           addr |-> 2 * ENTRIES + (t - ENTRIES - FRAMES_PDE) * ENTRIES + i]
                     ELSE pte[t][i]
    BY <2>1 DEF init_frame_alloc, TablesWithFrames
  <2>7. d - FRAMES_PDE \notin 0..(FramesPdes - 1) => pte'[t][i].pres = FALSE
    BY <1>1, <2>1, <2>5, <2>6
  <2> QED BY <2>1, <2>2, <2>3, <2>4, <2>7 DEF t
<1>4. Clear'
  BY <1>3 DEF Clear
<1>5. ASSUME NEW w \in Heap PROVE ~IsMapped(w)'
  <2> DEFINE d == w \div ENTRIES
  <2>1. d \in Other /\ d < KERNEL_PDE
    BY HeapFacts DEF IInv
  <2>2. 0 \in Dir
    BY Consts DEF Dir
  <2> HIDE DEF d
  <2>4. d - FRAMES_PDE \notin 0..(FramesPdes - 1)
    BY <1>0, <2>1 DEF Other, Dir
  <2>5. pde'[d].pres = FALSE
    BY <1>3, <2>1, <2>2, <2>4
  <2> QED BY <2>5 DEF IsMapped, Translate, d
<1>6. \A f \in DOMAIN frame' : frame'[f].ref \in {0, 1}
  <2> DEFINE fend == get_physaddr(DirWithFrames, TablesWithFrames, MetaEnd)
  <2>1. frame' = init_ram_frames(fend)
    BY DEF init_frame_alloc
  <2> HIDE DEF fend
  <2> QED BY <2>1 DEF init_ram_frames
<1>7. Backing'
  BY <1>5, <1>6 DEF Backing
<1> QED BY <1>1, <1>4, <1>7 DEF BackInv

(* The frame table and the page tables agree on the heap, for every heap   *)
(* and however often sbrk failed half way, as long as map_io, which may    *)
(* return page 0, stays out of the heap.                                   *)
THEOREM PagingFrameBacking ==
  ASSUME IoBelowHeap
  PROVE  Spec => []FrameBacking
<1>1. Init => BackInv
  BY DEF Init, BackInv, Ready
<1>2. IInv /\ BackInv /\ [Next]_vars => BackInv'
  <2> SUFFICES ASSUME IInv, BackInv, [Next]_vars PROVE BackInv'
    OBVIOUS
  <2>0. IInv'
    BY StepInv
  <2>1. CASE init_page_directory \/ finalize_pagination \/ tlb_evict
    BY <2>1 DEF init_page_directory, finalize_pagination, tlb_evict, BackInv, Ready
  <2>2. CASE init_page_tables
    <3>1. CASE ~tlb
      BY <2>2, <3>1 DEF init_page_tables, BackInv, Ready
    <3>2. CASE tlb
      <4>1. ASSUME NEW d \in Other PROVE pde'[d].pres = FALSE
        <5>1. d \in Dir /\ pde[d] = NoPde
          BY <2>2 DEF init_page_tables, IInv, DirInv, Other
        <5>2. pde[d].pres = FALSE /\ pde[d] \in PdeType
          BY <5>1 DEF NoPde, PdeType
        <5>3. pde'[d] = [pde[d] EXCEPT !.ptaddr = ENTRIES + d]
          BY <2>2, <3>2, <5>1, <5>2 DEF init_page_tables
        <5> QED BY <5>2, <5>3 DEF PdeType
      <4>2. ASSUME NEW t \in Table, NEW i \in Dir PROVE pte'[t][i].pres = FALSE
        BY <2>2, <3>2 DEF init_page_tables, NoPte
      <4>3. phase' = "tables"
        BY <2>2, <3>2 DEF init_page_tables
      <4> QED BY <4>1, <4>2, <4>3 DEF BackInv, Ready
    <3> QED BY <3>1, <3>2
  <2>3. CASE init_frame_alloc
    BY <2>3, BackInit
  <2>4. ASSUME UNCHANGED <<phase, pde, pte, frame>> PROVE BackInv'
    <3>1. \A w : Translate(w)' = Translate(w)
      BY <2>4 DEF Translate, PteOf
    <3>2. \A w : IsMapped(w)' = IsMapped(w)
      BY <3>1 DEF IsMapped
    <3>3. Backing => Backing'
      BY <2>4, <3>2 DEF Backing
    <3> QED BY <2>4, <3>3 DEF BackInv, Ready, Clear
  <2>5. ASSUME NEW size \in Increments, sbrk(size) PROVE BackInv'
    <3>1. size \in Int /\ Ready /\ UNCHANGED <<phase, tlb, ram>> /\ Clear /\ Backing
      BY <2>5, Consts DEF sbrk, Ready, BackInv
    <3>2. CASE size > 0 /\ sbrk_map(size)
      <4>1. size \in Nat /\ size >= 1
        BY <3>1, <3>2
      <4>2. Clear' /\ \E f, k \in Nat : MapsFrames(f, k)
        BY <3>1, <3>2, <4>1, SbrkMap
      <4>3. DOMAIN frame' = DOMAIN frame
        BY <2>0, <3>1 DEF IInv, StartInv, Ready, FramesCount
      <4>4. Backing'
        BY <3>1, <4>2, <4>3, BackingGrows
      <4> QED BY <3>1, <4>2, <4>4 DEF BackInv, Ready
    <3>3. CASE size = 0 /\ UNCHANGED <<pde, pte, low, frame, kds>>
      BY <2>4, <3>1, <3>3
    <3>4. CASE size > 0 /\ sbrk_refused(size)
      BY <2>4, <3>1, <3>4 DEF sbrk_refused
    <3>5. CASE size < 0 /\ sbrk_shrink(size)
      BY <2>4, <3>1, <3>5 DEF sbrk_shrink, unmap_pages
    <3> QED BY <2>5, <3>2, <3>3, <3>4, <3>5 DEF sbrk
  <2>6. ASSUME NEW r \in IoRanges, map_io(r) PROVE BackInv'
    <3>1. Ready /\ UNCHANGED <<phase, frame>> /\ Clear /\ Backing
      BY <2>6 DEF map_io, Ready, BackInv
    <3>2. Clear' /\ \A w \in Heap : Translate(w)' = Translate(w)
      BY <2>6, <3>1, MapIo DEF IoBelowHeap
    <3>3. \A w \in Heap : IsMapped(w)' = IsMapped(w)
      BY <3>2 DEF IsMapped
    <3>4. Backing'
      BY <3>1, <3>3 DEF Backing
    <3> QED BY <3>1, <3>2, <3>4 DEF BackInv, Ready
  <2>7. CASE page_fault_handler \/ UNCHANGED vars
    BY <2>4, <2>7 DEF page_fault_handler, vars
  <2> QED BY <2>1, <2>2, <2>3, <2>5, <2>6, <2>7 DEF Next, Boot
<1>3. IInv /\ BackInv => FrameBacking
  <2> SUFFICES ASSUME IInv, BackInv, Ready PROVE FrameBacking
    BY DEF FrameBacking
  <2> DEFINE mapped == {f \in DOMAIN frame : frame[f].ref = 2}
             backed == {frame[f].vaddr \div FRAME_SIZE : f \in mapped}
  <2>1. Backing
    BY DEF BackInv
  <2>2. ASSUME NEW w \in Heap PROVE (w * FRAME_SIZE) \div FRAME_SIZE = w
    <3>1. w \in Nat /\ FRAME_SIZE \in Nat /\ FRAME_SIZE >= 1 /\ 0 \in 0..(FRAME_SIZE - 1)
      BY HeapFacts, Consts DEF IInv
    <3>2. (w * FRAME_SIZE + 0) \div FRAME_SIZE = w
      BY <3>1, DivModOf
    <3>3. w * FRAME_SIZE \in Nat
      BY <3>1, MulMono
    <3> QED BY <3>2, <3>3
  <2>3. ASSUME NEW x \in backed PROVE x \in Heap /\ IsMapped(x)
    <3>1. PICK f \in mapped : x = frame[f].vaddr \div FRAME_SIZE
      OBVIOUS
    <3>2. PICK w \in Heap : frame[f].vaddr = w * FRAME_SIZE /\ IsMapped(w)
      BY <2>1 DEF Backing
    <3> QED BY <2>2, <3>1, <3>2
  <2>4. ASSUME NEW w \in Heap, IsMapped(w) PROVE w \in backed
    <3>1. PICK f \in DOMAIN frame : frame[f].ref = 2 /\ frame[f].vaddr = w * FRAME_SIZE
      BY <2>1, <2>4 DEF Backing
    <3>2. f \in mapped /\ frame[f].vaddr \div FRAME_SIZE = w
      BY <2>2, <3>1
    <3> QED BY <3>2
  <2>5. backed = {v \in Heap : IsMapped(v)}
    <3> HIDE DEF backed
    <3> QED BY <2>3, <2>4
  <2>6. \A f, g \in mapped : frame[f].vaddr = frame[g].vaddr => f = g
    BY <2>1 DEF Backing
  <2> HIDE DEF mapped
  <2>7. \A f \in DOMAIN frame : frame[f].ref \in 0..2
    BY <2>1 DEF Backing
  <2> QED BY <2>5, <2>6, <2>7 DEF FrameBacking, Heap, mapped
<1> QED BY PagingInvariant, <1>1, <1>2, <1>3, PTL DEF Spec

(* The table that holds the end of the frame table starts with a page of   *)
(* it, so that the search of alloc_pages never starts with a free page.    *)
LEMMA FirstTable ==
  ASSUME IInv, Ready
  PROVE  /\ FirstPde \in Other /\ FirstPde * ENTRIES \in VPages
         /\ HasTable(FirstPde) /\ PteOf(FirstPde * ENTRIES).pres = TRUE
<1> DEFINE S == ENTRIES * FRAME_SIZE
           Q == MetaSize \div S
           m == MetaSize % S
           x == m \div FRAME_SIZE
           y == m % FRAME_SIZE
           D == FRAMES_PDE + Q
<1>1. /\ ENTRIES \in Nat /\ ENTRIES >= 1 /\ FRAME_SIZE \in Nat /\ FRAME_SIZE >= 1
      /\ FRAMES_PDE \in Nat /\ FRAMES_PDE = KERNEL_PDE + 2 /\ PAGE_TABLES_PDE = KERNEL_PDE + 1
      /\ KERNEL_PDE \in Nat
  BY Consts
<1>2. TypeOK /\ Shape /\ MapType /\ MetaSize \in Nat /\ m # 0
  BY MetaFacts DEF IInv, DirInv, Ready, TypeOK, MapType, PdeType, PteType
<1>3. S \in Nat /\ S >= 1
  <2>1. 1 * FRAME_SIZE <= ENTRIES * FRAME_SIZE /\ ENTRIES * FRAME_SIZE \in Nat
    BY <1>1, MulMono, 1 \in Nat
  <2> QED BY <1>1, <2>1
<1>4. Q \in Nat /\ m \in 0..(S - 1) /\ MetaSize = Q * S + m
  <2> HIDE DEF S
  <2> QED BY <1>2, <1>3, DivMod
<1>5. FramesPdes = Q + 1
  <2>1. FramesPdes = Q + (IF m > 0 THEN 1 ELSE 0)
    BY DEF FramesPdes
  <2> HIDE DEF S, Q, m
  <2> QED BY <1>2, <1>3, <1>4, <2>1
<1>6. D \in Dir /\ D \in Nat
  <2>1. FRAMES_PDE + FramesPdes <= ENTRIES
    BY <1>2, FramePages
  <2> HIDE DEF Q
  <2> QED BY <1>1, <1>4, <1>5, <2>1 DEF Dir
<1> HIDE DEF Q, m
<1>7. x \in Nat /\ y \in 0..(FRAME_SIZE - 1) /\ m = x * FRAME_SIZE + y /\ m \in Nat
  <2>1. m \in Nat
    BY <1>3, <1>4
  <2> QED BY <1>1, <2>1, DivMod
<1> HIDE DEF x, y
<1>8. x \in 0..(ENTRIES - 1)
  <2>1. /\ x * FRAME_SIZE \in Nat
        /\ ENTRIES <= x <=> ENTRIES * FRAME_SIZE <= x * FRAME_SIZE
    BY <1>1, <1>7, MulMono
  <2>2. x * FRAME_SIZE < S
    BY <1>1, <1>3, <1>4, <1>7, <2>1
  <2>3. ~(S <= x * FRAME_SIZE)
    BY <1>3, <2>1, <2>2
  <2>4. ~(ENTRIES <= x)
    BY <2>1, <2>3
  <2> QED BY ONLY <1>1, <1>7, <2>4
<1>9. MetaEnd = (D * ENTRIES + x) * FRAME_SIZE + y
  <2>1. FRAMES_PDE * ENTRIES * FRAME_SIZE = FRAMES_PDE * S
    BY <1>1
  <2>2. (D * ENTRIES + x) * FRAME_SIZE = FRAMES_PDE * S + Q * S + x * FRAME_SIZE
    BY <1>1, <1>4, <1>7
  <2>3. FRAMES_PDE * S \in Nat /\ Q * S \in Nat /\ x * FRAME_SIZE \in Nat
    BY <1>1, <1>3, <1>4, <1>7, MulMono
  <2> HIDE DEF S
  <2> QED BY <1>4, <1>7, <2>1, <2>2, <2>3 DEF MetaEnd
<1> HIDE DEF S
<1>10. FirstPde = D
  <2> DEFINE v == D * ENTRIES + x
  <2>1. v \in Nat /\ v \div ENTRIES = D
    BY <1>1, <1>6, <1>8, DivModOf
  <2> HIDE DEF v
  <2>2. (v * FRAME_SIZE + y) \div FRAME_SIZE = v
    BY <1>1, <1>7, <2>1, DivModOf
  <2>3. MetaEnd = v * FRAME_SIZE + y
    BY <1>9 DEF v
  <2> QED BY <2>1, <2>2, <2>3 DEF FirstPde
<1>11. D \in Other
  BY <1>1, <1>4, <1>6 DEF Other
<1> DEFINE w == D * ENTRIES
<1>12. 0 \in Dir
  BY <1>1 DEF Dir
<1>13. w \in VPages /\ w \div ENTRIES = D /\ w % ENTRIES = 0 /\ w \in Nat
  <2>1. /\ w + 0 \in VPages /\ (w + 0) \div ENTRIES = D /\ (w + 0) % ENTRIES = 0
    BY <1>6, <1>12, PageOf
  <2>2. w \in Nat
    BY <1>1, <1>6, MulMono
  <2> HIDE DEF w
  <2> QED BY <2>1, <2>2
<1>14. IsMapped(w)
  <2> DEFINE i == Q * ENTRIES
  <2>1. i \in Nat /\ w = FRAMES_PDE * ENTRIES + i
    BY <1>1, <1>4, MulMono
  <2>2. i * FRAME_SIZE < MetaSize
    <3>1. i * FRAME_SIZE = Q * S
      BY <1>1, <1>4 DEF S
    <3>2. Q * S \in Nat
      BY <1>3, <1>4, MulMono
    <3> QED BY <1>2, <1>4, <1>7, <3>1, <3>2
  <2> HIDE DEF i, w
  <2>3. i \in 0..(MetaPages - 1)
    <3>1. MetaPages \in Nat /\ (i < MetaPages <=> i * FRAME_SIZE < MetaSize)
      BY <1>2, <2>1, PagesOf DEF MetaPages
    <3> QED BY <2>1, <2>2, <3>1
  <2>4. Translate(FRAMES_PDE * ENTRIES + i) = 2 * ENTRIES + i
    BY <2>3 DEF IInv, KernelIntact
  <2>5. 2 * ENTRIES + i \in Nat
    BY <1>1, <2>1
  <2> QED BY <2>1, <2>4, <2>5 DEF IsMapped, NONE
<1> HIDE DEF w
<1>15. /\ pde[D] \in PdeType /\ pde[D].big = FALSE /\ PteOf(w) \in PteType
  BY <1>2, <1>11, <1>13, EntryOf
<1>16. pde[D].pres = TRUE /\ PteOf(w).pres = TRUE
  <2>1. pde[D].pres \in BOOLEAN /\ PteOf(w).pres \in BOOLEAN
    BY <1>15 DEF PdeType, PteType
  <2>2. pde[D].pres
    BY <1>13, <1>14 DEF IsMapped, Translate
  <2>3. PteOf(w).pres
    BY <1>13, <1>14, <1>15 DEF IsMapped, Translate
  <2> QED BY <2>1, <2>2, <2>3
<1> QED BY <1>10, <1>11, <1>13, <1>15, <1>16 DEF w, HasTable

(* alloc_pages returns NULL only when there is no run of n free pages.     *)
LEMMA AllocNull ==
  ASSUME IInv, Ready, NEW n \in Nat, n >= 1, Runs(n) # {}
  PROVE  alloc_pages(n) \in Nat /\ alloc_pages(n) >= 1
<1> DEFINE s == Min(Runs(n))
           F == FirstPde * ENTRIES
<1>1. /\ FirstPde \in Other /\ F \in VPages /\ HasTable(FirstPde) /\ PteOf(F).pres = TRUE
  BY FirstTable
<1>2. TypeOK
  BY DEF IInv
<1>3. ENTRIES \in Nat /\ F \in Nat /\ ENTRIES * ENTRIES \in Nat
  BY <1>1, Consts DEF VPages
<1>4. s \in Runs(n)
  <2>1. Runs(n) \subseteq F..(ENTRIES * ENTRIES - n)
    BY DEF Runs
  <2>2. Runs(n) \in SUBSET Nat
    <3> HIDE DEF F
    <3>1. ENTRIES * ENTRIES - n \in Int
      BY <1>3
    <3> QED BY <1>3, <2>1, <3>1
  <2>3. \E x \in Runs(n) : \A z \in Runs(n) : x <= z
    BY <2>2, LeastNat
  <2> QED BY <2>3 DEF Min
<1> HIDE DEF s, F
<1>5. s \in F..(ENTRIES * ENTRIES - n) /\ \A w \in s..(s + n - 1) : ~PteOf(w).pres
  BY <1>4 DEF Runs, F
<1>6. s \in Nat /\ s >= F /\ s \in s..(s + n - 1)
  BY <1>3, <1>5
<1>7. s # F
  BY <1>1, <1>5, <1>6
<1> QED BY <1>2, <1>7, AllocPages DEF s, F

(* map_io puts a range at virtual page 0 only when the tables have no run  *)
(* of free pages for it, whatever the size of the frame table and the      *)
(* mappings that sbrk and map_io have made so far.                         *)
THEOREM PagingNullOnlyWithoutPlace == Spec => NullOnlyWithoutPlace
<1> DEFINE Null(r) ==
             map_io(r) /\ Pages(r.len) > 0 /\ map_io_result(r) < FRAME_SIZE
               => Runs(Pages(r.len)) = {}
<1>1. ASSUME IInv, NEW r \in IoRanges PROVE Null(r)
  <2> DEFINE n == Pages(r.len)
             a == alloc_pages(n)
             o == r.addr % FRAME_SIZE
  <2> SUFFICES ASSUME map_io(r), n > 0, Runs(n) # {} PROVE ~(map_io_result(r) < FRAME_SIZE)
    OBVIOUS
  <2>1. r.len \in Nat /\ r.addr \in Nat /\ FRAME_SIZE \in Nat /\ FRAME_SIZE >= 1
    BY PagingAssumption, Consts
  <2>2. n \in Nat /\ o \in 0..(FRAME_SIZE - 1)
    BY <2>1, PagesOf, DivMod
  <2>3. Ready
    BY DEF map_io, Ready
  <2>4. a \in Nat /\ a >= 1
    <3> HIDE DEF n
    <3> QED BY <1>1, <2>2, <2>3, AllocNull
  <2>5. map_io_result(r) = a * FRAME_SIZE + o
    BY DEF map_io_result
  <2> HIDE DEF a, o
  <2>6. 1 * FRAME_SIZE <= a * FRAME_SIZE /\ a * FRAME_SIZE \in Nat
    BY <2>1, <2>4, MulMono, 1 \in Nat
  <2> QED BY <2>1, <2>2, <2>5, <2>6
<1>2. IInv /\ [Next]_vars => [\A r \in IoRanges : Null(r)]_vars
  BY <1>1
<1> QED BY PagingInvariant, <1>2, PTL DEF Spec, NullOnlyWithoutPlace

(* Once memory is set up no call of sbrk or map_io changes what a mapped   *)
(* page shows, whether it succeeds, is refused or fails half way.          *)
THEOREM PagingMappedKept == Spec => MappedKept
<1>1. IInv /\ [Next]_vars => [Kept]_vars
  BY StepInv
<1>2. MappedKept <=> [][Kept]_vars
  BY DEF MappedKept, Kept
<1> QED BY PagingInvariant, <1>1, <1>2, PTL DEF Spec
=============================================================================
