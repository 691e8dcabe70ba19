---------------------------- MODULE KMallocProofs ----------------------------
(***************************************************************************)
(* Proofs about KMalloc, for every size of a page, of the two headers and  *)
(* of a word, every number of pages and every set of requests.  A heap     *)
(* that wrapped around (pc = "wrapped") is not followed by the model, so   *)
(* the invariants speak of the states before.                              *)
(***************************************************************************)
EXTENDS KMalloc, TLAPS

(* The list h of the blocks between FirstBlock and e.                      *)
IsList(h, e) ==
  /\ e > FirstBlock => FirstBlock \in DOMAIN h
  /\ \A a \in DOMAIN h :
       /\ a >= FirstBlock
       /\ h[a].size >= 1
       /\ h[a].begin = a + HDR
       /\ h[a].next = a + HDR + h[a].size
       /\ h[a].next = e \/ h[a].next \in DOMAIN h
       /\ h[a].next <= e
       /\ \A b \in DOMAIN h : a < b => h[a].next <= b

ListType(h, e) == e \in Nat /\ DOMAIN h \subseteq Nat /\ h \in [DOMAIN h -> Block]

-----------------------------------------------------------------------------
(* Constants and arithmetic *)

LEMMA HdrNat == HDR \in Nat /\ HDR >= 1 /\ FirstBlock \in Nat /\ FirstBlock >= 1 /\ NULL = -1
BY KMallocAssumption DEF HDR, FirstBlock, NULL

LEMMA LimitFacts ==
  ASSUME NEW m \in Nat, NEW n \in Nat
  PROVE  /\ Limit(n) \in Nat /\ Limit(n) >= FirstBlock
         /\ Limit(m + n) = Limit(m) + n * PAGESIZE
         /\ m <= n => Limit(m) <= Limit(n)
         /\ n * PAGESIZE \in Nat
<1>1. n * PAGESIZE \in Nat /\ m * PAGESIZE \in Nat /\ SIZEOF_PAGE_INFOS \in Nat
  BY KMallocAssumption
<1>2. (m + n) * PAGESIZE = m * PAGESIZE + n * PAGESIZE
  BY KMallocAssumption
<1>3. m <= n => m * PAGESIZE <= n * PAGESIZE
  BY KMallocAssumption
<1> QED BY <1>1, <1>2, <1>3 DEF Limit, FirstBlock

LEMMA DivPages ==
  ASSUME NEW x \in Nat
  PROVE  /\ x \div PAGESIZE \in Nat
         /\ (x \div PAGESIZE) * PAGESIZE <= x
         /\ x < ((x \div PAGESIZE) + 1) * PAGESIZE
BY KMallocAssumption

(* Giving back the whole pages above m leaves m inside the rest.           *)
LEMMA PagesBack ==
  ASSUME NEW n \in Nat, NEW m \in Nat, m >= FirstBlock, m <= Limit(n),
         NEW pages, pages = (Limit(n) - m) \div PAGESIZE
  PROVE  n - pages \in 0..n /\ m <= Limit(n - pages)
<1>1. /\ Limit(n) \in Nat /\ FirstBlock \in Nat /\ FirstBlock = SIZEOF_PAGE_INFOS
      /\ PAGESIZE \in Nat /\ PAGESIZE >= 1
  BY LimitFacts, HdrNat, KMallocAssumption DEF FirstBlock
<1>2. pages \in Nat /\ pages * PAGESIZE <= Limit(n) - m
  <2>1. Limit(n) - m \in Nat
    BY <1>1
  <2> QED BY <2>1, DivPages
<1>3. pages * PAGESIZE \in Nat
  BY <1>2, LimitFacts
<1>4. pages <= n
  <2> SUFFICES ASSUME n + 1 <= pages PROVE FALSE
    BY <1>2
  <2>1. Limit(n + 1) <= Limit(pages) /\ Limit(n + 1) \in Nat /\ Limit(pages) \in Nat
    BY <1>2, LimitFacts
  <2>2. Limit(n + 1) = Limit(n) + PAGESIZE
    <3>1. Limit(n + 1) = Limit(n) + 1 * PAGESIZE
      BY 1 \in Nat, LimitFacts
    <3> QED BY <1>1, <3>1
  <2>3. Limit(pages) = FirstBlock + pages * PAGESIZE
    BY DEF Limit, FirstBlock
  <2> QED BY ONLY <1>1, <1>2, <1>3, <2>1, <2>2, <2>3, m >= FirstBlock, m \in Nat
<1>5. n - pages \in Nat /\ (n - pages) + pages = n
  BY <1>2, <1>4
<1>6. Limit((n - pages) + pages) = Limit(n - pages) + pages * PAGESIZE /\ Limit(n - pages) \in Nat
  BY <1>2, <1>5, LimitFacts
<1>7. m <= Limit(n - pages)
  BY <1>1, <1>2, <1>3, <1>5, <1>6
<1> QED BY <1>2, <1>5, <1>7

(* An address inside the memory sbrk can give does not wrap around.        *)
LEMMA NoWrap ==
  ASSUME NEW a \in Nat, a <= Limit(MaxPages)
  PROVE  Wrap(a) = a
<1>1. HEAP_BASE + Limit(MaxPages) < WIDTH /\ HEAP_BASE \in Nat /\ WIDTH \in Nat
  BY KMallocAssumption, LimitFacts DEF Limit
<1>2. Limit(MaxPages) \in Nat
  BY KMallocAssumption, LimitFacts
<1> QED BY <1>1, <1>2 DEF Wrap

-----------------------------------------------------------------------------
(* The list *)

LEMMA HeaderFields ==
  ASSUME NEW a \in Nat, NEW sz \in Nat, NEW f \in BOOLEAN,
         a + HDR + sz <= Limit(MaxPages)
  PROVE  /\ Header(a, sz, f) \in Block
         /\ Header(a, sz, f).size = sz /\ Header(a, sz, f).is_free = f
         /\ Header(a, sz, f).begin = a + HDR /\ Header(a, sz, f).next = a + HDR + sz
<1>1. a + HDR + sz \in Nat /\ a + HDR \in Nat
  BY HdrNat
<1>2. Wrap(a + HDR + sz) = a + HDR + sz
  BY <1>1, NoWrap
<1> QED BY <1>1, <1>2 DEF Header, Block

(* g is h with one block of sz bytes at m in the place of m and of A.      *)
IsReplaced(h, g, e, m, sz, f, A) ==
  /\ ListType(g, e) /\ IsList(g, e)
  /\ DOMAIN g = DOMAIN h \ A /\ m \in DOMAIN g
  /\ g[m].is_free = f /\ g[m].size = sz /\ g[m].next = m + HDR + sz
  /\ \A x \in DOMAIN g : x # m => g[x] = h[x]

(* A header replaces itself and the ones right behind it by one block.     *)
LEMMA ReplaceBlock ==
  ASSUME NEW h, NEW e, ListType(h, e), IsList(h, e), e <= Limit(MaxPages),
         NEW m \in DOMAIN h, NEW sz \in Nat, sz >= 1, NEW f \in BOOLEAN,
         m + HDR + sz = e \/ m + HDR + sz \in DOMAIN h,
         m + HDR + sz <= e,
         NEW A, A = {x \in DOMAIN h : m < x /\ x < m + HDR + sz}
  PROVE  IsReplaced(h, Put(Cut(h, A), m, Header(m, sz, f)), e, m, sz, f, A)
<1> DEFINE v == Header(m, sz, f)
           g == Put(Cut(h, A), m, v)
<1>0. Limit(MaxPages) \in Nat
  BY LimitFacts, KMallocAssumption
<1>1. m \in Nat /\ e \in Nat /\ DOMAIN h \subseteq Nat
  BY DEF ListType
<1>2. v \in Block /\ v.size = sz /\ v.is_free = f /\ v.begin = m + HDR /\ v.next = m + HDR + sz
  <2>1. m + HDR + sz <= Limit(MaxPages)
    BY <1>0, <1>1, HdrNat
  <2> QED BY <1>1, <2>1, HeaderFields
<1>3. /\ DOMAIN g = (DOMAIN h \ A) \cup {m}
      /\ g[m] = v
      /\ \A x \in DOMAIN g : x # m => x \in DOMAIN h \ A /\ g[x] = h[x]
      /\ g = [x \in DOMAIN g |-> g[x]]
  BY DEF Put, Cut
<1> HIDE DEF v, g
<1>4. ListType(g, e)
  <2>1. \A x \in DOMAIN g : g[x] \in Block /\ x \in Nat
    BY <1>1, <1>2, <1>3 DEF ListType
  <2> QED BY <1>1, <1>3, <2>1 DEF ListType
<1>5. \A a \in DOMAIN h : h[a].size \in Nat /\ a \in Nat
  BY DEF ListType, Block
<1>6. e > FirstBlock => FirstBlock \in DOMAIN g
  BY <1>1, <1>3, HdrNat DEF IsList
<1>7. ASSUME NEW a \in DOMAIN g
      PROVE  /\ a >= FirstBlock /\ g[a].size >= 1 /\ g[a].begin = a + HDR
             /\ g[a].next = a + HDR + g[a].size
             /\ g[a].next = e \/ g[a].next \in DOMAIN g
             /\ g[a].next <= e
             /\ \A b \in DOMAIN g : a < b => g[a].next <= b
  <2>1. CASE a = m
    <3>1. m + HDR + sz \in DOMAIN h => m + HDR + sz \in DOMAIN g
      BY <1>1, <1>3, HdrNat
    <3>2. ASSUME NEW b \in DOMAIN g, m < b PROVE m + HDR + sz <= b
      BY <1>1, <1>3, <3>2, HdrNat
    <3> QED BY <1>2, <1>3, <2>1, <3>1, <3>2 DEF IsList
  <2>2. CASE a # m
    <3>1. a \in DOMAIN h \ A /\ g[a] = h[a]
      BY <1>3, <2>2
    <3>2. h[a].next = e \/ h[a].next \in DOMAIN g
      <4>1. CASE a < m
        BY <1>1, <1>3, <1>5, <3>1, <4>1 DEF IsList
      <4>2. CASE m < a
        BY <1>1, <1>3, <1>5, <3>1, <4>2, HdrNat DEF IsList
      <4> QED BY <1>1, <2>2, <3>1, <4>1, <4>2
    <3> QED BY <1>3, <3>1, <3>2 DEF IsList
  <2> QED BY <2>1, <2>2
<1>8. IsList(g, e)
  BY <1>6, <1>7 DEF IsList
<1>9. DOMAIN g = DOMAIN h \ A /\ m \in DOMAIN g
  BY <1>1, <1>3
<1>10. IsReplaced(h, g, e, m, sz, f, A)
  BY <1>2, <1>3, <1>4, <1>8, <1>9 DEF IsReplaced
<1> QED BY <1>10 DEF v, g

(* h after a block of s bytes at a and a free one of left bytes at r.      *)
Split(h, a, s, r, left) ==
  Put(Put(h, r, Header(r, left, TRUE)), a,
      [h[a] EXCEPT !.is_free = FALSE, !.size = s, !.next = r])

(* g is h with the block at a cut in two: the second, at r, is free.       *)
IsSplit(h, g, e, a, s, r) ==
  /\ ListType(g, e) /\ IsList(g, e)
  /\ DOMAIN g = DOMAIN h \cup {r} /\ r \notin DOMAIN h /\ a < r /\ r < h[a].next
  /\ g[a].is_free = FALSE /\ g[a].size = s
  /\ g[r].is_free = TRUE /\ g[r].next = h[a].next
  /\ \A x \in DOMAIN h : x # a => g[x] = h[x]

LEMMA SplitBlock ==
  ASSUME NEW h, NEW e, ListType(h, e), IsList(h, e), e <= Limit(MaxPages),
         NEW a \in DOMAIN h, NEW s \in Nat, s >= 1,
         NEW r, r = a + HDR + s,
         NEW left \in Nat, left = h[a].size - s - HDR, left >= 1
  PROVE  IsSplit(h, Split(h, a, s, r, left), e, a, s, r)
<1> DEFINE v == Header(r, left, TRUE)
           w == [h[a] EXCEPT !.is_free = FALSE, !.size = s, !.next = r]
           g == Put(Put(h, r, v), a, w)
<1>0. Limit(MaxPages) \in Nat /\ HDR \in Nat /\ HDR >= 1 /\ FirstBlock \in Nat
  BY LimitFacts, HdrNat, KMallocAssumption
<1>1. /\ a \in Nat /\ e \in Nat /\ DOMAIN h \subseteq Nat /\ h[a] \in Block
      /\ \A x \in DOMAIN h : h[x].size \in Nat /\ x \in Nat
  BY DEF ListType, Block
<1>2. /\ h[a].next = a + HDR + h[a].size /\ h[a].next <= e /\ h[a].begin = a + HDR
      /\ h[a].size \in Nat /\ a >= FirstBlock
  BY <1>1 DEF IsList
<1>3. r + HDR + left = h[a].next /\ r \in Nat /\ a < r /\ r < h[a].next
  BY <1>0, <1>1, <1>2
<1>4. r \notin DOMAIN h
  BY <1>0, <1>1, <1>2, <1>3 DEF IsList
<1>5. v \in Block /\ v.size = left /\ v.is_free = TRUE /\ v.begin = r + HDR /\ v.next = h[a].next
  <2>1. r + HDR + left <= Limit(MaxPages)
    BY <1>0, <1>1, <1>2, <1>3
  <2>2. /\ v \in Block /\ v.size = left /\ v.is_free = TRUE /\ v.begin = r + HDR
        /\ v.next = r + HDR + left
    <3>1. r \in Nat /\ left \in Nat /\ TRUE \in BOOLEAN
      BY <1>3
    <3> QED BY ONLY <2>1, <3>1, HeaderFields
  <2> QED BY <1>3, <2>2
<1>6. w \in Block /\ w.size = s /\ w.is_free = FALSE /\ w.begin = a + HDR /\ w.next = r
  BY <1>1, <1>2, <1>3 DEF Block
<1>7. /\ DOMAIN g = DOMAIN h \cup {r}
      /\ g[a] = w /\ g[r] = v
      /\ \A x \in DOMAIN h : x # a => g[x] = h[x]
      /\ g = [x \in DOMAIN g |-> g[x]]
  BY <1>3, <1>4 DEF Put
<1> HIDE DEF v, w, g
<1>8. ListType(g, e)
  <2>1. \A x \in DOMAIN g : g[x] \in Block /\ x \in Nat
    BY <1>1, <1>3, <1>5, <1>6, <1>7 DEF ListType
  <2> QED BY <1>1, <1>7, <2>1 DEF ListType
<1>9. e > FirstBlock => FirstBlock \in DOMAIN g
  BY <1>7 DEF IsList
<1>10. ASSUME NEW x \in DOMAIN g
       PROVE  /\ x >= FirstBlock /\ g[x].size >= 1 /\ g[x].begin = x + HDR
              /\ g[x].next = x + HDR + g[x].size
              /\ g[x].next = e \/ g[x].next \in DOMAIN g
              /\ g[x].next <= e
              /\ \A b \in DOMAIN g : x < b => g[x].next <= b
  <2>1. CASE x = a
    BY <1>0, <1>1, <1>2, <1>3, <1>6, <1>7, <2>1 DEF IsList
  <2>2. CASE x = r
    BY <1>0, <1>1, <1>2, <1>3, <1>5, <1>7, <2>2 DEF IsList
  <2>3. CASE x \in DOMAIN h /\ x # a
    BY <1>0, <1>1, <1>2, <1>3, <1>7, <2>3 DEF IsList
  <2> QED BY <1>7, <2>1, <2>2, <2>3
<1>11. IsList(g, e)
  BY <1>9, <1>10 DEF IsList
<1>12. /\ ListType(g, e) /\ IsList(g, e)
       /\ DOMAIN g = DOMAIN h \cup {r} /\ r \notin DOMAIN h /\ a < r /\ r < h[a].next
       /\ g[a].is_free = FALSE /\ g[a].size = s /\ g[a].next = r
       /\ g[r].is_free = TRUE /\ g[r].size = left /\ g[r].next = h[a].next
       /\ \A x \in DOMAIN h : x # a => g[x] = h[x]
  BY <1>3, <1>4, <1>5, <1>6, <1>7, <1>8, <1>11
<1> QED BY <1>12 DEF IsSplit, Split, v, w, g

(* g is h with a used block of s bytes at its end e.                       *)
IsAppended(h, g, e, s) ==
  /\ ListType(g, e + HDR + s) /\ IsList(g, e + HDR + s)
  /\ DOMAIN g = DOMAIN h \cup {e} /\ e \notin DOMAIN h
  /\ g[e].is_free = FALSE /\ g[e].size = s
  /\ \A x \in DOMAIN h : g[x] = h[x]

LEMMA AppendBlock ==
  ASSUME NEW h, NEW e, ListType(h, e), IsList(h, e), e >= FirstBlock,
         NEW s \in Nat, s >= 1, e + HDR + s <= Limit(MaxPages)
  PROVE  IsAppended(h, Put(h, e, Header(e, s, FALSE)), e, s)
<1> DEFINE v == Header(e, s, FALSE)
           g == Put(h, e, v)
<1>0. HDR \in Nat /\ HDR >= 1 /\ FirstBlock \in Nat
  BY HdrNat
<1>1. /\ e \in Nat /\ DOMAIN h \subseteq Nat
      /\ \A x \in DOMAIN h : h[x].size \in Nat /\ x \in Nat
  BY DEF ListType, Block
<1>2. v \in Block /\ v.size = s /\ v.is_free = FALSE /\ v.begin = e + HDR /\ v.next = e + HDR + s
  BY <1>1, HeaderFields
<1>3. e \notin DOMAIN h
  BY <1>0, <1>1 DEF IsList
<1>4. /\ DOMAIN g = DOMAIN h \cup {e}
      /\ g[e] = v
      /\ \A x \in DOMAIN h : g[x] = h[x]
      /\ g = [x \in DOMAIN g |-> g[x]]
  BY <1>3 DEF Put
<1> HIDE DEF v, g
<1>5. ListType(g, e + HDR + s)
  <2>1. \A x \in DOMAIN g : g[x] \in Block /\ x \in Nat
    BY <1>1, <1>2, <1>4 DEF ListType
  <2> QED BY <1>0, <1>1, <1>4, <2>1 DEF ListType
<1>6. FirstBlock \in DOMAIN g
  BY <1>0, <1>1, <1>4 DEF IsList
<1>7. ASSUME NEW x \in DOMAIN g
      PROVE  /\ x >= FirstBlock /\ g[x].size >= 1 /\ g[x].begin = x + HDR
             /\ g[x].next = x + HDR + g[x].size
             /\ g[x].next = e + HDR + s \/ g[x].next \in DOMAIN g
             /\ g[x].next <= e + HDR + s
             /\ \A b \in DOMAIN g : x < b => g[x].next <= b
  <2>1. CASE x = e
    BY <1>0, <1>1, <1>2, <1>4, <2>1 DEF IsList
  <2>2. CASE x \in DOMAIN h
    BY <1>0, <1>1, <1>4, <2>2 DEF IsList
  <2> QED BY <1>4, <2>1, <2>2
<1>8. IsList(g, e + HDR + s)
  BY <1>6, <1>7 DEF IsList
<1>9. IsAppended(h, g, e, s)
  BY <1>2, <1>3, <1>4, <1>5, <1>8 DEF IsAppended
<1> QED BY <1>9 DEF v, g

(* g is h without its last block m.                                        *)
IsCut(h, g, m) ==
  /\ ListType(g, m) /\ IsList(g, m)
  /\ DOMAIN g = DOMAIN h \ {m}
  /\ \A x \in DOMAIN g : g[x] = h[x]

LEMMA CutLast ==
  ASSUME NEW h, NEW e, ListType(h, e), IsList(h, e), NEW m \in DOMAIN h, h[m].next = e
  PROVE  IsCut(h, Cut(h, {m}), m)
<1> DEFINE g == Cut(h, {m})
<1>0. HDR \in Nat /\ HDR >= 1 /\ FirstBlock \in Nat
  BY HdrNat
<1>1. /\ e \in Nat /\ m \in Nat
      /\ \A x \in DOMAIN h : h[x].size \in Nat /\ x \in Nat /\ h[x] \in Block
  BY DEF ListType, Block
<1>2. /\ DOMAIN g = DOMAIN h \ {m}
      /\ \A x \in DOMAIN g : g[x] = h[x]
      /\ g = [x \in DOMAIN g |-> g[x]]
  BY DEF Cut
<1> HIDE DEF g
<1>3. \A x \in DOMAIN h : x # m => x < m
  BY <1>0, <1>1 DEF IsList
<1>4. ListType(g, m)
  BY <1>1, <1>2 DEF ListType
<1>5. m > FirstBlock => FirstBlock \in DOMAIN g
  BY <1>0, <1>1, <1>2 DEF IsList
<1>6. ASSUME NEW x \in DOMAIN g
      PROVE  /\ x >= FirstBlock /\ g[x].size >= 1 /\ g[x].begin = x + HDR
             /\ g[x].next = x + HDR + g[x].size
             /\ g[x].next = m \/ g[x].next \in DOMAIN g
             /\ g[x].next <= m
             /\ \A b \in DOMAIN g : x < b => g[x].next <= b
  BY <1>0, <1>1, <1>2, <1>3 DEF IsList
<1>7. IsList(g, m)
  BY <1>5, <1>6 DEF IsList
<1>8. IsCut(h, g, m)
  BY <1>2, <1>4, <1>7 DEF IsCut
<1> QED BY <1>8 DEF g

-----------------------------------------------------------------------------
(* The inductive invariant *)

(* No product that calloc forms exceeds a word.                            *)
ProductsFit == \A m, s \in Sizes : m * s < WIDTH

(* Before get_first_value there is nothing.                                *)
StartInv == ~first => max_pos = 0 /\ nb_pages = 0

(* Ownership without the sizes.                                            *)
Held ==
  /\ \A p \in DOMAIN live : p - HDR \in DOMAIN hdr /\ hdr[p - HDR].is_free = FALSE
  /\ \A a \in DOMAIN hdr :
       hdr[a].is_free = FALSE => a + HDR \in DOMAIN live \/ a \in lost

(* Where each walk stands and what it knows of the blocks behind it.       *)
PlaceInv ==
  pc \in {"search", "rm", "dump"} => first /\ (cur \in DOMAIN hdr \/ cur = max_pos)

SearchInv ==
  pc = "search" =>
    /\ size >= 1
    /\ ptr = NULL \/ ptr \in DOMAIN live
    /\ aux = NULL \/ (/\ aux \in DOMAIN hdr /\ aux < cur
                      /\ hdr[aux].is_free = TRUE /\ hdr[aux].size >= size)
    /\ \A a \in DOMAIN hdr :
         a < cur /\ hdr[a].is_free = TRUE /\ hdr[a].size >= size
           => aux # NULL /\ hdr[aux].size <= hdr[a].size

RmInv ==
  pc = "rm" =>
    \/ aux = cur /\ cur = FirstBlock
    \/ aux \in DOMAIN hdr /\ hdr[aux].next = cur

(* What callers asked for, if no product of calloc was too large.          *)
AskedInv ==
  ProductsFit =>
    /\ pc = "search" => size = asked
    /\ \A p \in DOMAIN live : hdr[p - HDR].size >= live[p]

Good ==
  /\ TypeOK /\ Tiling /\ StartInv /\ Coalesced /\ Held
  /\ PlaceInv /\ SearchInv /\ RmInv /\ AskedInv

IInv == pc # "wrapped" => Good

LEMMA InitInv == Init => IInv
<1> SUFFICES ASSUME Init PROVE Good
  BY DEF IInv
<1>1. DOMAIN hdr = {} /\ DOMAIN live = {} /\ hdr \in [DOMAIN hdr -> Block] /\ live \in [DOMAIN live -> Nat]
  BY DEF Init
<1>2. TypeOK
  <2>1. 0 \in 0..MaxPages /\ 0 \in Sizes
    BY KMallocAssumption
  <2> QED BY <1>1, <2>1 DEF Init, TypeOK
<1>3. Tiling
  BY <1>1, HdrNat DEF Init, Tiling, InsideLimit
<1> QED BY <1>1, <1>2, <1>3
        DEF Good, Init, StartInv, Coalesced, Held, PlaceInv, SearchInv, RmInv, AskedInv

LEMMA ListFacts ==
  ASSUME Good
  PROVE  /\ ListType(hdr, max_pos) /\ IsList(hdr, max_pos)
         /\ max_pos <= Limit(MaxPages) /\ Limit(MaxPages) \in Nat
         /\ ~first => DOMAIN hdr = {} /\ DOMAIN live = {}
         /\ HDR \in Nat /\ HDR >= 1 /\ FirstBlock \in Nat /\ FirstBlock >= 1 /\ NULL = -1
         /\ \A a \in DOMAIN hdr : /\ a \in Nat /\ a >= FirstBlock /\ a < hdr[a].next
                                  /\ hdr[a].size \in Nat /\ hdr[a].next \in Nat
                                  /\ hdr[a].is_free \in BOOLEAN /\ hdr[a].begin \in Nat
                                  /\ hdr[a].begin = a + HDR
                                  /\ hdr[a].next = a + HDR + hdr[a].size
<1>1. ListType(hdr, max_pos) /\ IsList(hdr, max_pos)
  BY DEF Good, TypeOK, ListType, Tiling, IsList
<1>2. \A a \in DOMAIN hdr : /\ a \in Nat /\ hdr[a].size \in Nat /\ hdr[a].next \in Nat
                            /\ hdr[a].is_free \in BOOLEAN /\ hdr[a].begin \in Nat
  BY <1>1 DEF ListType, Block
<1>3. \A a \in DOMAIN hdr : /\ a >= FirstBlock /\ a < hdr[a].next /\ hdr[a].begin = a + HDR
                            /\ hdr[a].next = a + HDR + hdr[a].size /\ hdr[a].next <= max_pos
  BY <1>1, <1>2, HdrNat DEF IsList
<1>4. ~first => DOMAIN hdr = {} /\ DOMAIN live = {}
  <2> SUFFICES ASSUME ~first PROVE DOMAIN hdr = {} /\ DOMAIN live = {}
    OBVIOUS
  <2>1. max_pos = 0
    BY DEF Good, StartInv
  <2>2. DOMAIN hdr = {}
    <3> SUFFICES ASSUME NEW a \in DOMAIN hdr PROVE FALSE
      OBVIOUS
    <3>1. a \in Nat /\ hdr[a].next \in Nat /\ a < hdr[a].next /\ hdr[a].next <= max_pos
      BY <1>2, <1>3
    <3> QED BY <2>1, <3>1
  <2> QED BY <2>2 DEF Good, Held
<1>5. max_pos <= Limit(MaxPages) /\ Limit(MaxPages) \in Nat
  <2>1. nb_pages \in Nat /\ nb_pages <= MaxPages /\ MaxPages \in Nat /\ max_pos \in Nat /\ first \in BOOLEAN
    BY KMallocAssumption DEF Good, TypeOK
  <2>2. Limit(nb_pages) <= Limit(MaxPages) /\ Limit(nb_pages) \in Nat /\ Limit(MaxPages) \in Nat
    BY <2>1, LimitFacts
  <2> QED BY <2>1, <2>2 DEF Good, Tiling, InsideLimit, StartInv
<1> QED BY <1>1, <1>2, <1>3, <1>4, <1>5, HdrNat

-----------------------------------------------------------------------------
(* What callers see *)

(* One step of the abstract allocator, its promise of safety aside.        *)
LiveStep ==
  \/ UNCHANGED live
  \/ \E p \in Addr :
       \/ Abstract!Free(p)
       \/ \E s \in Sizes : Abstract!Alloc(p, s) \/ Abstract!Resize(p, s)
       \/ \E q \in Addr, s \in Sizes : Abstract!Move(p, q, s)

LEMMA BelowAddr ==
  ASSUME NEW p \in Nat, NEW e \in Nat, p <= e, e <= Limit(MaxPages)
  PROVE  p \in Addr
<1>1. /\ Limit(MaxPages + 1) = Limit(MaxPages) + 1 * PAGESIZE
      /\ Limit(MaxPages + 1) \in Nat /\ Limit(MaxPages) \in Nat
  <2>1. MaxPages \in Nat /\ MaxPages + 1 \in Nat /\ 1 \in Nat
    BY KMallocAssumption
  <2> QED BY <2>1, LimitFacts
<1>2. Addr = 0..Limit(MaxPages + 1)
  BY DEF Addr, Limit
<1> QED BY <1>1, <1>2, KMallocAssumption

LEMMA HeldInAddr ==
  ASSUME Good
  PROVE  DOMAIN live \subseteq Addr
<1> SUFFICES ASSUME NEW p \in DOMAIN live PROVE p \in Addr
  OBVIOUS
<1>1. p - HDR \in DOMAIN hdr /\ p \in Nat /\ max_pos \in Nat
  BY DEF Good, TypeOK, Held
<1>2. p <= max_pos /\ max_pos <= Limit(MaxPages)
  BY <1>1, ListFacts DEF IsList
<1> QED BY <1>1, <1>2, BelowAddr

(* Allocations that lie in blocks of a list are disjoint, and end with it. *)
LEMMA LiveDisjoint ==
  ASSUME NEW h, NEW e, ListType(h, e), IsList(h, e), NEW l,
         \A p \in DOMAIN l : /\ p \in Nat /\ l[p] \in Nat /\ p - HDR \in DOMAIN h
                             /\ h[p - HDR].size >= l[p]
  PROVE  /\ Abstract!Disjoint(l)
         /\ \A p \in DOMAIN l : p + l[p] <= e
<1>1. \A p \in DOMAIN l : /\ h[p - HDR].size \in Nat /\ h[p - HDR].next = p + h[p - HDR].size
                          /\ h[p - HDR].next <= e
                          /\ \A b \in DOMAIN h : p - HDR < b => h[p - HDR].next <= b
  BY HdrNat DEF IsList, ListType, Block
<1>2. e \in Nat /\ HDR \in Nat
  BY HdrNat DEF ListType
<1>3. \A p \in DOMAIN l : p + l[p] <= e
  BY <1>1, <1>2
<1>4. ASSUME NEW p \in DOMAIN l, NEW q \in DOMAIN l, p < q
      PROVE  p + l[p] <= q
  <2>1. p - HDR < q - HDR
    BY <1>2, <1>4
  <2>2. h[p - HDR].next <= q - HDR
    BY <1>1, <2>1
  <2> QED BY <1>1, <1>2, <2>2
<1> QED BY <1>3, <1>4 DEF Abstract!Disjoint

-----------------------------------------------------------------------------
(* Calls *)

LEMMA Stutter == Good /\ UNCHANGED vars => Good'
BY DEF Good, vars, TypeOK, Tiling, InsideLimit, StartInv, Coalesced, Held, PlaceInv,
       SearchInv, RmInv, AskedInv

(* The heap after get_first_value, and where a walk begins.                *)
LEMMA FirstStep ==
  ASSUME Good, NEW ok, ~FirstFails(ok), get_first_value
  PROVE  /\ first' = TRUE /\ nb_pages' \in 0..MaxPages /\ max_pos' \in Nat /\ hdr' = hdr
         /\ Tiling' /\ StartInv'
         /\ FirstBlock \in DOMAIN hdr \/ FirstBlock = max_pos'
<1>1. first' = TRUE /\ hdr' = hdr
  BY DEF get_first_value
<1>2. StartInv'
  BY <1>1 DEF StartInv
<1>3. CASE first
  <2>1. nb_pages' = nb_pages /\ max_pos' = max_pos
    BY <1>3 DEF get_first_value
  <2>2. FirstBlock <= max_pos
    BY <1>3 DEF Good, Tiling, InsideLimit
  <2>3. FirstBlock \in DOMAIN hdr \/ FirstBlock = max_pos
    BY <2>2, ListFacts DEF IsList, ListType
  <2>4. Tiling'
    BY <1>1, <1>3, <2>1 DEF Good, Tiling, InsideLimit
  <2> QED BY <1>1, <1>2, <2>1, <2>3, <2>4 DEF Good, TypeOK
<1>4. CASE ~first
  <2>1. nb_pages' = 1 /\ max_pos' = FirstBlock
    BY <1>4 DEF get_first_value
  <2>2. 1 \in 0..MaxPages
    BY <1>4, KMallocAssumption DEF FirstFails
  <2>3. FirstBlock <= Limit(1)
    BY LimitFacts
  <2>4. DOMAIN hdr = {} /\ FirstBlock \in Nat
    BY <1>4, ListFacts
  <2>5. Tiling'
    BY <1>1, <2>1, <2>3, <2>4 DEF Tiling, InsideLimit
  <2> QED BY <1>1, <1>2, <2>1, <2>2, <2>4, <2>5
<1> QED BY <1>3, <1>4

LEMMA AddStep ==
  ASSUME Good, pc = "idle", NEW s \in Sizes, s # 0, NEW need \in Nat,
         NEW r \in DOMAIN live \cup {NULL}, ProductsFit => need = s,
         NEW ok, mem_add_value(s, need, r, ok)
  PROVE  Good'
<1>1. CASE FirstFails(ok)
  BY <1>1, Stutter DEF mem_add_value
<1>2. CASE ~FirstFails(ok)
  <2>1. /\ get_first_value
        /\ pc' = "search" /\ cur' = FirstBlock /\ aux' = NULL /\ size' = s
        /\ asked' = need /\ ptr' = r /\ live' = live /\ lost' = lost
    BY <1>2 DEF mem_add_value
  <2>2. /\ first' = TRUE /\ nb_pages' \in 0..MaxPages /\ max_pos' \in Nat /\ hdr' = hdr
        /\ Tiling' /\ StartInv'
        /\ FirstBlock \in DOMAIN hdr \/ FirstBlock = max_pos'
    BY <1>2, <2>1, FirstStep
  <2>3. s \in Nat /\ s >= 1
    BY KMallocAssumption
  <2>4. TypeOK'
    BY <2>1, <2>2, HdrNat DEF Good, TypeOK
  <2>5. Coalesced' /\ Held' /\ PlaceInv'
    BY <2>1, <2>2 DEF Good, Coalesced, Held, PlaceInv
  <2>6. SearchInv'
    BY <2>1, <2>2, <2>3, ListFacts DEF SearchInv
  <2>7. RmInv' /\ AskedInv'
    BY <2>1, <2>2 DEF Good, RmInv, AskedInv
  <2> QED BY <2>2, <2>4, <2>5, <2>6, <2>7 DEF Good
<1> QED BY <1>1, <1>2

LEMMA RmCallStep ==
  ASSUME Good, pc = "idle", NEW p \in Nat \cup {NULL}, NEW ok, mem_rm_value(p, ok)
  PROVE  Good'
<1>1. CASE FirstFails(ok)
  <2>1. pc' = "fault" /\ UNCHANGED <<heap, cur, aux, size, asked, ptr, live, lost>> /\ ~first
    BY <1>1 DEF mem_rm_value, FirstFails
  <2> QED BY <2>1 DEF heap, Good, TypeOK, Tiling, InsideLimit, StartInv, Coalesced, Held,
              PlaceInv, SearchInv, RmInv, AskedInv
<1>2. CASE ~FirstFails(ok)
  <2>1. /\ get_first_value
        /\ pc' = "rm" /\ cur' = FirstBlock /\ aux' = FirstBlock /\ ptr' = p
        /\ size' = size /\ asked' = asked /\ live' = live /\ lost' = lost
    BY <1>2 DEF mem_rm_value
  <2>2. /\ first' = TRUE /\ nb_pages' \in 0..MaxPages /\ max_pos' \in Nat /\ hdr' = hdr
        /\ Tiling' /\ StartInv'
        /\ FirstBlock \in DOMAIN hdr \/ FirstBlock = max_pos'
    BY <1>2, <2>1, FirstStep
  <2>4. TypeOK'
    BY <2>1, <2>2, HdrNat DEF Good, TypeOK
  <2>5. Coalesced' /\ Held' /\ PlaceInv'
    BY <2>1, <2>2 DEF Good, Coalesced, Held, PlaceInv
  <2>6. RmInv'
    BY <2>1, <2>2 DEF RmInv
  <2>7. SearchInv' /\ AskedInv'
    BY <2>1, <2>2 DEF Good, SearchInv, AskedInv
  <2> QED BY <2>2, <2>4, <2>5, <2>6, <2>7 DEF Good
<1> QED BY <1>1, <1>2

LEMMA ReallocInPlaceStep ==
  ASSUME Good, pc = "idle", NEW p \in DOMAIN live, NEW s \in Sizes, hdr[p - HDR].size >= s,
         live' = [live EXCEPT ![p] = s],
         UNCHANGED <<heap, pc, cur, aux, size, asked, ptr, lost>>
  PROVE  Good' /\ LiveStep
<1>1. /\ first' = first /\ nb_pages' = nb_pages /\ max_pos' = max_pos /\ hdr' = hdr
      /\ pc' = pc /\ cur' = cur /\ aux' = aux /\ size' = size /\ asked' = asked
      /\ ptr' = ptr /\ lost' = lost
  BY DEF heap
<1>2. s \in Nat
  BY KMallocAssumption
<1>3. /\ DOMAIN live' = DOMAIN live /\ live'[p] = s
      /\ \A q \in DOMAIN live : q # p => live'[q] = live[q]
      /\ live' \in [DOMAIN live' -> Nat]
  BY <1>2 DEF Good, TypeOK
<1>4. TypeOK'
  BY <1>1, <1>3 DEF Good, TypeOK
<1>5. Tiling' /\ StartInv' /\ Coalesced' /\ Held'
  BY <1>1, <1>3 DEF Good, Tiling, InsideLimit, StartInv, Coalesced, Held
<1>6. PlaceInv' /\ SearchInv' /\ RmInv'
  BY <1>1 DEF Good, PlaceInv, SearchInv, RmInv
<1>7. AskedInv'
  BY <1>1, <1>3 DEF Good, AskedInv
<1>8. LiveStep
  <2>1. p \in Addr
    BY HeldInAddr
  <2>2. DOMAIN live \cup {p} = DOMAIN live
    OBVIOUS
  <2>3. live' = Abstract!Add(live, p, s)
    BY <2>2 DEF Abstract!Add, Good, TypeOK
  <2> QED BY <2>1, <2>3 DEF LiveStep, Abstract!Resize
<1> QED BY <1>4, <1>5, <1>6, <1>7, <1>8 DEF Good

LEMMA DumpCallStep ==
  ASSUME Good, NEW ok, mem_dump(ok)
  PROVE  Good'
<1>1. CASE FirstFails(ok)
  <2>1. pc' = "fault" /\ UNCHANGED <<heap, cur, aux, size, asked, ptr, live, lost>> /\ ~first
    BY <1>1 DEF mem_dump, FirstFails
  <2> QED BY <2>1 DEF heap, Good, TypeOK, Tiling, InsideLimit, StartInv, Coalesced, Held,
              PlaceInv, SearchInv, RmInv, AskedInv
<1>2. CASE ~FirstFails(ok)
  <2>1. /\ get_first_value
        /\ pc' = "dump" /\ cur' = FirstBlock /\ aux' = aux /\ ptr' = ptr
        /\ size' = size /\ asked' = asked /\ live' = live /\ lost' = lost
    BY <1>2 DEF mem_dump
  <2>2. /\ first' = TRUE /\ nb_pages' \in 0..MaxPages /\ max_pos' \in Nat /\ hdr' = hdr
        /\ Tiling' /\ StartInv'
        /\ FirstBlock \in DOMAIN hdr \/ FirstBlock = max_pos'
    BY <1>2, <2>1, FirstStep
  <2>3. TypeOK'
    BY <2>1, <2>2, HdrNat DEF Good, TypeOK
  <2>4. Coalesced' /\ Held' /\ PlaceInv'
    BY <2>1, <2>2 DEF Good, Coalesced, Held, PlaceInv
  <2>5. SearchInv' /\ RmInv' /\ AskedInv'
    BY <2>1, <2>2 DEF Good, SearchInv, RmInv, AskedInv
  <2> QED BY <2>2, <2>3, <2>4, <2>5 DEF Good
<1> QED BY <1>1, <1>2

-----------------------------------------------------------------------------
(* Walks that leave the list alone *)

(* A walk that returns NULL, or nothing, leaves all but itself behind.     *)
LEMMA ReturnStep ==
  ASSUME Good, ReturnNull, UNCHANGED heap
  PROVE  Good'
<1>1. /\ first' = first /\ nb_pages' = nb_pages /\ max_pos' = max_pos /\ hdr' = hdr
      /\ live' = live /\ lost' = lost /\ pc' = "idle"
      /\ cur' = 0 /\ aux' = NULL /\ size' = 0 /\ asked' = 0 /\ ptr' = NULL
  BY DEF heap, ReturnNull, Done
<1>2. TypeOK'
  BY <1>1, KMallocAssumption DEF Good, TypeOK
<1>3. Tiling' /\ StartInv' /\ Coalesced' /\ Held'
  BY <1>1 DEF Good, Tiling, InsideLimit, StartInv, Coalesced, Held
<1>4. PlaceInv' /\ SearchInv' /\ RmInv' /\ AskedInv'
  BY <1>1 DEF Good, PlaceInv, SearchInv, RmInv, AskedInv
<1> QED BY <1>2, <1>3, <1>4 DEF Good

LEMMA WalkFrame ==
  ASSUME Good, PlaceInv, pc \in {"search", "rm", "dump"}, cur < max_pos,
         UNCHANGED <<heap, pc, size, asked, ptr, live, lost>>,
         aux' \in Nat \cup {NULL}, cur' = hdr[cur].next
  PROVE  /\ TypeOK' /\ Tiling' /\ StartInv' /\ Coalesced' /\ Held' /\ PlaceInv'
         /\ AskedInv'
         /\ cur \in DOMAIN hdr /\ cur < cur'
         /\ \A a \in DOMAIN hdr : a < cur' => a <= cur
<1>1. /\ first' = first /\ nb_pages' = nb_pages /\ max_pos' = max_pos /\ hdr' = hdr
      /\ live' = live /\ lost' = lost /\ pc' = pc
      /\ size' = size /\ asked' = asked /\ ptr' = ptr
  BY DEF heap
<1>2. cur \in DOMAIN hdr /\ max_pos \in Nat
  BY DEF PlaceInv, Good, TypeOK
<1>3. /\ cur \in Nat /\ hdr[cur].next \in Nat /\ cur < hdr[cur].next
      /\ hdr[cur].next \in DOMAIN hdr \/ hdr[cur].next = max_pos
      /\ \A b \in DOMAIN hdr : cur < b => hdr[cur].next <= b
  BY <1>2, ListFacts DEF IsList
<1>4. \A a \in DOMAIN hdr : a < cur' => a <= cur
  <2>1. \A a \in DOMAIN hdr : a \in Nat
    BY ListFacts
  <2>2. ASSUME NEW a \in DOMAIN hdr, a < cur', cur < a PROVE FALSE
    BY ONLY <1>3, <2>1, <2>2, cur' = hdr[cur].next
  <2> QED BY <1>3, <2>1, <2>2
<1>5. TypeOK'
  BY <1>1, <1>3 DEF Good, TypeOK
<1>6. Tiling' /\ StartInv' /\ Coalesced' /\ Held'
  BY <1>1 DEF Good, Tiling, InsideLimit, StartInv, Coalesced, Held
<1>7. PlaceInv' /\ AskedInv'
  BY <1>1, <1>3 DEF Good, PlaceInv, AskedInv
<1> QED BY <1>2, <1>3, <1>4, <1>5, <1>6, <1>7

LEMMA DumpStep ==
  ASSUME Good, dump_step
  PROVE  Good'
<1>1. /\ pc = "dump" /\ cur < max_pos /\ cur' = hdr[cur].next /\ aux' = aux
      /\ UNCHANGED <<heap, pc, size, asked, ptr, live, lost>>
  BY DEF dump_step
<1>2. aux' \in Nat \cup {NULL} /\ PlaceInv /\ pc' = "dump"
  BY <1>1 DEF Good, TypeOK
<1>3. /\ TypeOK' /\ Tiling' /\ StartInv' /\ Coalesced' /\ Held' /\ PlaceInv'
      /\ AskedInv'
  BY <1>1, <1>2, WalkFrame
<1>4. SearchInv' /\ RmInv'
  BY <1>2 DEF SearchInv, RmInv
<1> QED BY <1>3, <1>4 DEF Good

LEMMA RmStep ==
  ASSUME Good, rm_step
  PROVE  Good'
<1>1. /\ pc = "rm" /\ cur < max_pos /\ cur' = hdr[cur].next /\ aux' = cur
      /\ UNCHANGED <<heap, pc, size, asked, ptr, live, lost>>
  BY DEF rm_step
<1>2. aux' \in Nat \cup {NULL} /\ PlaceInv /\ pc' = "rm"
  BY <1>1 DEF Good, TypeOK
<1>3. /\ TypeOK' /\ Tiling' /\ StartInv' /\ Coalesced' /\ Held' /\ PlaceInv'
      /\ AskedInv' /\ cur \in DOMAIN hdr
  BY <1>1, <1>2, WalkFrame
<1>4. SearchInv'
  BY <1>2 DEF SearchInv
<1>5. RmInv'
  BY <1>1, <1>3 DEF Good, RmInv, heap
<1> QED BY <1>3, <1>4, <1>5 DEF Good

LEMMA SearchStep ==
  ASSUME Good, search_step
  PROVE  Good'
<1>1. /\ pc = "search" /\ cur < max_pos /\ cur' = hdr[cur].next
      /\ aux' = IF Better(cur) THEN cur ELSE aux
      /\ UNCHANGED <<heap, pc, size, asked, ptr, live, lost>>
  BY DEF search_step
<1>2. aux' \in Nat \cup {NULL} /\ PlaceInv /\ pc' = "search"
  BY <1>1 DEF Good, TypeOK
<1>3. /\ TypeOK' /\ Tiling' /\ StartInv' /\ Coalesced' /\ Held' /\ PlaceInv'
      /\ AskedInv'
      /\ cur \in DOMAIN hdr /\ cur < cur'
      /\ \A a \in DOMAIN hdr : a < cur' => a <= cur
  BY <1>1, <1>2, WalkFrame
<1>4. RmInv'
  BY <1>2 DEF RmInv
<1>5. SearchInv'
  <2>1. /\ hdr' = hdr /\ live' = live /\ ptr' = ptr /\ size' = size
        /\ size \in Nat /\ cur \in Nat /\ cur' \in Nat
    BY <1>1, <1>3, KMallocAssumption DEF heap, Good, TypeOK
  <2>2. /\ size >= 1
        /\ ptr = NULL \/ ptr \in DOMAIN live
        /\ aux = NULL \/ (/\ aux \in DOMAIN hdr /\ aux < cur
                          /\ hdr[aux].is_free = TRUE /\ hdr[aux].size >= size)
        /\ \A a \in DOMAIN hdr :
             a < cur /\ hdr[a].is_free = TRUE /\ hdr[a].size >= size
               => aux # NULL /\ hdr[aux].size <= hdr[a].size
    BY <1>1 DEF Good, SearchInv
  <2>3. /\ \A a \in DOMAIN hdr : a \in Nat /\ hdr[a].size \in Nat /\ hdr[a].is_free \in BOOLEAN
        /\ NULL = -1
    BY ListFacts
  <2>4. aux' = NULL \/ (/\ aux' \in DOMAIN hdr /\ aux' < cur'
                        /\ hdr[aux'].is_free = TRUE /\ hdr[aux'].size >= size)
    BY <1>1, <1>3, <2>1, <2>2, <2>3 DEF Better
  <2>5. ASSUME NEW a \in DOMAIN hdr, a < cur', hdr[a].is_free = TRUE, hdr[a].size >= size
        PROVE  aux' # NULL /\ hdr[aux'].size <= hdr[a].size
    <3>1. CASE a = cur
      BY <1>1, <1>3, <2>1, <2>2, <2>3, <2>5, <3>1 DEF Better
    <3>2. CASE a < cur
      BY <1>1, <1>3, <2>1, <2>2, <2>3, <2>5, <3>2 DEF Better
    <3> QED BY <1>3, <2>1, <2>3, <2>5, <3>1, <3>2
  <2> QED BY <1>2, <2>1, <2>2, <2>4, <2>5 DEF SearchInv
<1> QED BY <1>3, <1>4, <1>5 DEF Good

-----------------------------------------------------------------------------
(* Allocation *)

(* A search returns the block b, given that the new list is one.           *)
LEMMA GiveBlock ==
  ASSUME Good, pc = "search", pc' = "idle", first' = first,
         NEW b \in DOMAIN hdr', b + HDR \notin DOMAIN live,
         hdr'[b].is_free = FALSE, hdr'[b].size >= size,
         \A x \in DOMAIN hdr : x # b => x \in DOMAIN hdr' /\ hdr'[x] = hdr[x],
         \A x \in DOMAIN hdr' : x \in DOMAIN hdr \/ x = b \/ hdr'[x].is_free = TRUE,
         ReturnBlock(b + HDR),
         ListType(hdr', max_pos'), IsList(hdr', max_pos'), Coalesced',
         nb_pages' \in 0..MaxPages, FirstBlock <= max_pos', max_pos' <= Limit(nb_pages')
  PROVE  Good' /\ (ProductsFit => LiveStep)
<1>1. /\ live' = [q \in (DOMAIN live \ {ptr}) \cup {b + HDR} |->
                    IF q = b + HDR THEN asked ELSE live[q]]
      /\ lost' = IF ptr = NULL THEN lost ELSE lost \cup {ptr - HDR}
      /\ cur' = 0 /\ aux' = NULL /\ size' = 0 /\ asked' = 0 /\ ptr' = NULL
  BY DEF ReturnBlock, Done
<1>2. /\ DOMAIN live' = (DOMAIN live \ {ptr}) \cup {b + HDR}
      /\ live'[b + HDR] = asked
      /\ \A q \in DOMAIN live' : q # b + HDR => q \in DOMAIN live /\ q # ptr /\ live'[q] = live[q]
      /\ live' = [q \in DOMAIN live' |-> live'[q]]
  BY <1>1
<1>3. /\ HDR \in Nat /\ b \in Nat /\ NULL = -1 /\ asked \in Nat
      /\ DOMAIN live \subseteq Nat /\ \A q \in DOMAIN live : live[q] \in Nat /\ q - HDR \in DOMAIN hdr
      /\ \A a \in DOMAIN hdr : a \in Nat
      /\ \A a \in DOMAIN hdr' : a \in Nat
      /\ ptr = NULL \/ ptr \in DOMAIN live
  BY ListFacts DEF Good, TypeOK, ListType, Held, SearchInv
<1>4. TypeOK'
  <2>1. \A q \in DOMAIN live' : live'[q] \in Nat /\ q \in Nat
    BY <1>2, <1>3
  <2>2. live' \in [DOMAIN live' -> Nat] /\ DOMAIN live' \subseteq Nat
    BY <1>2, <2>1
  <2>3. lost' \subseteq Nat
    BY <1>1, <1>3 DEF Good, TypeOK
  <2>4. first \in BOOLEAN /\ 0 \in Sizes /\ max_pos' \in Nat
    BY KMallocAssumption DEF Good, TypeOK, ListType
  <2> QED BY <1>1, <2>2, <2>3, <2>4 DEF TypeOK, ListType
<1>5. Tiling' /\ StartInv'
  <2>1. first
    BY DEF Good, PlaceInv
  <2>2. InsideLimit'
    BY DEF InsideLimit
  <2> QED BY <2>1, <2>2 DEF Tiling, IsList, StartInv
<1>6. Held'
  <2>1. ASSUME NEW q \in DOMAIN live'
        PROVE  q - HDR \in DOMAIN hdr' /\ hdr'[q - HDR].is_free = FALSE
    <3>1. CASE q = b + HDR
      BY <1>3, <3>1
    <3>2. CASE q # b + HDR
      <4>1. q \in DOMAIN live /\ q \in Nat /\ q - HDR # b
        BY <1>2, <1>3, <3>2
      <4>2. q - HDR \in DOMAIN hdr /\ hdr[q - HDR].is_free = FALSE
        BY <4>1 DEF Good, Held
      <4> QED BY <4>1, <4>2
    <3> QED BY <3>1, <3>2
  <2>2. ASSUME NEW a \in DOMAIN hdr', hdr'[a].is_free = FALSE
        PROVE  a + HDR \in DOMAIN live' \/ a \in lost'
    <3>1. CASE a = b
      BY <1>2, <3>1
    <3>2. CASE a # b
      <4>1. a \in DOMAIN hdr /\ hdr[a].is_free = FALSE
        BY <2>2, <3>2
      <4>2. a + HDR \in DOMAIN live \/ a \in lost
        BY <4>1 DEF Good, Held
      <4>3. CASE a + HDR = ptr
        <5>1. ptr # NULL /\ ptr - HDR = a
          BY <1>3, <4>1, <4>3
        <5> QED BY <1>1, <5>1
      <4> QED BY <1>1, <1>2, <4>2, <4>3
    <3> QED BY <3>1, <3>2
  <2> QED BY <2>1, <2>2 DEF Held
<1>7. PlaceInv' /\ SearchInv' /\ RmInv'
  BY DEF PlaceInv, SearchInv, RmInv
<1>8. AskedInv'
  <2> SUFFICES ASSUME ProductsFit, NEW q \in DOMAIN live' PROVE hdr'[q - HDR].size >= live'[q]
    BY DEF AskedInv
  <2>1. CASE q = b + HDR
    <3>1. q - HDR = b /\ size = asked
      BY <1>3, <2>1 DEF Good, AskedInv
    <3> QED BY <1>2, <2>1, <3>1
  <2>2. CASE q # b + HDR
    <3>1. q \in DOMAIN live /\ q - HDR # b /\ q - HDR \in DOMAIN hdr /\ live'[q] = live[q]
      BY <1>2, <1>3, <2>2
    <3>2. hdr[q - HDR].size >= live[q]
      BY <3>1 DEF Good, AskedInv
    <3> QED BY <3>1, <3>2
  <2> QED BY <2>1, <2>2
<1>9. Good'
  BY <1>4, <1>5, <1>6, <1>7, <1>8 DEF Good
<1>10. ASSUME ProductsFit PROVE LiveStep
  <2> DEFINE p == b + HDR
             l == Abstract!Add(live, p, asked)
  <2>1. p \in Addr
    <3>1. p <= max_pos' /\ p \in Nat
      BY <1>3 DEF IsList, ListType, Block
    <3>2. max_pos' \in Nat /\ max_pos' <= Limit(MaxPages)
      BY LimitFacts, KMallocAssumption DEF ListType
    <3> QED BY <3>1, <3>2, BelowAddr
  <2>2. asked \in Sizes
    BY <1>10 DEF Good, AskedInv, TypeOK
  <2>3. CASE ptr = NULL
    <3>1. DOMAIN live \ {ptr} = DOMAIN live
      <4>1. NULL \notin DOMAIN live
        <5>1. NULL \notin Nat
          BY <1>3
        <5> QED BY <1>3, <5>1
      <4> QED BY ONLY <2>3, <4>1, Zenon
    <3>2. Abstract!Alloc(p, asked)
      BY <1>1, <3>1 DEF Abstract!Alloc, Abstract!Add
    <3> QED BY <2>1, <2>2, <3>2 DEF LiveStep
  <2>4. CASE ptr # NULL
    <3>1. ptr \in DOMAIN live /\ ptr \in Addr
      BY <1>3, <2>4, HeldInAddr
    <3>2. Abstract!Disjoint(l)
      <4>1. /\ DOMAIN l = DOMAIN live \cup {p} /\ l[p] = asked
            /\ \A q \in DOMAIN live : q # p => l[q] = live[q]
        BY DEF Abstract!Add
      <4> HIDE DEF l
      <4>2. ASSUME NEW q \in DOMAIN l
            PROVE  /\ q \in Nat /\ l[q] \in Nat /\ q - HDR \in DOMAIN hdr'
                   /\ hdr'[q - HDR].size >= l[q]
        <5>1. CASE q = p
          <6>1. q - HDR = b /\ size = asked /\ q \in Nat
            BY <1>3, <1>10, <5>1 DEF Good, AskedInv
          <6> QED BY <1>3, <4>1, <5>1, <6>1
        <5>2. CASE q # p
          <6>1. q \in DOMAIN live /\ q - HDR # b /\ q - HDR \in DOMAIN hdr /\ l[q] = live[q]
            BY <1>3, <4>1, <5>2
          <6>2. hdr[q - HDR].size >= live[q]
            BY <1>10, <6>1 DEF Good, AskedInv
          <6> QED BY <1>3, <6>1, <6>2
        <5> QED BY <5>1, <5>2
      <4> QED BY <4>2, LiveDisjoint
    <3>3. live' = Abstract!Drop(l, ptr)
      <4>1. p # ptr
        BY <3>1
      <4>2. (DOMAIN live \cup {p}) \ {ptr} = (DOMAIN live \ {ptr}) \cup {p}
        BY <4>1
      <4> QED BY <1>1, <4>2 DEF Abstract!Add, Abstract!Drop
    <3>4. Abstract!Move(ptr, p, asked)
      BY <3>1, <3>2, <3>3 DEF Abstract!Move
    <3> QED BY <2>1, <2>2, <3>1, <3>4 DEF LiveStep
  <2> QED BY <2>3, <2>4
<1> QED BY <1>9, <1>10

LEMMA HitStep ==
  ASSUME Good, search_hit
  PROVE  Good' /\ (ProductsFit => LiveStep)
<1>1. /\ pc = "search" /\ aux # NULL /\ hdr' = prepare_split_value(aux) /\ pc' = "idle"
      /\ ReturnBlock(hdr[aux].begin) /\ first' = first /\ nb_pages' = nb_pages /\ max_pos' = max_pos
  BY DEF search_hit
<1>2. /\ aux \in DOMAIN hdr /\ hdr[aux].is_free = TRUE /\ hdr[aux].size >= size /\ size >= 1
      /\ first /\ size \in Nat
  BY <1>1, KMallocAssumption DEF Good, SearchInv, PlaceInv, TypeOK
<1>3. /\ ListType(hdr, max_pos) /\ IsList(hdr, max_pos) /\ max_pos <= Limit(MaxPages)
      /\ HDR \in Nat /\ HDR >= 1 /\ aux \in Nat /\ hdr[aux].size \in Nat /\ hdr[aux].begin = aux + HDR
  BY <1>2, ListFacts
<1>4. aux + HDR \notin DOMAIN live
  <2>1. (aux + HDR) - HDR = aux
    BY <1>3
  <2> QED BY <1>2, <2>1 DEF Good, Held
<1>5. nb_pages \in 0..MaxPages /\ FirstBlock <= max_pos /\ max_pos <= Limit(nb_pages)
  BY <1>2 DEF Good, TypeOK, Tiling, InsideLimit
<1>6. CASE hdr[aux].size - size >= HDR + 1
  <2> DEFINE r == aux + HDR + size
             left == hdr[aux].size - size - HDR
  <2>1. r = hdr[aux].begin + size /\ left \in Nat /\ left >= 1 /\ left = (hdr[aux].size - size) - HDR
    BY <1>2, <1>3, <1>6
  <2>2. hdr' = Put(Put(hdr, r, Header(r, left, TRUE)), aux,
                   [hdr[aux] EXCEPT !.is_free = FALSE, !.size = size, !.next = r])
    BY <1>1, <1>6, <2>1 DEF prepare_split_value
  <2>3. /\ ListType(hdr', max_pos) /\ IsList(hdr', max_pos)
        /\ DOMAIN hdr' = DOMAIN hdr \cup {r} /\ r \notin DOMAIN hdr /\ aux < r /\ r < hdr[aux].next
        /\ hdr'[aux].is_free = FALSE /\ hdr'[aux].size = size
        /\ hdr'[r].is_free = TRUE /\ hdr'[r].next = hdr[aux].next
        /\ \A x \in DOMAIN hdr : x # aux => hdr'[x] = hdr[x]
    <3>1. left = hdr[aux].size - size - HDR /\ r = aux + HDR + size
      OBVIOUS
    <3> HIDE DEF left, r
    <3>2. hdr' = Split(hdr, aux, size, r, left)
      BY <2>2 DEF Split
    <3>3. IsSplit(hdr, Split(hdr, aux, size, r, left), max_pos, aux, size, r)
      <4>1. ListType(hdr, max_pos) /\ IsList(hdr, max_pos) /\ max_pos <= Limit(MaxPages)
        BY <1>3
      <4>2. aux \in DOMAIN hdr /\ size \in Nat /\ size >= 1 /\ left \in Nat /\ left >= 1
        BY <1>2, <2>1
      <4> QED BY ONLY <3>1, <4>1, <4>2, SplitBlock
    <3> QED BY ONLY <3>2, <3>3 DEF IsSplit
  <2> HIDE DEF r, left
  <2>4. Coalesced'
    <3> SUFFICES ASSUME NEW a \in DOMAIN hdr', hdr'[a].is_free, hdr'[a].next \in DOMAIN hdr'
                 PROVE  ~hdr'[hdr'[a].next].is_free
      BY DEF Coalesced
    <3>1. CASE a = r
      <4>1. hdr[aux].next \in DOMAIN hdr /\ hdr[aux].next # aux
        BY <1>2, <2>3, <3>1, ListFacts
      <4>2. ~hdr[hdr[aux].next].is_free
        BY <1>2, <4>1 DEF Good, Coalesced
      <4> QED BY <2>3, <3>1, <4>1, <4>2
    <3>2. CASE a # r
      <4>1. a \in DOMAIN hdr /\ a # aux /\ hdr'[a] = hdr[a]
        BY <2>3, <3>2
      <4>2. hdr[a].next \in DOMAIN hdr
        <5>1. hdr[a].next # r
          <6>1. hdr[aux].next <= max_pos /\ hdr[aux].next \in Nat /\ max_pos \in Nat
            BY <1>2, <1>3, ListFacts DEF IsList, ListType
          <6>2. r \in Nat
            BY <2>3 DEF ListType
          <6>3. r # max_pos
            BY <2>3, <6>1, <6>2
          <6>4. hdr[a].next = max_pos \/ hdr[a].next \in DOMAIN hdr
            BY <1>3, <4>1 DEF IsList
          <6> QED BY <2>3, <6>3, <6>4
        <5> QED BY <2>3, <4>1, <5>1
      <4>3. ~hdr[hdr[a].next].is_free
        BY <4>1, <4>2 DEF Good, Coalesced
      <4> QED BY <2>3, <4>1, <4>2, <4>3
    <3> QED BY <3>1, <3>2
  <2>5. hdr'[aux].size >= size /\ aux \in DOMAIN hdr'
    BY <1>2, <2>3
  <2>6. /\ \A x \in DOMAIN hdr : x # aux => x \in DOMAIN hdr' /\ hdr'[x] = hdr[x]
        /\ \A x \in DOMAIN hdr' : x \in DOMAIN hdr \/ x = aux \/ hdr'[x].is_free = TRUE
    BY <2>3
  <2> QED BY <1>1, <1>3, <1>4, <1>5, <2>3, <2>4, <2>5, <2>6, GiveBlock
<1>7. CASE ~(hdr[aux].size - size >= HDR + 1)
  <2>1. hdr' = [hdr EXCEPT ![aux].is_free = FALSE]
    BY <1>1, <1>7 DEF prepare_split_value
  <2>2. hdr = [x \in DOMAIN hdr |-> hdr[x]] /\ \A x \in DOMAIN hdr : hdr[x] \in Block /\ x \in Nat
    BY <1>3 DEF ListType
  <2>3. /\ DOMAIN hdr' = DOMAIN hdr
        /\ \A x \in DOMAIN hdr : x # aux => hdr'[x] = hdr[x]
        /\ hdr'[aux] \in Block
        /\ hdr'[aux].is_free = FALSE /\ hdr'[aux].size = hdr[aux].size
        /\ hdr'[aux].next = hdr[aux].next /\ hdr'[aux].begin = hdr[aux].begin
        /\ hdr' = [x \in DOMAIN hdr' |-> hdr'[x]]
    BY <1>2, <2>1, <2>2 DEF Block
  <2>4. \A x \in DOMAIN hdr : /\ hdr'[x].size = hdr[x].size /\ hdr'[x].next = hdr[x].next
                              /\ hdr'[x].begin = hdr[x].begin /\ hdr'[x] \in Block
    BY <2>2, <2>3
  <2>5. ListType(hdr', max_pos)
    BY <1>3, <2>3, <2>4 DEF ListType
  <2>6. IsList(hdr', max_pos)
    BY <1>3, <2>3, <2>4 DEF IsList
  <2>7. Coalesced'
    BY <2>3, <2>4 DEF Good, Coalesced
  <2>8. hdr'[aux].size >= size /\ aux \in DOMAIN hdr'
    BY <1>2, <2>3
  <2>9. /\ \A x \in DOMAIN hdr : x # aux => x \in DOMAIN hdr' /\ hdr'[x] = hdr[x]
        /\ \A x \in DOMAIN hdr' : x \in DOMAIN hdr \/ x = aux \/ hdr'[x].is_free = TRUE
    BY <2>3
  <2> QED BY <1>1, <1>3, <1>4, <1>5, <2>3, <2>5, <2>6, <2>7, <2>8, <2>9, GiveBlock
<1> QED BY <1>6, <1>7

LEMMA AppendStep ==
  ASSUME Good, NEW ok, search_append(ok), pc' # "wrapped"
  PROVE  Good' /\ (ProductsFit => LiveStep)
<1> DEFINE pages == pagesize_add_update
           e == max_pos + HDR + size
<1>1. pc = "search" /\ cur >= max_pos /\ aux = NULL
  BY DEF search_append
<1>2. CASE SbrkGrows(pages) /\ (~ok \/ nb_pages + pages > MaxPages)
  BY <1>2, ReturnStep DEF search_append, ReturnNull, Done, LiveStep
<1>3. CASE ~(SbrkGrows(pages) /\ (~ok \/ nb_pages + pages > MaxPages))
  <2>1. /\ nb_pages' = nb_pages + pages
        /\ hdr' = Put(hdr, max_pos, Header(max_pos, size, FALSE))
        /\ max_pos' = Wrap(e)
        /\ pc' = IF Phantom(pages) THEN "wrapped" ELSE "idle"
        /\ ReturnBlock(max_pos + HDR) /\ first' = first
    BY <1>3 DEF search_append
  <2>2. ~Phantom(pages) /\ pc' = "idle"
    BY <2>1
  <2>3. /\ ListType(hdr, max_pos) /\ IsList(hdr, max_pos) /\ max_pos \in Nat
        /\ HDR \in Nat /\ HDR >= 1 /\ size \in Nat /\ size >= 1 /\ first
        /\ nb_pages \in Nat /\ nb_pages <= MaxPages /\ MaxPages \in Nat
        /\ FirstBlock <= max_pos /\ FirstBlock \in Nat
        /\ HEAP_BASE \in Nat /\ WIDTH \in Nat
    <3>1. size \in Nat /\ MaxPages \in Nat /\ HEAP_BASE \in Nat /\ WIDTH \in Nat
      BY KMallocAssumption DEF Good, TypeOK
    <3>2. first /\ size >= 1
      BY <1>1 DEF Good, SearchInv, PlaceInv
    <3>3. FirstBlock <= max_pos
      BY <3>2 DEF Good, Tiling, InsideLimit
    <3> QED BY <3>1, <3>2, <3>3, ListFacts DEF Good, TypeOK
  <2>4. e \in Nat /\ Wrap(e) = e
    BY <2>2, <2>3 DEF Phantom, Wrap
  <2>5. pages \in Nat /\ nb_pages + pages <= MaxPages /\ e <= Limit(nb_pages + pages)
    <3>1. Limit(nb_pages) \in Nat
      BY <2>3, LimitFacts
    <3>2. CASE e > Limit(nb_pages)
      <4> DEFINE x == e - Limit(nb_pages)
      <4>1. x \in Nat /\ pages = (x \div PAGESIZE) + 1
        BY <2>4, <3>1, <3>2 DEF pagesize_add_update
      <4>2. x \div PAGESIZE \in Nat /\ x < ((x \div PAGESIZE) + 1) * PAGESIZE
        BY <4>1, DivPages
      <4>3. pages \in Nat /\ pages > 0
        BY <4>1, <4>2
      <4>4. nb_pages + pages <= MaxPages
        <5>1. SbrkGrows(pages)
          BY <2>2, <4>3 DEF Phantom
        <5> QED BY <1>3, <2>3, <4>3, <5>1
      <4>5. x < pages * PAGESIZE
        BY <4>1, <4>2
      <4>6. Limit(nb_pages + pages) = Limit(nb_pages) + pages * PAGESIZE /\ pages * PAGESIZE \in Nat
        BY <2>3, <4>3, LimitFacts
      <4> HIDE DEF pages
      <4>7. e <= Limit(nb_pages) + pages * PAGESIZE
        BY ONLY <2>4, <3>1, <4>5, <4>6
      <4> QED BY <4>3, <4>4, <4>6, <4>7
    <3>3. CASE ~(e > Limit(nb_pages))
      <4>1. pages = 0
        BY <2>4, <3>3 DEF pagesize_add_update
      <4> QED BY <2>3, <2>4, <3>1, <3>3, <4>1
    <3> QED BY <3>2, <3>3
  <2> HIDE DEF pages
  <2>6. e <= Limit(MaxPages)
    <3>1. nb_pages + pages \in Nat /\ MaxPages \in Nat
      BY <2>3, <2>5
    <3>2. /\ Limit(nb_pages + pages) <= Limit(MaxPages)
          /\ Limit(nb_pages + pages) \in Nat /\ Limit(MaxPages) \in Nat
      BY <2>5, <3>1, LimitFacts
    <3> QED BY <2>4, <2>5, <3>2
  <2>7. IsAppended(hdr, hdr', max_pos, size)
    BY <2>1, <2>3, <2>6, AppendBlock
  <2>8. /\ ListType(hdr', e) /\ IsList(hdr', e)
        /\ DOMAIN hdr' = DOMAIN hdr \cup {max_pos} /\ max_pos \notin DOMAIN hdr
        /\ hdr'[max_pos].is_free = FALSE /\ hdr'[max_pos].size = size
        /\ \A x \in DOMAIN hdr : hdr'[x] = hdr[x]
    BY <2>7 DEF IsAppended
  <2>9. max_pos' = e /\ nb_pages' \in 0..MaxPages /\ FirstBlock <= e /\ e <= Limit(nb_pages')
    BY <2>1, <2>3, <2>4, <2>5
  <2>10. max_pos + HDR \notin DOMAIN live
    <3>1. (max_pos + HDR) - HDR = max_pos
      BY <2>3
    <3> QED BY <2>8, <3>1 DEF Good, Held
  <2>11. Coalesced'
    <3> SUFFICES ASSUME NEW a \in DOMAIN hdr', hdr'[a].is_free, hdr'[a].next \in DOMAIN hdr'
                 PROVE  ~hdr'[hdr'[a].next].is_free
      BY DEF Coalesced
    <3>1. a \in DOMAIN hdr /\ hdr'[a] = hdr[a]
      BY <2>8
    <3>2. CASE hdr[a].next = max_pos
      BY <2>8, <3>1, <3>2
    <3>3. CASE hdr[a].next \in DOMAIN hdr
      <4>1. ~hdr[hdr[a].next].is_free
        BY <3>1, <3>3 DEF Good, Coalesced
      <4> QED BY <2>8, <3>1, <3>3, <4>1
    <3> QED BY <2>8, <3>1, <3>2, <3>3
  <2>12. /\ max_pos \in DOMAIN hdr' /\ hdr'[max_pos].size >= size
         /\ \A x \in DOMAIN hdr : x # max_pos => x \in DOMAIN hdr' /\ hdr'[x] = hdr[x]
         /\ \A x \in DOMAIN hdr' : x \in DOMAIN hdr \/ x = max_pos \/ hdr'[x].is_free = TRUE
    BY <2>3, <2>8
  <2> QED BY <1>1, <2>1, <2>2, <2>8, <2>9, <2>10, <2>11, <2>12, GiveBlock
<1> QED BY <1>2, <1>3

-----------------------------------------------------------------------------
(* free *)

(* The block at cur leaves the used ones, given that the new list is one.  *)
LEMMA TakeBlock ==
  ASSUME Good, pc = "rm", pc' = "idle", first' = first,
         cur \in DOMAIN hdr, ptr = cur + HDR,
         \A x \in DOMAIN hdr' :
           hdr'[x].is_free = FALSE => x \in DOMAIN hdr /\ x # cur /\ hdr'[x] = hdr[x],
         \A x \in DOMAIN hdr :
           hdr[x].is_free = FALSE /\ x # cur => x \in DOMAIN hdr' /\ hdr'[x] = hdr[x],
         Done([q \in DOMAIN live \ {ptr} |-> live[q]], lost),
         ListType(hdr', max_pos'), IsList(hdr', max_pos'), Coalesced',
         nb_pages' \in 0..MaxPages, FirstBlock <= max_pos', max_pos' <= Limit(nb_pages')
  PROVE  Good' /\ LiveStep
<1>1. /\ live' = [q \in DOMAIN live \ {ptr} |-> live[q]] /\ lost' = lost
      /\ cur' = 0 /\ aux' = NULL /\ size' = 0 /\ asked' = 0 /\ ptr' = NULL
  BY DEF Done
<1>2. /\ DOMAIN live' = DOMAIN live \ {ptr}
      /\ \A q \in DOMAIN live' : live'[q] = live[q]
      /\ live' = [q \in DOMAIN live' |-> live'[q]]
  BY <1>1
<1>3. /\ HDR \in Nat /\ cur \in Nat
      /\ DOMAIN live \subseteq Nat
      /\ \A q \in DOMAIN live : live[q] \in Nat
      /\ \A a \in DOMAIN hdr : a \in Nat
  BY ListFacts DEF Good, TypeOK
<1>4. ASSUME NEW q \in DOMAIN live'
      PROVE  /\ q \in DOMAIN live /\ q - HDR \in DOMAIN hdr /\ hdr[q - HDR].is_free = FALSE
             /\ q - HDR \in DOMAIN hdr' /\ hdr'[q - HDR] = hdr[q - HDR]
  <2>1. q \in DOMAIN live /\ q # ptr
    BY <1>2
  <2>2. q - HDR \in DOMAIN hdr /\ hdr[q - HDR].is_free = FALSE
    BY <2>1 DEF Good, Held
  <2>3. q - HDR # cur
    BY <1>3, <2>1
  <2> QED BY <2>1, <2>2, <2>3
<1>5. TypeOK'
  <2>1. live' \in [DOMAIN live' -> Nat] /\ DOMAIN live' \subseteq Nat
    BY <1>2, <1>3
  <2>2. first \in BOOLEAN /\ 0 \in Sizes /\ lost \subseteq Nat /\ max_pos' \in Nat
    BY KMallocAssumption DEF Good, TypeOK, ListType
  <2> QED BY <1>1, <2>1, <2>2 DEF TypeOK, ListType
<1>6. Tiling' /\ StartInv'
  <2>1. first
    BY DEF Good, PlaceInv
  <2>2. InsideLimit'
    BY DEF InsideLimit
  <2> QED BY <2>1, <2>2 DEF Tiling, IsList, StartInv
<1>7. Held'
  <2>1. ASSUME NEW a \in DOMAIN hdr', hdr'[a].is_free = FALSE
        PROVE  a + HDR \in DOMAIN live' \/ a \in lost'
    <3>1. a \in DOMAIN hdr /\ a # cur /\ hdr[a].is_free = FALSE /\ a + HDR # ptr
      BY <1>3, <2>1
    <3>2. a + HDR \in DOMAIN live \/ a \in lost
      BY <3>1 DEF Good, Held
    <3> QED BY <1>1, <1>2, <3>1, <3>2
  <2> QED BY <1>4, <2>1 DEF Held
<1>8. PlaceInv' /\ SearchInv' /\ RmInv'
  BY DEF PlaceInv, SearchInv, RmInv
<1>9. AskedInv'
  <2> SUFFICES ASSUME ProductsFit, NEW q \in DOMAIN live' PROVE hdr'[q - HDR].size >= live'[q]
    BY DEF AskedInv
  <2>1. hdr[q - HDR].size >= live[q]
    BY <1>4 DEF Good, AskedInv
  <2> QED BY <1>2, <1>4, <2>1
<1>10. LiveStep
  <2>1. CASE ptr \in DOMAIN live
    <3>1. ptr \in Addr
      BY <2>1, HeldInAddr
    <3>2. Abstract!Free(ptr)
      BY <1>1, <2>1 DEF Abstract!Free, Abstract!Drop
    <3> QED BY <3>1, <3>2 DEF LiveStep
  <2>2. CASE ptr \notin DOMAIN live
    <3>1. live = [q \in DOMAIN live |-> live[q]] /\ DOMAIN live \ {ptr} = DOMAIN live
      BY <2>2 DEF Good, TypeOK
    <3> QED BY <1>1, <3>1 DEF LiveStep
  <2> QED BY <2>1, <2>2
<1> QED BY <1>5, <1>6, <1>7, <1>8, <1>9, <1>10 DEF Good

(* The merged block m takes the place of the blocks up to the end it has.  *)
LEMMA MergeFacts ==
  ASSUME Good, pc = "rm", cur < max_pos
  PROVE  LET m == merge_freed_ptr
             end == m + HDR + MergedSize
             after == cur + HDR + hdr[cur].size
         IN /\ cur \in DOMAIN hdr /\ m \in DOMAIN hdr /\ MergedSize \in Nat /\ MergedSize >= 1
            /\ after = hdr[cur].next
            /\ after < max_pos => after \in DOMAIN hdr
            /\ BeforeMerges => aux \in DOMAIN hdr /\ hdr[aux].next = cur
            /\ end = IF AfterMerges THEN hdr[after].next ELSE after
            /\ end <= max_pos /\ (end = max_pos \/ end \in DOMAIN hdr)
            /\ Absorbed = {x \in DOMAIN hdr : m < x /\ x < end}
<1> DEFINE m == merge_freed_ptr
           end == m + HDR + MergedSize
           after == cur + HDR + hdr[cur].size
<1>1. /\ ListType(hdr, max_pos) /\ IsList(hdr, max_pos)
      /\ max_pos \in Nat /\ HDR \in Nat /\ HDR >= 1
  BY ListFacts DEF Good, TypeOK
<1>2. \A a \in DOMAIN hdr : /\ a \in Nat /\ a < hdr[a].next
                            /\ hdr[a].size \in Nat /\ hdr[a].next \in Nat
                            /\ hdr[a].next = a + HDR + hdr[a].size
  BY ListFacts
<1>a. \A a \in DOMAIN hdr : /\ hdr[a].size >= 1 /\ hdr[a].next <= max_pos
                            /\ hdr[a].next = max_pos \/ hdr[a].next \in DOMAIN hdr
  BY <1>1 DEF IsList
<1>b. \A a, b \in DOMAIN hdr : a < b => hdr[a].next <= b
  BY <1>1 DEF IsList
<1>3. cur \in DOMAIN hdr
  BY <1>1 DEF Good, PlaceInv
<1>4. after = hdr[cur].next /\ after \in Nat
  BY <1>2, <1>3
<1> HIDE DEF after
<1>5. after < max_pos => after \in DOMAIN hdr
  BY <1>1, <1>3, <1>4, <1>a
<1>6. BeforeMerges => aux \in DOMAIN hdr /\ hdr[aux].next = cur
  BY DEF BeforeMerges, Good, RmInv
<1>7. AfterMerges <=> after < max_pos /\ hdr[after].is_free
  BY DEF AfterMerges, after
<1>8. Absorbed = (IF AfterMerges THEN {after} ELSE {}) \cup (IF BeforeMerges THEN {cur} ELSE {})
  BY DEF Absorbed, after
<1> DEFINE own == hdr[cur].size + (IF AfterMerges THEN HDR + hdr[after].size ELSE 0)
<1>9. MergedSize = IF BeforeMerges THEN hdr[aux].size + HDR + own ELSE own
  BY DEF MergedSize, after
<1>10. own \in Nat /\ own >= 1 /\ cur + HDR + own = IF AfterMerges THEN hdr[after].next ELSE after
  <2>1. CASE AfterMerges
    <3>1. after \in DOMAIN hdr
      BY <1>5, <1>7, <2>1
    <3>2. own = hdr[cur].size + (HDR + hdr[after].size)
      BY <2>1
    <3>3. hdr[after].next = after + HDR + hdr[after].size /\ hdr[after].size \in Nat
      BY <1>2, <3>1
    <3>4. after = cur + HDR + hdr[cur].size /\ cur \in Nat /\ hdr[cur].size \in Nat /\ hdr[cur].size >= 1
      BY <1>2, <1>a, <1>3 DEF after
    <3> QED BY ONLY <1>1, <2>1, <3>2, <3>3, <3>4
  <2>2. CASE ~AfterMerges
    BY <1>1, <1>2, <1>a, <1>3, <2>2 DEF after
  <2> QED BY <2>1, <2>2
<1> HIDE DEF own
<1>11. /\ m \in DOMAIN hdr /\ MergedSize \in Nat /\ MergedSize >= 1
       /\ end = IF AfterMerges THEN hdr[after].next ELSE after
  <2>1. CASE BeforeMerges
    <3>1. m = aux /\ MergedSize = hdr[aux].size + HDR + own
      BY <1>9, <2>1 DEF merge_freed_ptr
    <3>2. aux \in DOMAIN hdr /\ cur = aux + HDR + hdr[aux].size /\ hdr[aux].size \in Nat /\ aux \in Nat
      BY <1>2, <1>6, <2>1
    <3>3. MergedSize \in Nat /\ MergedSize >= 1 /\ aux + HDR + MergedSize = cur + HDR + own
      BY ONLY <1>1, <1>10, <3>1, <3>2
    <3> QED BY <1>10, <3>1, <3>2, <3>3
  <2>2. CASE ~BeforeMerges
    BY <1>3, <1>9, <1>10, <2>2 DEF merge_freed_ptr
  <2> QED BY <2>1, <2>2
<1>12. m <= cur /\ m \in Nat /\ (m = cur \/ (BeforeMerges /\ m = aux /\ m < cur))
  <2>1. BeforeMerges => aux < cur /\ aux \in Nat
    BY <1>2, <1>6
  <2> QED BY <1>2, <1>3, <2>1 DEF merge_freed_ptr
<1>13. end <= max_pos /\ (end = max_pos \/ end \in DOMAIN hdr) /\ end \in Nat
  BY <1>2, <1>a, <1>3, <1>4, <1>5, <1>7, <1>11
<1> HIDE DEF end, m
<1>14. ASSUME NEW x \in Absorbed
       PROVE  x \in DOMAIN hdr /\ m < x /\ x < end
  <2>1. CASE x = cur /\ BeforeMerges
    <3>1. m < cur
      BY <1>2, <1>6, <1>12, <2>1 DEF BeforeMerges, merge_freed_ptr, m
    <3>2. cur < end
      <4>1. cur < after /\ (AfterMerges => after < hdr[after].next)
        BY <1>2, <1>3, <1>4, <1>5, <1>7
      <4> QED BY <1>2, <1>3, <1>4, <1>5, <1>7, <1>11, <4>1
    <3> QED BY <1>3, <2>1, <3>1, <3>2
  <2>2. CASE x = after /\ AfterMerges
    <3>1. after \in DOMAIN hdr /\ cur < after
      BY <1>2, <1>3, <1>4, <1>5, <1>7, <2>2
    <3>2. after < end
      BY <1>2, <1>11, <2>2, <3>1
    <3> QED BY <1>2, <1>3, <1>4, <1>12, <2>2, <3>1, <3>2
  <2> QED BY <1>8, <2>1, <2>2
<1>15. ASSUME NEW x \in DOMAIN hdr, m < x, x < end
       PROVE  x \in Absorbed
  <2>1. x \in Nat /\ cur \in Nat
    BY <1>2, <1>3
  <2>2. CASE x < cur
    <3>1. BeforeMerges /\ m = aux
      BY <1>12, <1>15, <2>1, <2>2
    <3>2. hdr[aux].next = cur /\ hdr[aux].next <= x
      BY <1>b, <1>6, <1>15, <3>1
    <3> QED BY <2>1, <2>2, <3>2
  <2>3. CASE x = cur
    BY <1>8, <1>12, <1>15, <2>1, <2>3
  <2>4. CASE cur < x
    <3>1. after <= x
      BY <1>b, <1>3, <1>4, <2>4
    <3>2. AfterMerges
      BY <1>4, <1>11, <1>15, <2>1, <3>1
    <3>3. after < x => hdr[after].next <= x
      BY <1>b, <1>5, <1>7, <3>2
    <3>4. hdr[after].next = end
      BY <1>11, <3>2
    <3>5. x = after
      BY <1>4, <1>13, <1>15, <2>1, <3>1, <3>3, <3>4
    <3> QED BY <1>8, <3>2, <3>5
  <2> QED BY <2>1, <2>2, <2>3, <2>4
<1>16. Absorbed = {x \in DOMAIN hdr : m < x /\ x < end}
  BY <1>14, <1>15
<1> QED BY <1>3, <1>4, <1>5, <1>6, <1>11, <1>13, <1>16 DEF m, end, after

LEMMA RmFoundStep ==
  ASSUME Good, rm_found
  PROVE  Good' /\ LiveStep
<1> DEFINE m == merge_freed_ptr
           sz == MergedSize
           end == m + HDR + sz
           after == cur + HDR + hdr[cur].size
           pages == pagesize_rm_update(m, sz)
           merged == Put(Cut(hdr, Absorbed), m, Header(m, sz, TRUE))
<1>1. /\ pc = "rm" /\ cur < max_pos /\ hdr[cur].begin = ptr
      /\ nb_pages' = nb_pages - pages
      /\ max_pos' = IF pages > 0 THEN m ELSE max_pos
      /\ hdr' = IF pages > 0 THEN Cut(merged, {m}) ELSE merged
      /\ pc' = "idle" /\ first' = first
      /\ Done([q \in DOMAIN live \ {ptr} |-> live[q]], lost)
  BY DEF rm_found
<1>2. /\ cur \in DOMAIN hdr /\ m \in DOMAIN hdr /\ sz \in Nat /\ sz >= 1
      /\ after = hdr[cur].next
      /\ after < max_pos => after \in DOMAIN hdr
      /\ BeforeMerges => aux \in DOMAIN hdr /\ hdr[aux].next = cur
      /\ end = IF AfterMerges THEN hdr[after].next ELSE after
      /\ end <= max_pos /\ (end = max_pos \/ end \in DOMAIN hdr)
      /\ Absorbed = {x \in DOMAIN hdr : m < x /\ x < end}
  BY <1>1, MergeFacts
<1>3. AfterMerges <=> after < max_pos /\ hdr[after].is_free
  BY DEF AfterMerges
<1>4. Absorbed = (IF AfterMerges THEN {after} ELSE {}) \cup (IF BeforeMerges THEN {cur} ELSE {})
  BY DEF Absorbed
<1>5. m = IF BeforeMerges THEN aux ELSE cur
  BY DEF merge_freed_ptr
<1>6. pages = IF end >= max_pos THEN (Limit(nb_pages) - m) \div PAGESIZE ELSE 0
  BY DEF pagesize_rm_update
<1> HIDE DEF m, sz, after, pages
<1>7. /\ ListType(hdr, max_pos) /\ IsList(hdr, max_pos) /\ max_pos <= Limit(MaxPages)
      /\ HDR \in Nat /\ HDR >= 1 /\ FirstBlock \in Nat /\ max_pos \in Nat
      /\ nb_pages \in Nat /\ nb_pages <= MaxPages /\ MaxPages \in Nat /\ Limit(nb_pages) \in Nat
  <2>1. nb_pages \in Nat /\ nb_pages <= MaxPages /\ MaxPages \in Nat /\ max_pos \in Nat
    BY KMallocAssumption DEF Good, TypeOK
  <2> QED BY <2>1, ListFacts, LimitFacts
<1>8. /\ \A a \in DOMAIN hdr : /\ a \in Nat /\ a >= FirstBlock /\ a < hdr[a].next
                               /\ hdr[a].next \in Nat /\ hdr[a].is_free \in BOOLEAN
      /\ hdr[cur].begin = cur + HDR
  BY <1>2, ListFacts
<1>9. \A a \in DOMAIN hdr : /\ hdr[a].next <= max_pos
                            /\ hdr[a].next = max_pos \/ hdr[a].next \in DOMAIN hdr
  BY <1>7 DEF IsList
<1>10. \A a, b \in DOMAIN hdr : a < b => hdr[a].next <= b
  BY <1>7 DEF IsList
<1>11. IsReplaced(hdr, merged, max_pos, m, sz, TRUE, Absorbed)
  <2> HIDE DEF merged
  <2>1. merged = Put(Cut(hdr, Absorbed), m, Header(m, sz, TRUE))
    BY DEF merged
  <2> QED BY ONLY <1>2, <1>7, <2>1, ReplaceBlock
<1> HIDE DEF merged
<1>12. /\ ListType(merged, max_pos) /\ IsList(merged, max_pos)
       /\ DOMAIN merged = DOMAIN hdr \ Absorbed /\ m \in DOMAIN merged
       /\ merged[m].is_free = TRUE /\ merged[m].next = end
       /\ \A x \in DOMAIN merged : x # m => merged[x] = hdr[x]
  BY <1>11 DEF IsReplaced
<1> HIDE DEF end
<1>13. ASSUME NEW a \in DOMAIN merged, merged[a].is_free, merged[a].next \in DOMAIN merged
       PROVE  ~merged[merged[a].next].is_free
  <2>1. CASE a = m
    <3>1. end \in DOMAIN hdr /\ end # m
      <4>1. m \in Nat /\ m < merged[m].next
        BY <1>2, <1>7, <1>8, <1>12 DEF IsList, end
      <4> QED BY <1>12, <1>13, <2>1, <4>1
    <3>2. ~hdr[end].is_free
      <4>1. CASE AfterMerges
        BY <1>2, <1>3, <3>1, <4>1 DEF Good, Coalesced
      <4>2. CASE ~AfterMerges
        <5>1. end = after
          BY <1>2, <4>2
        <5>2. after < max_pos
          BY <1>7, <1>8, <1>9, <3>1, <5>1
        <5> QED BY <1>3, <4>2, <5>1, <5>2
      <4> QED BY <4>1, <4>2
    <3> QED BY <1>12, <1>13, <2>1, <3>1, <3>2
  <2>2. CASE a # m
    <3>1. a \in DOMAIN hdr /\ merged[a] = hdr[a] /\ hdr[a].is_free /\ hdr[a].next \in DOMAIN hdr
      BY <1>12, <1>13, <2>2
    <3>2. ~hdr[hdr[a].next].is_free
      BY <3>1 DEF Good, Coalesced
    <3>3. hdr[a].next # m
      <4> SUFFICES ASSUME hdr[a].next = m PROVE FALSE
        OBVIOUS
      <4>1. ~BeforeMerges /\ m = cur
        BY <1>5, <3>2 DEF BeforeMerges
      <4>2. CASE aux = cur /\ cur = FirstBlock
        BY <1>7, <1>8, <3>1, <4>1, <4>2
      <4>3. CASE aux \in DOMAIN hdr /\ hdr[aux].next = cur
        <5>1. aux \in Nat /\ a \in Nat /\ cur \in Nat /\ aux < cur /\ a < cur
          BY <1>2, <1>8, <3>1, <4>1, <4>3
        <5>2. a = aux
          <6>1. a < aux => cur <= aux
            BY <1>10, <3>1, <4>1, <4>3
          <6>2. aux < a => cur <= a
            BY <1>10, <3>1, <4>1, <4>3
          <6> QED BY <5>1, <6>1, <6>2
        <5> QED BY <3>1, <4>1, <5>1, <5>2 DEF BeforeMerges
      <4> QED BY <1>1, <4>2, <4>3 DEF Good, RmInv
    <3> QED BY <1>12, <1>13, <3>1, <3>2, <3>3
  <2> QED BY <2>1, <2>2
<1>14. /\ \A x \in DOMAIN merged :
            merged[x].is_free = FALSE => x \in DOMAIN hdr /\ x # cur /\ x # m /\ merged[x] = hdr[x]
       /\ \A x \in DOMAIN hdr :
            hdr[x].is_free = FALSE /\ x # cur => x \in DOMAIN merged /\ x # m /\ merged[x] = hdr[x]
  <2>1. BeforeMerges => cur \in Absorbed /\ hdr[aux].is_free
    BY <1>4 DEF BeforeMerges
  <2>2. \A x \in Absorbed : x = cur \/ hdr[x].is_free
    BY <1>3, <1>4
  <2>3. \A x \in DOMAIN merged : x = m \/ (x \in DOMAIN hdr /\ x # cur /\ merged[x] = hdr[x])
    BY <1>5, <1>12, <2>1
  <2>4. ASSUME NEW x \in DOMAIN hdr, hdr[x].is_free = FALSE, x # cur
        PROVE  x \in DOMAIN merged /\ x # m /\ merged[x] = hdr[x]
    BY <1>5, <1>12, <2>1, <2>2, <2>4
  <2> QED BY <1>12, <2>3, <2>4
<1>15. ptr = cur + HDR
  BY <1>1, <1>8
<1>16. pages \in Nat /\ (pages > 0 => end = max_pos)
  <2>1. CASE end >= max_pos
    <3>1. end = max_pos
      BY <1>2, <1>7, <1>8, <2>1 DEF end
    <3>2. Limit(nb_pages) - m \in Nat
      <4>1. m < max_pos /\ m \in Nat
        BY <1>2, <1>7, <1>8, <1>9
      <4>2. max_pos <= Limit(nb_pages)
        BY <1>1 DEF Good, PlaceInv, Tiling, InsideLimit
      <4> QED BY <1>7, <4>1, <4>2
    <3> QED BY <1>6, <2>1, <3>1, <3>2, DivPages
  <2>2. CASE ~(end >= max_pos)
    BY <1>6, <2>2
  <2> QED BY <2>1, <2>2
<1>17. CASE pages > 0
  <2>1. /\ IsCut(merged, hdr', m) /\ max_pos' = m
    BY <1>1, <1>12, <1>16, <1>17, CutLast
  <2>2. /\ ListType(hdr', max_pos') /\ IsList(hdr', max_pos')
        /\ DOMAIN hdr' = DOMAIN merged \ {m}
        /\ \A x \in DOMAIN hdr' : hdr'[x] = merged[x]
    BY <2>1 DEF IsCut
  <2>3. Coalesced'
    BY <1>13, <2>2 DEF Coalesced
  <2>4. /\ nb_pages' \in 0..MaxPages /\ FirstBlock <= max_pos' /\ max_pos' <= Limit(nb_pages')
    <3>1. pages = (Limit(nb_pages) - m) \div PAGESIZE
      BY <1>6, <1>7, <1>16, <1>17
    <3>2. m \in Nat /\ m >= FirstBlock /\ m <= max_pos
      BY <1>2, <1>7, <1>8, <1>9
    <3>3. m <= Limit(nb_pages)
      <4>1. max_pos <= Limit(nb_pages)
        BY <1>1 DEF Good, PlaceInv, Tiling, InsideLimit
      <4> QED BY <1>7, <3>2, <4>1
    <3>4. nb_pages - pages \in 0..nb_pages /\ m <= Limit(nb_pages - pages)
      BY <1>7, <3>1, <3>2, <3>3, PagesBack
    <3> QED BY <1>1, <1>7, <2>1, <3>2, <3>4
  <2> QED BY <1>1, <1>2, <1>14, <1>15, <2>2, <2>3, <2>4, TakeBlock
<1>18. CASE pages = 0
  <2>1. hdr' = merged /\ max_pos' = max_pos /\ nb_pages' = nb_pages
    BY <1>1, <1>7, <1>18
  <2>2. Coalesced'
    BY <1>13, <2>1 DEF Coalesced
  <2>3. /\ nb_pages' \in 0..MaxPages /\ FirstBlock <= max_pos' /\ max_pos' <= Limit(nb_pages')
    BY <1>1, <1>7, <2>1 DEF Good, PlaceInv, Tiling, InsideLimit
  <2> QED BY <1>1, <1>2, <1>12, <1>14, <1>15, <2>1, <2>2, <2>3, TakeBlock
<1> QED BY <1>16, <1>17, <1>18

-----------------------------------------------------------------------------
(* Every step *)

LEMMA CallStep ==
  ASSUME Good, Call
  PROVE  Good' /\ LiveStep
<1>1. PICK ok \in BOOLEAN :
        \/ \E s \in Sizes : kmalloc(s, ok)
        \/ \E nmemb, s \in Sizes : calloc(nmemb, s, ok)
        \/ mem_dump(ok)
        \/ \E p \in Addr \cup {NULL} : free(p, ok)
        \/ \E p \in Addr \cup {NULL}, s \in Sizes : realloc(p, s, ok)
  BY DEF Call
<1>2. ASSUME NEW s \in Sizes, kmalloc(s, ok)
      PROVE  Good' /\ LiveStep
  <2>1. CASE s = 0
    BY <1>2, <2>1, Stutter DEF kmalloc, LiveStep, vars
  <2>2. CASE s # 0
    <3>1. pc = "idle" /\ mem_add_value(s, s, NULL, ok) /\ s \in Nat
      BY <1>2, <2>2, KMallocAssumption DEF kmalloc
    <3>2. Good'
      BY <2>2, <3>1, AddStep
    <3> QED BY <3>1, <3>2 DEF mem_add_value, LiveStep, vars
  <2> QED BY <2>1, <2>2
<1>3. ASSUME NEW nmemb \in Sizes, NEW s \in Sizes, calloc(nmemb, s, ok)
      PROVE  Good' /\ LiveStep
  <2> DEFINE total_size == (nmemb * s) % WIDTH
  <2>1. pc = "idle" /\ total_size \in Sizes
    BY <1>3 DEF calloc
  <2>2. CASE total_size = 0
    BY <1>3, <2>2, Stutter DEF calloc, LiveStep, vars
  <2>3. CASE total_size # 0
    <3>1. mem_add_value(total_size, nmemb * s, NULL, ok)
      BY <1>3, <2>3 DEF calloc
    <3>2. nmemb * s \in Nat
      BY KMallocAssumption
    <3>3. ProductsFit => nmemb * s = total_size
      BY <3>2, KMallocAssumption DEF ProductsFit
    <3> HIDE DEF total_size
    <3>4. Good'
      BY <2>1, <2>3, <3>1, <3>2, <3>3, AddStep
    <3> QED BY <3>1, <3>4 DEF mem_add_value, LiveStep, vars
  <2> QED BY <2>2, <2>3
<1>4. ASSUME mem_dump(ok)
      PROVE  Good' /\ LiveStep
  BY <1>4, DumpCallStep DEF mem_dump, LiveStep
<1>5. ASSUME NEW p \in Nat \cup {NULL}, pc = "idle", mem_rm_value(p, ok)
      PROVE  Good' /\ LiveStep
  <2>1. Good'
    BY <1>5, RmCallStep
  <2> QED BY <1>5, <2>1 DEF mem_rm_value, LiveStep
<1>6. Addr \subseteq Nat
  BY DEF Addr
<1>7. ASSUME NEW p \in Addr \cup {NULL}, free(p, ok)
      PROVE  Good' /\ LiveStep
  BY <1>5, <1>6, <1>7 DEF free
<1>8. ASSUME NEW p \in Addr \cup {NULL}, NEW s \in Sizes, realloc(p, s, ok)
      PROVE  Good' /\ LiveStep
  <2>0. pc = "idle" /\ p \in DOMAIN live \cup {NULL} /\ p \in Nat \cup {NULL}
    BY <1>6, <1>8 DEF realloc
  <2>1. CASE mem_rm_value(p, ok)
    BY <1>5, <2>0, <2>1
  <2>2. CASE kmalloc(s, ok)
    BY <1>2, <2>2
  <2>3. CASE /\ p # NULL /\ s # 0 /\ hdr[p - HDR].size >= s
             /\ live' = [live EXCEPT ![p] = s]
             /\ UNCHANGED <<heap, pc, cur, aux, size, asked, ptr, lost>>
    BY <2>0, <2>3, ReallocInPlaceStep
  <2>4. CASE s # 0 /\ mem_add_value(s, s, p, ok)
    <3>1. s \in Nat
      BY KMallocAssumption
    <3>2. Good'
      BY <2>0, <2>4, <3>1, AddStep
    <3> QED BY <2>4, <3>2 DEF mem_add_value, LiveStep, vars
  <2> QED BY <1>8, <2>1, <2>2, <2>3, <2>4 DEF realloc
<1> QED BY <1>1, <1>2, <1>3, <1>4, <1>7, <1>8

LEMMA NextStep ==
  ASSUME Good, [Next]_vars, pc' # "wrapped"
  PROVE  Good' /\ (ProductsFit => LiveStep)
<1>1. CASE Call
  BY <1>1, CallStep
<1>2. CASE search_step
  BY <1>2, SearchStep DEF search_step, LiveStep
<1>3. CASE search_hit
  BY <1>3, HitStep
<1>4. CASE \E ok \in BOOLEAN : search_append(ok)
  BY <1>4, AppendStep
<1>5. CASE rm_step
  BY <1>5, RmStep DEF rm_step, LiveStep
<1>6. CASE rm_found
  BY <1>6, RmFoundStep
<1>7. CASE rm_not_found
  BY <1>7, ReturnStep DEF rm_not_found, ReturnNull, Done, LiveStep
<1>8. CASE dump_step
  BY <1>8, DumpStep DEF dump_step, LiveStep
<1>9. CASE dump_end
  BY <1>9, ReturnStep DEF dump_end, ReturnNull, Done, LiveStep
<1>10. CASE UNCHANGED vars
  BY <1>10, Stutter DEF vars, LiveStep
<1> QED BY <1>1, <1>2, <1>3, <1>4, <1>5, <1>6, <1>7, <1>8, <1>9, <1>10
        DEF Next, Walk, page_fault_handler

(* A heap that wrapped around stays so: the model does not follow it.      *)
LEMMA WrappedStays ==
  ASSUME pc = "wrapped", [Next]_vars
  PROVE  UNCHANGED vars
BY DEF Next, Call, Walk, page_fault_handler, kmalloc, calloc, mem_dump, free, realloc,
       search_step, search_hit, search_append, rm_step, rm_found, rm_not_found,
       dump_step, dump_end, vars

(* Every reachable heap that has not wrapped around is a proper one.       *)
THEOREM KMallocInvariant == Spec => []IInv
<1>1. IInv /\ [Next]_vars => IInv'
  <2> SUFFICES ASSUME IInv, [Next]_vars, pc' # "wrapped" PROVE Good'
    BY DEF IInv
  <2>1. CASE pc = "wrapped"
    BY <2>1, WrappedStays DEF vars
  <2>2. CASE pc # "wrapped"
    BY <2>2, NextStep DEF IInv
  <2> QED BY <2>1, <2>2
<1> QED BY <1>1, InitInv, PTL DEF Spec

-----------------------------------------------------------------------------
(* What the runs check *)

(* KMalloc's type invariant, kmalloc.c and its helpers.                    *)
THEOREM KMallocTypeOK == Spec => [](pc # "wrapped" => TypeOK)
<1>1. IInv => (pc # "wrapped" => TypeOK)
  BY DEF IInv, Good
<1> QED BY <1>1, KMallocInvariant, PTL

(* Splits, merges, appends and page releases keep the headers one list     *)
(* that tiles the heap inside the memory of sbrk.                          *)
THEOREM KMallocTiling == Spec => [](pc # "wrapped" => Tiling)
<1>1. IInv => (pc # "wrapped" => Tiling)
  BY DEF IInv, Good
<1> QED BY <1>1, KMallocInvariant, PTL

(* merge_freed_ptr leaves no two free neighbours.                          *)
THEOREM KMallocCoalesced == Spec => [](pc # "wrapped" => Coalesced)
<1>1. IInv => (pc # "wrapped" => Coalesced)
  BY DEF IInv, Good
<1> QED BY <1>1, KMallocInvariant, PTL

(* mem_search_place finds the smallest block that is large enough.         *)
THEOREM KMallocBestFit == Spec => [](pc # "wrapped" => BestFit)
<1>1. IInv => (pc # "wrapped" => BestFit)
  <2> SUFFICES ASSUME Good, pc = "search", cur >= max_pos, NEW a \in DOMAIN hdr,
                      hdr[a].is_free, hdr[a].size >= size
               PROVE  aux # NULL /\ hdr[aux].size <= hdr[a].size
    BY DEF IInv, BestFit
  <2>1. /\ a \in Nat /\ hdr[a].next \in Nat /\ a < hdr[a].next /\ hdr[a].is_free \in BOOLEAN
        /\ IsList(hdr, max_pos)
    BY ListFacts
  <2>2. max_pos \in Nat /\ cur \in Nat
    BY DEF Good, TypeOK
  <2>3. a < cur
    BY <2>1, <2>2 DEF IsList
  <2>4. hdr[a].is_free = TRUE
    BY <2>1
  <2> QED BY <2>3, <2>4 DEF Good, SearchInv
<1> QED BY <1>1, KMallocInvariant, PTL

(* While no product of calloc exceeds a word, what callers hold are used   *)
(* blocks that are large enough, and nothing else is used but what realloc *)
(* left behind.                                                            *)
THEOREM KMallocOwnership ==
  ASSUME ProductsFit
  PROVE  Spec => [](pc # "wrapped" => Ownership)
<1>1. IInv => (pc # "wrapped" => Ownership)
  <2> SUFFICES ASSUME Good PROVE Ownership
    BY DEF IInv
  <2>1. \A a \in DOMAIN hdr : hdr[a].is_free \in BOOLEAN
    BY ListFacts
  <2>2. \A p \in DOMAIN live : /\ p - HDR \in DOMAIN hdr /\ ~hdr[p - HDR].is_free
                               /\ hdr[p - HDR].size >= live[p]
    BY DEF Good, Held, AskedInv
  <2>3. \A a \in DOMAIN hdr : ~hdr[a].is_free => a + HDR \in DOMAIN live \/ a \in lost
    BY <2>1 DEF Good, Held
  <2> QED BY <2>2, <2>3 DEF Ownership
<1> QED BY <1>1, KMallocInvariant, PTL

(* The walks of mem_search_place, mem_rm_value and mem_dump never stand on *)
(* a header that is no longer one.                                         *)
THEOREM KMallocWalkInv ==
  ASSUME ProductsFit
  PROVE  Spec => [](pc # "wrapped" => WalkInv)
<1>1. IInv => (pc # "wrapped" => WalkInv)
  <2> SUFFICES ASSUME Good PROVE WalkInv
    BY DEF IInv
  <2>1. pc \in {"search", "rm", "dump"} => first /\ (cur \in DOMAIN hdr \/ cur = max_pos)
    BY DEF Good, PlaceInv
  <2>2. pc = "search" => aux = NULL \/ (aux \in DOMAIN hdr /\ aux < cur
                                        /\ hdr[aux].is_free /\ hdr[aux].size >= size)
    BY DEF Good, SearchInv
  <2>3. pc = "search" => (ptr = NULL \/ ptr \in DOMAIN live) /\ size = asked
    BY DEF Good, SearchInv, AskedInv
  <2>4. pc = "rm" => aux = cur \/ (aux \in DOMAIN hdr /\ hdr[aux].next = cur)
    BY DEF Good, RmInv
  <2> QED BY <2>1, <2>2, <2>3, <2>4 DEF WalkInv
<1> QED BY <1>1, KMallocInvariant, PTL

-----------------------------------------------------------------------------
(* Refinement *)

(* No request is so large that an address wraps around at the end of the   *)
(* largest heap, or that sbrk takes its amount for a negative one.         *)
RequestsFit ==
  \A s \in Sizes :
    /\ HEAP_BASE + Limit(MaxPages) + HDR + s < WIDTH
    /\ HDR + s + PAGESIZE < WIDTH \div 2

LEMMA NoPhantom ==
  ASSUME RequestsFit, Good, pc = "search"
  PROVE  ~Phantom(pagesize_add_update)
<1> DEFINE pages == pagesize_add_update
           e == max_pos + HDR + size
<1>1. /\ max_pos \in Nat /\ HDR \in Nat /\ size \in Nat /\ size \in Sizes /\ nb_pages \in Nat
      /\ HEAP_BASE \in Nat /\ WIDTH \in Nat /\ PAGESIZE \in Nat /\ PAGESIZE >= 1
  BY KMallocAssumption, HdrNat DEF Good, TypeOK
<1>2. max_pos <= Limit(MaxPages) /\ Limit(MaxPages) \in Nat /\ Limit(nb_pages) \in Nat
  BY <1>1, ListFacts, LimitFacts
<1>3. max_pos <= Limit(nb_pages)
  BY DEF Good, PlaceInv, Tiling, InsideLimit
<1>4. /\ HEAP_BASE + Limit(MaxPages) + HDR + size < WIDTH
      /\ HDR + size + PAGESIZE < WIDTH \div 2
  BY <1>1 DEF RequestsFit
<1>5. HEAP_BASE + max_pos + HDR + size < WIDTH
  BY <1>1, <1>2, <1>4
<1>6. Wrap(e) = e
  BY <1>1, <1>5 DEF Wrap
<1>7. ASSUME pages > 0 PROVE SbrkGrows(pages)
  <2> DEFINE x == e - Limit(nb_pages)
  <2>1. e > Limit(nb_pages) /\ pages = (x \div PAGESIZE) + 1
    BY <1>6, <1>7 DEF pagesize_add_update
  <2>2. x \in Nat /\ x <= HDR + size
    BY <1>1, <1>2, <1>3, <2>1
  <2> HIDE DEF x, pages
  <2>3. x \div PAGESIZE \in Nat /\ (x \div PAGESIZE) * PAGESIZE <= x
    BY <2>2, DivPages
  <2>4. pages * PAGESIZE = (x \div PAGESIZE) * PAGESIZE + PAGESIZE
    BY <1>1, <2>1, <2>3
  <2>5. (x \div PAGESIZE) * PAGESIZE \in Nat /\ WIDTH \div 2 \in Nat
    <3>1. WIDTH \div 2 \in Nat
      BY ONLY <1>1
    <3> QED BY <2>3, <3>1, LimitFacts
  <2>6. pages * PAGESIZE < WIDTH \div 2
    BY ONLY <1>1, <1>4, <2>2, <2>3, <2>4, <2>5
  <2> QED BY <1>7, <2>6 DEF SbrkGrows
<1> QED BY <1>1, <1>5, <1>7 DEF Phantom

LEMMA StaysGood ==
  ASSUME RequestsFit, Good, pc # "wrapped", [Next]_vars
  PROVE  pc' # "wrapped"
<1> SUFFICES ASSUME pc' = "wrapped" PROVE FALSE
  OBVIOUS
<1>1. \E ok \in BOOLEAN : search_append(ok)
  BY DEF Next, Call, Walk, page_fault_handler, kmalloc, calloc, mem_dump, free, realloc,
         mem_add_value, mem_rm_value, search_step, search_hit, rm_step, rm_found,
         rm_not_found, dump_step, dump_end, ReturnNull, vars
<1>2. pc = "search" /\ Phantom(pagesize_add_update)
  BY <1>1 DEF search_append, ReturnNull
<1> QED BY <1>2, NoPhantom

Proper == pc # "wrapped" /\ Good

(* Requests that fit never make an address wrap around (search_append).    *)
THEOREM KMallocNeverWraps ==
  ASSUME RequestsFit
  PROVE  Spec => []Proper
<1>1. Init => Proper
  BY InitInv DEF Init, IInv, Proper
<1>2. Proper /\ [Next]_vars => Proper'
  <2> SUFFICES ASSUME Proper, [Next]_vars PROVE Proper'
    OBVIOUS
  <2>1. pc' # "wrapped"
    BY StaysGood DEF Proper
  <2> QED BY <2>1, NextStep DEF Proper
<1> QED BY <1>1, <1>2, PTL DEF Spec

(* The heap of kmalloc.c implements the abstract allocator, its node by    *)
(* node walks included: disjoint memory below the break, whatever callers  *)
(* do and whether or not sbrk refuses.                                     *)
THEOREM KMallocImplements ==
  ASSUME RequestsFit, ProductsFit
  PROVE  Spec => Implements
<1>1. Init => Abstract!Init
  BY DEF Init, Abstract!Init
<1>2. ASSUME Good, pc # "wrapped", [Next]_vars
      PROVE  Abstract!Next
  <2>1. pc' # "wrapped"
    BY <1>2, StaysGood
  <2>2. Good' /\ LiveStep
    BY <1>2, <2>1, NextStep
  <2>3. /\ ListType(hdr', max_pos') /\ IsList(hdr', max_pos')
        /\ \A p \in DOMAIN live' : /\ p \in Nat /\ live'[p] \in Nat /\ p - HDR \in DOMAIN hdr'
                                   /\ hdr'[p - HDR].size >= live'[p]
    BY <2>2 DEF Good, TypeOK, Tiling, ListType, IsList, Held, AskedInv
  <2>4. /\ Abstract!Disjoint(live')
        /\ \A p \in DOMAIN live' : p + live'[p] <= max_pos'
    BY <2>3, LiveDisjoint
  <2>5. /\ nb_pages' \in Nat /\ nb_pages' <= MaxPages /\ MaxPages \in Nat /\ max_pos' \in Nat
        /\ Limit(nb_pages') \in Nat /\ Limit(nb_pages') <= Limit(MaxPages)
    <3>1. nb_pages' \in Nat /\ nb_pages' <= MaxPages /\ MaxPages \in Nat /\ max_pos' \in Nat
      BY <2>2, KMallocAssumption DEF Good, TypeOK
    <3> QED BY <3>1, LimitFacts
  <2>6. CASE first'
    <3>1. max_pos' <= Limit(nb_pages')
      BY <2>2, <2>6 DEF Good, Tiling, InsideLimit
    <3>2. \A p \in DOMAIN live' : p + live'[p] <= Limit(nb_pages')
      BY <2>3, <2>4, <2>5, <3>1
    <3>3. Limit(nb_pages') \in Addr
      BY <2>5, BelowAddr
    <3>4. Abstract!Safe
      BY <2>4, <2>6, <3>2, <3>3 DEF Abstract!Safe, Abstract!BelowBreak, Limit
    <3> QED BY <2>2, <3>4 DEF Abstract!Next, LiveStep
  <2>7. CASE ~first'
    <3>1. max_pos' = 0
      BY <2>2, <2>7 DEF Good, StartInv
    <3>2. 0 \in Addr
      BY <2>5, BelowAddr, 0 \in Nat
    <3>3. \A p \in DOMAIN live' : p + live'[p] <= 0
      BY <2>4, <3>1
    <3>4. Abstract!Safe
      BY <2>4, <2>7, <3>2, <3>3 DEF Abstract!Safe, Abstract!BelowBreak
    <3> QED BY <2>2, <3>4 DEF Abstract!Next, LiveStep
  <2> QED BY <2>6, <2>7
<1>3. Proper /\ [Next]_vars
        => [Abstract!Next]_<<live, IF first THEN Limit(nb_pages) ELSE 0>>
  BY <1>2 DEF Proper
<1> QED BY <1>1, <1>3, KMallocNeverWraps, PTL DEF Spec, Implements, Abstract!Spec

(* The two hypotheses are all that test.c:25 takes for granted: with them, *)
(* every pointer a caller got has its memory below the end of the heap.    *)
THEOREM KMallocMemoryGiven ==
  ASSUME RequestsFit, ProductsFit
  PROVE  Spec => []MemoryGiven
<1>1. Proper => MemoryGiven
  <2> SUFFICES ASSUME Good, NEW p \in DOMAIN live PROVE p + live[p] <= Limit(MaxPages)
    BY DEF Proper, MemoryGiven
  <2>1. /\ ListType(hdr, max_pos) /\ IsList(hdr, max_pos)
        /\ max_pos <= Limit(MaxPages) /\ Limit(MaxPages) \in Nat
    BY ListFacts
  <2>2. \A q \in DOMAIN live : /\ q \in Nat /\ live[q] \in Nat /\ q - HDR \in DOMAIN hdr
                               /\ hdr[q - HDR].size >= live[q]
    BY DEF Good, TypeOK, Held, AskedInv
  <2>3. p + live[p] <= max_pos
    BY <2>1, <2>2, LiveDisjoint
  <2> QED BY <2>1, <2>2, <2>3 DEF ListType
<1> QED BY <1>1, KMallocNeverWraps, PTL
=============================================================================
