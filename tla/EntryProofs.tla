----------------------------- MODULE EntryProofs -----------------------------
(***************************************************************************)
(* Proofs about Entry, for every width of a byte, every address and size   *)
(* of g_tss and every depth of nested exceptions.                          *)
(***************************************************************************)
EXTENDS Entry, Arithmetic, SequenceTheorems, TLAPS
-----------------------------------------------------------------------------
(* Descriptors *)

(* A word is two halves; a limit in 20 bits counts units of a whole number *)
(* of bytes.                                                               *)
LEMMA Widths ==
  LET A == BYTE * BYTE
      k == WORD \div LIMITS
  IN /\ BYTE \in Nat /\ BYTE >= 1 /\ NIBBLE \in Nat /\ NIBBLE >= 1
     /\ A \in Nat /\ A >= 1 /\ WORD = A * A /\ LIMITS = A * NIBBLE
     /\ WORD \in Nat /\ WORD >= 1 /\ LIMITS \in Nat /\ LIMITS >= 1
     /\ k \in Nat /\ k >= 1 /\ WORD = k * LIMITS /\ A = k * NIBBLE
<1> DEFINE A == BYTE * BYTE
           k == WORD \div LIMITS
<1>1. BYTE \in Nat \ {0} /\ NIBBLE \in Nat \ {0} /\ WORD % LIMITS = 0
  BY EntryAssumption
<1>2. BYTE \in Nat /\ BYTE >= 1 /\ NIBBLE \in Nat /\ NIBBLE >= 1
  BY <1>1
<1>3. A \in Nat /\ A >= 1
  <2>1. BYTE * BYTE \in Nat /\ 1 * BYTE <= BYTE * BYTE
    BY <1>2, MulMono, 1 \in Nat
  <2> QED BY <1>2, <2>1
<1>4. WORD = A * A
  BY <1>2 DEF WORD
<1>5. LIMITS = A * NIBBLE
  BY DEF LIMITS
<1> HIDE DEF A
<1>6. WORD \in Nat /\ WORD >= 1 /\ LIMITS \in Nat /\ LIMITS >= 1
  <2>1. A * A \in Nat /\ 1 * A <= A * A
    BY <1>3, MulMono, 1 \in Nat
  <2>2. A * NIBBLE \in Nat /\ 1 * NIBBLE <= A * NIBBLE
    BY <1>2, <1>3, MulMono, 1 \in Nat
  <2> QED BY <1>2, <1>3, <1>4, <1>5, <2>1, <2>2
<1>7. k \in Nat /\ WORD = k * LIMITS
  <2>1. k \in Nat /\ WORD = k * LIMITS + (WORD % LIMITS)
    BY <1>6, DivMod
  <2> HIDE DEF k
  <2>2. k * LIMITS \in Nat
    BY <1>6, <2>1
  <2> QED BY <1>1, <2>1, <2>2
<1> HIDE DEF k
<1>8. k >= 1
  BY <1>6, <1>7
<1>9. A = k * NIBBLE
  <2> DEFINE x == k * NIBBLE
  <2>1. x \in Nat
    BY <1>2, <1>7
  <2>2. k * LIMITS = x * A
    BY <1>2, <1>3, <1>5, <1>7
  <2> HIDE DEF x
  <2>3. A * A = x * A
    BY <1>4, <1>7, <2>2
  <2>4. /\ A * A \in Nat /\ x * A \in Nat
        /\ A < x => A * A + A <= x * A
        /\ x < A => x * A + A <= A * A
    BY <1>3, <2>1, MulMono
  <2>5. A = x
    BY ONLY <1>3, <2>1, <2>3, <2>4
  <2> QED BY <2>5 DEF x
<1> QED BY <1>2, <1>3, <1>4, <1>5, <1>6, <1>7, <1>8, <1>9 DEF A, k

(* A flat segment starts at 0 and ends with the last address.              *)
LEMMA FlatSegment ==
  ASSUME NEW access
  PROVE  LET e == set_gdt_entry(0, WORD - 1, access, 1)
         IN e.access = access /\ Base(e) = 0 /\ Limit(e) = WORD - 1
<1> DEFINE A == BYTE * BYTE
           N == NIBBLE
           k == WORD \div LIMITS
           e == set_gdt_entry(0, WORD - 1, access, 1)
<1>1. /\ BYTE \in Nat /\ BYTE >= 1 /\ N \in Nat /\ N >= 1
      /\ A \in Nat /\ A >= 1 /\ WORD = A * A /\ LIMITS = A * N
      /\ k \in Nat /\ k >= 1 /\ WORD = k * LIMITS /\ A = k * N /\ WORD \in Nat
  BY Widths
<1>2. /\ e.access = access /\ e.g = 1
      /\ e.limit_low = (WORD - 1) % A
      /\ e.limit_high = ((WORD - 1) \div A) % N
      /\ e.base_low = 0 % A /\ e.base_mid = (0 \div A) % BYTE
      /\ e.base_high = (0 \div (A * BYTE)) % BYTE
  BY DEF set_gdt_entry
<1>3. Base(e) = e.base_low + A * (e.base_mid + BYTE * e.base_high)
  BY DEF Base
<1>4. Limit(e) = (e.limit_low + A * e.limit_high) * k + k - 1
  BY <1>2 DEF Limit
<1> HIDE DEF e
<1>5. Base(e) = 0
  <2>1. A * BYTE \in Nat /\ A * BYTE >= 1
    <3>1. A * BYTE \in Nat /\ 1 * BYTE <= A * BYTE
      BY <1>1, MulMono, 1 \in Nat
    <3> QED BY <1>1, <3>1
  <2> DEFINE c == A * BYTE
  <2> HIDE DEF A, c
  <2>2. 0 % A = 0 /\ 0 \div A = 0 /\ 0 % BYTE = 0 /\ 0 \div c = 0
    <3>1. ASSUME NEW x \in Nat, x >= 1 PROVE 0 % x = 0 /\ 0 \div x = 0
      BY <3>1
    <3>2. c \in Nat /\ c >= 1
      BY <2>1 DEF c
    <3> QED BY <1>1, <3>1, <3>2
  <2>3. e.base_low = 0 /\ e.base_mid = 0 /\ e.base_high = 0
    BY <1>2, <2>2 DEF c
  <2> QED BY <1>1, <1>3, <2>3
<1> HIDE DEF A, N, k
<1>6. e.limit_low = A - 1 /\ (WORD - 1) \div A = A - 1
  <2>1. WORD - 1 = (A - 1) * A + (A - 1)
    BY <1>1
  <2>2. A - 1 \in Nat /\ A - 1 \in 0..(A - 1)
    BY <1>1
  <2> DEFINE d == A - 1
  <2> HIDE DEF d
  <2>3. d \in Nat /\ d \in 0..(A - 1) /\ WORD - 1 = d * A + d
    BY <2>1, <2>2 DEF d
  <2>4. (d * A + d) \div A = d /\ (d * A + d) % A = d
    BY <1>1, <2>3, DivModOf
  <2>5. (WORD - 1) \div A = d /\ (WORD - 1) % A = d
    BY <2>3, <2>4
  <2> QED BY <1>2, <2>5 DEF d
<1>7. e.limit_high = N - 1
  <2>1. A - 1 = (k - 1) * N + (N - 1)
    BY <1>1
  <2>2. k - 1 \in Nat /\ N - 1 \in 0..(N - 1)
    BY <1>1
  <2> DEFINE d == k - 1
             i == N - 1
  <2> HIDE DEF d, i
  <2>3. d \in Nat /\ i \in 0..(N - 1) /\ A - 1 = d * N + i
    BY <2>1, <2>2 DEF d, i
  <2>4. (d * N + i) % N = i
    BY <1>1, <2>3, DivModOf
  <2> QED BY <1>2, <1>6, <2>3, <2>4 DEF i
<1>8. Limit(e) = WORD - 1
  <2>1. (A - 1) + A * (N - 1) = A * N - 1
    BY <1>1
  <2>2. (A * N - 1) * k + k - 1 = (A * N) * k - 1
    BY <1>1
  <2>3. (A * N) * k = WORD
    BY <1>1
  <2> QED BY <1>4, <1>6, <1>7, <2>1, <2>2, <2>3
<1> QED BY <1>2, <1>5, <1>8 DEF e

(* The fields of the descriptor of the TSS put its address together again, *)
(* and its limit, cut to 20 bits, is still at least its size.              *)
LEMMA TssSegment ==
  ASSUME tss \in TssBases
  PROVE  /\ Base(TssEntry) = tss /\ Limit(TssEntry) >= SIZEOF_TSS - 1
         /\ TssEntry.access = Access(TSS_32, 3, 1, 0)
<1> DEFINE A == BYTE * BYTE
           N == NIBBLE
           e == TssEntry
           lim == tss + SIZEOF_TSS
<1>1. /\ BYTE \in Nat /\ BYTE >= 1 /\ N \in Nat /\ N >= 1
      /\ A \in Nat /\ A >= 1 /\ WORD = A * A /\ LIMITS = A * N
      /\ WORD \in Nat /\ LIMITS \in Nat /\ LIMITS >= 1
  BY Widths
<1>2. /\ tss \in Nat /\ SIZEOF_TSS \in Nat /\ SIZEOF_TSS >= 1 /\ lim < WORD
      /\ (tss % LIMITS) + SIZEOF_TSS < LIMITS
  <2>1. /\ TssBases \subseteq Nat /\ SIZEOF_TSS \in 1..(LIMITS - 1)
        /\ \A b \in TssBases : b + SIZEOF_TSS < WORD /\ (b % LIMITS) + SIZEOF_TSS < LIMITS
    BY EntryAssumption
  <2> QED BY <1>1, <2>1
<1>3. /\ e.access = Access(TSS_32, 3, 1, 0) /\ e.g = 0
      /\ e.limit_low = lim % A /\ e.limit_high = (lim \div A) % N
      /\ e.base_low = tss % A /\ e.base_mid = (tss \div A) % BYTE
      /\ e.base_high = (tss \div (A * BYTE)) % BYTE
  BY DEF TssEntry, set_gdt_entry
<1>4. /\ Base(e) = e.base_low + A * (e.base_mid + BYTE * e.base_high)
      /\ Limit(e) = e.limit_low + A * e.limit_high
  BY <1>3 DEF Base, Limit
<1> HIDE DEF e, A
<1>5. Base(e) = tss
  <2> DEFINE t == tss \div A
             h == t \div BYTE
  <2>1. t \in Nat /\ tss % A \in 0..(A - 1) /\ tss = t * A + (tss % A)
    BY <1>1, <1>2, DivMod
  <2>2. tss \div (A * BYTE) = h
    BY <1>1, <1>2, TwoDigits, ZenonT(60)
  <2> HIDE DEF t
  <2>3. h \in Nat /\ t % BYTE \in 0..(BYTE - 1) /\ t = h * BYTE + (t % BYTE)
    BY <1>1, <2>1, DivMod
  <2> HIDE DEF h
  <2>4. t < A
    <3>1. t * A \in Nat /\ (A <= t <=> A * A <= t * A)
      BY <1>1, <2>1, MulMono
    <3>2. t * A < A * A
      BY <1>1, <1>2, <2>1, <3>1
    <3> QED BY <1>1, <2>1, <3>1, <3>2
  <2>5. h < BYTE
    <3>1. h * BYTE \in Nat /\ (BYTE <= h <=> BYTE * BYTE <= h * BYTE)
      BY <1>1, <2>3, MulMono
    <3>2. h * BYTE < BYTE * BYTE
      BY <1>1, <2>1, <2>3, <2>4, <3>1 DEF A
    <3> QED BY <1>1, <2>3, <3>1, <3>2
  <2>6. h % BYTE = h
    <3>1. h \in 0..(BYTE - 1) /\ 0 \in Nat /\ 0 * BYTE + h = h
      BY <1>1, <2>3, <2>5
    <3>2. (0 * BYTE + h) % BYTE = h
      BY <1>1, <3>1, DivModOf
    <3> QED BY <3>1, <3>2
  <2>7. e.base_mid + BYTE * e.base_high = t
    BY <1>1, <1>3, <2>2, <2>3, <2>6 DEF t
  <2>8. Base(e) = (tss % A) + A * t
    BY <1>3, <1>4, <2>7
  <2> QED BY <1>1, <1>2, <2>1, <2>8
<1>6. Limit(e) = lim % LIMITS
  <2>1. lim \in Nat
    BY <1>2
  <2> HIDE DEF lim
  <2> HIDE DEF N
  <2>2. lim % (A * N) = (lim % A) + A * ((lim \div A) % N)
    BY <1>1, <2>1, TwoDigits
  <2> QED BY <1>1, <1>3, <1>4, <2>2
<1>7. lim % LIMITS = (tss % LIMITS) + SIZEOF_TSS
  <2> DEFINE q == tss \div LIMITS
             r == tss % LIMITS
  <2>1. q \in Nat /\ r \in 0..(LIMITS - 1) /\ tss = q * LIMITS + r
    BY <1>1, <1>2, DivMod
  <2>2. r + SIZEOF_TSS < LIMITS
    BY <1>2
  <2> HIDE DEF q, r
  <2>3. r + SIZEOF_TSS \in 0..(LIMITS - 1)
    BY <1>1, <1>2, <2>1, <2>2
  <2>4. lim = q * LIMITS + (r + SIZEOF_TSS)
    BY <1>1, <1>2, <2>1
  <2> HIDE DEF lim
  <2>5. lim % LIMITS = r + SIZEOF_TSS
    BY <1>1, <2>1, <2>3, <2>4, DivModOf, ZenonT(60)
  <2> QED BY <2>5 DEF r
<1>8. Limit(e) >= SIZEOF_TSS - 1
  <2>1. tss % LIMITS \in 0..(LIMITS - 1)
    BY <1>1, <1>2, DivMod
  <2> QED BY <1>1, <1>2, <1>6, <1>7, <2>1
<1> QED BY <1>3, <1>5, <1>8 DEF e

-----------------------------------------------------------------------------
(* Registers and the stack *)

SegmentNames == {"ds", "es", "fs", "gs", "ss"}
PushalNames == {"eax", "ecx", "edx", "ebx", "esp", "ebp", "esi", "edi"}

LEMMA Names ==
  /\ ToSet(Segments) = SegmentNames /\ ToSet(Pushal) = PushalNames
  /\ Reg = SegmentNames \cup (PushalNames \ {"esp"}) \cup {"cs", "eip", "eflags"}
  /\ \A i \in 1..5 : Segments[i] \in SegmentNames
  /\ \A i \in 1..8 : Pushal[i] \in PushalNames
<1>1. DOMAIN Segments = 1..5 /\ DOMAIN Pushal = 1..8
  BY DEF Segments, Pushal
<1>2. \A i \in 1..5 : Segments[i] \in SegmentNames
  BY DEF Segments, SegmentNames
<1>3. \A i \in 1..8 : Pushal[i] \in PushalNames
  BY DEF Pushal, PushalNames
<1>4. \A r \in SegmentNames : \E i \in 1..5 : r = Segments[i]
  <2>1. /\ Segments[1] = "ds" /\ Segments[2] = "es" /\ Segments[3] = "fs"
        /\ Segments[4] = "gs" /\ Segments[5] = "ss"
    BY DEF Segments
  <2>2. 1 \in 1..5 /\ 2 \in 1..5 /\ 3 \in 1..5 /\ 4 \in 1..5 /\ 5 \in 1..5
    OBVIOUS
  <2> QED BY <2>1, <2>2 DEF SegmentNames
<1>5. \A r \in PushalNames : \E i \in 1..8 : r = Pushal[i]
  <2>1. /\ Pushal[1] = "eax" /\ Pushal[2] = "ecx" /\ Pushal[3] = "edx" /\ Pushal[4] = "ebx"
        /\ Pushal[5] = "esp" /\ Pushal[6] = "ebp" /\ Pushal[7] = "esi" /\ Pushal[8] = "edi"
    BY DEF Pushal
  <2>2. /\ 1 \in 1..8 /\ 2 \in 1..8 /\ 3 \in 1..8 /\ 4 \in 1..8 /\ 5 \in 1..8 /\ 6 \in 1..8
        /\ 7 \in 1..8 /\ 8 \in 1..8
    OBVIOUS
  <2> QED BY <2>1, <2>2 DEF PushalNames
<1>6. ToSet(Segments) = SegmentNames
  BY <1>1, <1>2, <1>4 DEF ToSet
<1>7. ToSet(Pushal) = PushalNames
  BY <1>1, <1>3, <1>5 DEF ToSet
<1> QED BY <1>2, <1>3, <1>6, <1>7 DEF Reg

(* No register is named twice, so a name finds its word.                   *)
LEMMA Positions ==
  /\ \A r : \A i \in 1..5 : Segments[i] = r => (CHOOSE j \in 1..5 : Segments[j] = r) = i
  /\ \A r : \A i \in 1..8 : Pushal[i] = r => (CHOOSE j \in 1..8 : Pushal[j] = r) = i
<1>1. \A i, j \in 1..5 : Segments[i] = Segments[j] => i = j
  BY DEF Segments
<1>2. \A i, j \in 1..8 : Pushal[i] = Pushal[j] => i = j
  BY DEF Pushal
<1> QED BY <1>1, <1>2

LEMMA StructPositions ==
  /\ Len(RegsStruct) = 20
  /\ \A i \in 1..17 : (CHOOSE j \in 1..20 : RegsStruct[j] = RegsStruct[i]) = i
<1>1. \A i \in 1..17, j \in 1..20 : RegsStruct[i] = RegsStruct[j] => i = j
  BY DEF RegsStruct
<1>2. Len(RegsStruct) = 20
  BY DEF RegsStruct
<1>3. \A i \in 1..17 : i \in 1..20
  OBVIOUS
<1> QED BY <1>1, <1>2, <1>3

(* A field up to cs lies in one word: cs in its lower half, the others in  *)
(* both, which put the word together again.                                *)
LEMMA FieldWord ==
  ASSUME NEW i \in 1..17, NEW w \in Nat, stack[Last(stack) - (i - 1)] = w
  PROVE  RegsField(RegsStruct[i]) = IF i = 17 THEN w % HALF ELSE w
<1> DEFINE o == 2 * (i - 1)
<1>1. (CHOOSE j \in 1..Len(RegsStruct) : RegsStruct[j] = RegsStruct[i]) = i
  BY StructPositions
<1>2. Offset(i) = o
  BY DEF Offset
<1>3. o \div 2 = i - 1 /\ o % 2 = 0 /\ (o + 1) \div 2 = i - 1 /\ (o + 1) % 2 = 1
  <2>1. i - 1 \in Nat /\ 2 \in Nat /\ 2 >= 1 /\ 0 \in 0..(2 - 1) /\ 1 \in 0..(2 - 1)
    OBVIOUS
  <2> DEFINE d == i - 1
  <2> HIDE DEF d
  <2>2. /\ (d * 2 + 0) \div 2 = d /\ (d * 2 + 0) % 2 = 0
        /\ (d * 2 + 1) \div 2 = d /\ (d * 2 + 1) % 2 = 1
    BY <2>1, DivModOf DEF d
  <2>3. d * 2 + 0 = o /\ d * 2 + 1 = o + 1
    BY <2>1 DEF d
  <2> QED BY <2>2, <2>3 DEF d
<1>4. RegsStruct[i] = "cs" <=> i = 17
  BY DEF RegsStruct
<1> HIDE DEF o
<1>5. regs(o) = w % HALF /\ regs(o + 1) = w \div HALF
  BY <1>3 DEF regs
<1>6. RegsField(RegsStruct[i]) = IF i = 17 THEN regs(o) ELSE regs(o) + HALF * regs(o + 1)
  <2> DEFINE f == RegsStruct[i]
             k == CHOOSE j \in 1..Len(RegsStruct) : RegsStruct[j] = f
  <2>1. RegsField(f) = LET q == Offset(k)
                       IN IF f = "cs" THEN regs(q) ELSE regs(q) + HALF * regs(q + 1)
    BY ONLY Zenon DEF RegsField
  <2>2. k = i
    BY <1>1
  <2>3. Offset(k) = o
    BY <1>2, <2>2
  <2> HIDE DEF k
  <2>4. RegsField(f) = IF f = "cs" THEN regs(o) ELSE regs(o) + HALF * regs(o + 1)
    BY ONLY <2>1, <2>3, Zenon
  <2> QED BY ONLY <1>4, <2>4, Zenon
<1>7. (w % HALF) + HALF * (w \div HALF) = w
  <2>1. HALF \in Nat /\ HALF >= 1
    BY Widths DEF HALF
  <2>2. w \div HALF \in Nat /\ w % HALF \in 0..(HALF - 1) /\ w = (w \div HALF) * HALF + (w % HALF)
    BY <2>1, DivMod
  <2> DEFINE a == w \div HALF
             b == w % HALF
  <2> HIDE DEF a, b
  <2>3. a \in Nat /\ b \in 0..(HALF - 1) /\ w = a * HALF + b
    BY <2>2 DEF a, b
  <2>4. b + HALF * a = w
    BY <2>1, <2>3
  <2> QED BY <2>4 DEF a, b
<1> QED BY <1>5, <1>6, <1>7

(* What is pushed lies above what was there.                               *)
LEMMA Concat ==
  ASSUME NEW s \in Seq(Nat), NEW t \in Seq(Nat)
  PROVE  /\ s \o t \in Seq(Nat) /\ Len(s \o t) = Len(s) + Len(t)
         /\ \A i \in 1..Len(s) : (s \o t)[i] = s[i]
         /\ \A i \in 1..Len(t) : (s \o t)[Len(s) + i] = t[i]
<1> DEFINE c == s \o t
           m == Len(s)
           n == Len(t)
<1>1. /\ c \in Seq(Nat) /\ Len(c) = m + n
      /\ \A i \in 1..(m + n) : c[i] = IF i <= m THEN s[i] ELSE t[i - m]
  BY ONLY s \in Seq(Nat), t \in Seq(Nat), ConcatProperties, Zenon
<1>2. m \in Nat /\ n \in Nat
  BY LenProperties
<1> HIDE DEF c, m, n
<1>3. ASSUME NEW i \in 1..m PROVE c[i] = s[i]
  <2>1. i \in 1..(m + n) /\ i <= m
    BY <1>2
  <2> QED BY <1>1, <2>1
<1>4. ASSUME NEW i \in 1..n PROVE c[m + i] = t[i]
  <2>1. m + i \in 1..(m + n) /\ ~(m + i <= m) /\ (m + i) - m = i
    BY <1>2
  <2> QED BY <1>1, <2>1
<1> QED BY <1>1, <1>3, <1>4 DEF c, m, n

(* What pushal pushes as its word i, n being the stack pointer before.     *)
PushalWord(c, n, i) == IF Pushal[i] = "esp" THEN n ELSE c[Pushal[i]]

LEMMA SavedWords ==
  ASSUME ctx \in [Reg -> Nat], NEW n \in Nat
  PROVE  /\ Saved(n) \in Seq(Nat) /\ Len(Saved(n)) = 13
         /\ \A i \in 1..5 : Saved(n)[i] = ctx[Segments[i]]
         /\ \A i \in 1..8 : Saved(n)[5 + i] = PushalWord(ctx, n + 5, i)
<1> DEFINE s == [i \in 1..5 |-> ctx[Segments[i]]]
           t == [i \in 1..8 |-> PushalWord(ctx, n + 5, i)]
           u == Saved(n)
<1>1. /\ \A i \in 1..5 : ctx[Segments[i]] \in Nat
      /\ \A i \in 1..8 : PushalWord(ctx, n + 5, i) \in Nat
  BY Names DEF PushalWord
<1>2. s \in Seq(Nat) /\ Len(s) = 5 /\ \A i \in 1..5 : s[i] = ctx[Segments[i]]
  BY <1>1
<1>3. t \in Seq(Nat) /\ Len(t) = 8 /\ \A i \in 1..8 : t[i] = PushalWord(ctx, n + 5, i)
  BY <1>1
<1>4. u = s \o t
  BY DEF Saved, PushalWord
<1> HIDE DEF s, t, u
<1>5. /\ u \in Seq(Nat) /\ Len(u) = Len(s) + Len(t)
      /\ \A i \in 1..Len(s) : u[i] = s[i]
      /\ \A i \in 1..Len(t) : u[Len(s) + i] = t[i]
  BY <1>2, <1>3, <1>4, Concat, ZenonT(40)
<1>6. /\ u \in Seq(Nat) /\ Len(u) = 13
      /\ \A i \in 1..5 : u[i] = ctx[Segments[i]]
      /\ \A i \in 1..8 : u[5 + i] = PushalWord(ctx, n + 5, i)
  BY <1>2, <1>3, <1>5, SMTT(40)
<1> QED BY <1>6 DEF u

-----------------------------------------------------------------------------
(* The inductive invariant *)

(* What a frame of the history records.                                    *)
FrameType == [ctx : [Reg -> Nat], stack : Seq(Nat), int_no : Nat, err_code : Nat]

(* The selectors that gdt_flush loads.                                     *)
KernelSegments(c) == c["cs"] = 8 /\ \A r \in SegmentNames : c[r] = 16

(* The tables are complete once they are used; nothing is entered before.  *)
Tables ==
  /\ tr # 0 => gdt = FlatGdt /\ g_tss.ss0 = 16
  /\ pc \notin {"init_flat_gdt", "reset"} => tr = 43 /\ KernelSegments(ctx)
  /\ \A v \in DOMAIN gates : gates[v] = 8
  /\ pc \in {"init_flat_gdt", "interrupts_init"} => DOMAIN gates = {}

(* Why the processor left what the frame records, and what of it neither   *)
(* the stub nor irq_handler changes.                                       *)
Cause(c, top, depth) ==
  /\ top.int_no \in Exceptions \cup Irqs
  /\ top.err_code = IF WithError(top.int_no) THEN ERROR_CODE ELSE 0
  /\ KernelSegments(top.ctx)
  /\ top.int_no >= 32 => depth = 1 /\ top.stack = <<>>
  /\ c["eip"] = top.int_no

(* The words of the processor on top of what was there.                    *)
Interrupted(s, top) ==
  LET n == Len(top.stack)
  IN /\ \A i \in 1..n : s[i] = top.stack[i]
     /\ s[n + 1] = top.ctx["eflags"] /\ s[n + 2] = top.ctx["cs"] /\ s[n + 3] = top.ctx["eip"]

AtStub(c, s, top) ==
  /\ Interrupted(s, top)
  /\ Len(s) = Len(top.stack) + (IF WithError(top.int_no) THEN 4 ELSE 3)
  /\ WithError(top.int_no) => s[Len(top.stack) + 4] = top.err_code
  /\ \A r \in Reg \ {"cs", "eip"} : c[r] = top.ctx[r]

(* The words of the stub above those, the same for every vector.           *)
InHandler(s, top) ==
  LET n == Len(top.stack)
  IN /\ Interrupted(s, top)
     /\ Len(s) = n + 19 /\ s[n + 19] = n + 18
     /\ s[n + 4] = top.err_code /\ s[n + 5] = top.int_no
     /\ \A i \in 1..5 : s[n + 5 + i] = top.ctx[Segments[i]]
     /\ \A i \in 1..8 : s[n + 10 + i] = PushalWord(top.ctx, n + 10, i)

FrameInv ==
  /\ seen \in Seq(FrameType)
  /\ pc \in {"init_flat_gdt", "interrupts_init", "main"} => seen = <<>> /\ stack = <<>>
  /\ pc \in {"stub", "handler", "exit"} => Len(seen) >= 1 /\ Cause(ctx, Last(seen), Len(seen))
  /\ pc = "stub" => AtStub(ctx, stack, Last(seen))
  /\ pc \in {"handler", "exit"} => InHandler(stack, Last(seen))
  /\ pc = "exit" => Last(seen).int_no >= 32

IInv == TypeOK /\ Tables /\ FrameInv

-----------------------------------------------------------------------------
(* The descriptors that set_gdt_entry makes *)

GdtEntryOK(e) ==
  /\ {e.limit_low, e.base_low} \subseteq 0..(BYTE * BYTE - 1)
  /\ {e.base_mid, e.base_high} \subseteq 0..(BYTE - 1)
  /\ e.limit_high \in 0..(NIBBLE - 1) /\ e.g \in 0..1

LEMMA GdtEntryFits ==
  ASSUME NEW base \in Nat, NEW limit \in Nat, NEW access, NEW gran \in 0..1
  PROVE  GdtEntryOK(set_gdt_entry(base, limit, access, gran))
<1> DEFINE A == BYTE * BYTE
           C == A * BYTE
           e == set_gdt_entry(base, limit, access, gran)
<1>1. BYTE \in Nat /\ BYTE >= 1 /\ NIBBLE \in Nat /\ NIBBLE >= 1 /\ A \in Nat /\ A >= 1
  BY Widths
<1>2. /\ e.g = gran /\ e.limit_low = limit % A /\ e.base_low = base % A
      /\ e.limit_high = (limit \div A) % NIBBLE /\ e.base_mid = (base \div A) % BYTE
      /\ e.base_high = (base \div C) % BYTE
  BY DEF set_gdt_entry
<1> HIDE DEF e
<1>3. C \in Nat /\ C >= 1
  <2> HIDE DEF A
  <2>1. A * BYTE \in Nat /\ 1 * BYTE <= A * BYTE
    BY <1>1, MulMono, 1 \in Nat
  <2> QED BY <1>1, <2>1
<1> HIDE DEF A, C
<1>4. /\ limit % A \in 0..(A - 1) /\ base % A \in 0..(A - 1)
      /\ limit \div A \in Nat /\ base \div A \in Nat /\ base \div C \in Nat
  BY <1>1, <1>3, DivMod
<1>5. /\ (limit \div A) % NIBBLE \in 0..(NIBBLE - 1)
      /\ (base \div A) % BYTE \in 0..(BYTE - 1)
      /\ (base \div C) % BYTE \in 0..(BYTE - 1)
  BY <1>1, <1>4, DivMod
<1>6. /\ e.limit_low \in 0..(A - 1) /\ e.base_low \in 0..(A - 1)
      /\ e.base_mid \in 0..(BYTE - 1) /\ e.base_high \in 0..(BYTE - 1)
      /\ e.limit_high \in 0..(NIBBLE - 1) /\ e.g \in 0..1
  BY <1>2, <1>4, <1>5
<1> QED BY <1>6 DEF GdtEntryOK, e, A

LEMMA GdtFits ==
  ASSUME tss \in TssBases
  PROVE  /\ DOMAIN FlatGdt = 0..5 /\ \A n \in 0..5 : GdtEntryOK(FlatGdt[n])
         /\ GdtEntryOK(NullEntry)
<1>1. WORD - 1 \in Nat
  BY Widths
<1>2. tss \in Nat /\ tss + SIZEOF_TSS \in Nat
  <2>1. TssBases \subseteq Nat /\ SIZEOF_TSS \in 1..(LIMITS - 1)
    BY EntryAssumption
  <2> QED BY <2>1
<1>3. ASSUME NEW access PROVE GdtEntryOK(set_gdt_entry(0, WORD - 1, access, 1))
  BY <1>1, GdtEntryFits, 0 \in Nat, 1 \in 0..1
<1>4. GdtEntryOK(NullEntry)
  BY GdtEntryFits, 0 \in Nat, 0 \in 0..1 DEF NullEntry
<1>5. GdtEntryOK(TssEntry)
  BY <1>2, GdtEntryFits, 0 \in 0..1 DEF TssEntry
<1>6. ASSUME NEW n \in 0..5 PROVE GdtEntryOK(FlatGdt[n])
  <2>1. \/ FlatGdt[n] = NullEntry \/ FlatGdt[n] = TssEntry
        \/ \E access : FlatGdt[n] = set_gdt_entry(0, WORD - 1, access, 1)
    <3>1. n = 0 \/ n = 1 \/ n = 2 \/ n = 3 \/ n = 4 \/ n = 5
      OBVIOUS
    <3> QED BY <3>1 DEF FlatGdt
  <2> QED BY <2>1, <1>3, <1>4, <1>5
<1>7. DOMAIN FlatGdt = 0..5
  BY DEF FlatGdt
<1> QED BY <1>4, <1>6, <1>7

(* The descriptors in use, from the tables being complete.                 *)
LEMMA DescriptorsFrom ==
  ASSUME IInv
  PROVE  DescriptorsValid
<1> USE DEF IInv
<1>1. /\ FlatGdt[1] = set_gdt_entry(0, WORD - 1, Access(CODE_ER, 0, 1, 1), 1)
      /\ FlatGdt[2] = set_gdt_entry(0, WORD - 1, Access(DATA_RW, 0, 1, 1), 1)
      /\ FlatGdt[5] = TssEntry
  BY DEF FlatGdt
<1>2. 8 \div 8 = 1 /\ 16 \div 8 = 2 /\ 43 \div 8 = 5
  OBVIOUS
<1>3. tr # 0 => gdt = FlatGdt /\ g_tss.ss0 = 16 /\ tr = 43
  BY DEF Tables, TypeOK
<1>4. tr # 0 => /\ Named(8) = FlatGdt[1] /\ Named(16) = FlatGdt[2] /\ Named(43) = FlatGdt[5]
  BY <1>2, <1>3 DEF Named
<1>5. ASSUME tr # 0
      PROVE  /\ Named(8).access = Access(CODE_ER, 0, 1, 1)
             /\ Base(Named(8)) = 0 /\ Limit(Named(8)) = WORD - 1
             /\ Named(16).access = Access(DATA_RW, 0, 1, 1)
             /\ Base(Named(16)) = 0 /\ Limit(Named(16)) = WORD - 1
  BY <1>1, <1>4, <1>5, FlatSegment
<1>6. SelectorsValid
  <2> SUFFICES ASSUME pc # "init_flat_gdt", pc # "reset"
               PROVE  /\ \A r \in ToSet(Segments) \cup {"cs"} :
                           LET e == Named(ctx[r])
                           IN /\ ctx[r] \in 8..47
                              /\ e.access = Access(IF r = "cs" THEN CODE_ER ELSE DATA_RW, 0, 1, 1)
                              /\ Base(e) = 0 /\ Limit(e) = WORD - 1
                      /\ \A v \in DOMAIN gates : Named(gates[v]).access = Access(CODE_ER, 0, 1, 1)
    BY DEF SelectorsValid
  <2>1. tr # 0 /\ KernelSegments(ctx) /\ \A v \in DOMAIN gates : gates[v] = 8
    BY DEF Tables
  <2>2. ASSUME NEW r \in SegmentNames PROVE ctx[r] = 16 /\ r # "cs"
    BY <2>1 DEF KernelSegments, SegmentNames
  <2>3. ctx["cs"] = 8
    BY <2>1 DEF KernelSegments
  <2>4. 16 \in 8..47 /\ 8 \in 8..47
    OBVIOUS
  <2>5. ToSet(Segments) = SegmentNames
    BY Names
  <2> QED BY <1>5, <2>1, <2>2, <2>3, <2>4, <2>5
<1>7. TssReachable
  <2> SUFFICES ASSUME tr # 0
               PROVE  LET e == Named(tr)
                      IN /\ e.access.type = TSS_32 /\ e.access.p = 1
                         /\ Base(e) = tss /\ Limit(e) >= SIZEOF_TSS - 1
                         /\ Named(g_tss.ss0).access = Access(DATA_RW, 0, 1, 1)
    BY DEF TssReachable
  <2>1. tss \in TssBases
    BY DEF TypeOK
  <2>2. Named(tr) = TssEntry /\ Named(g_tss.ss0) = Named(16)
    BY <1>1, <1>3, <1>4
  <2>3. /\ TssEntry.access = Access(TSS_32, 3, 1, 0) /\ Base(TssEntry) = tss
        /\ Limit(TssEntry) >= SIZEOF_TSS - 1
    BY <2>1, TssSegment
  <2>4. Access(TSS_32, 3, 1, 0).type = TSS_32 /\ Access(TSS_32, 3, 1, 0).p = 1
    BY DEF Access
  <2> QED BY <1>5, <2>2, <2>3, <2>4
<1> QED BY <1>6, <1>7 DEF DescriptorsValid

(* What irq_handler reads through struct regs, from the layout.            *)
LEMMA RegsFrom ==
  ASSUME IInv, pc = "handler"
  PROVE  LET top == Last(seen)
         IN /\ RegsField("int_no") = top.int_no
            /\ RegsField("err_code") = top.err_code
            /\ RegsField("esp") = Len(top.stack) + 10
            /\ \A i \in 1..17 : RegsStruct[i] \in Reg =>
                 RegsField(RegsStruct[i]) = top.ctx[RegsStruct[i]]
<1> DEFINE top == Last(seen)
           n == Len(top.stack)
<1>1. top \in FrameType /\ KernelSegments(top.ctx)
  <2>1. seen \in Seq(FrameType) /\ Len(seen) >= 1 /\ Cause(ctx, top, Len(seen))
    BY DEF IInv, FrameInv
  <2> QED BY <2>1 DEF Last, Cause
<1>2. n \in Nat /\ top.ctx \in [Reg -> Nat] /\ top.int_no \in Nat /\ top.err_code \in Nat
  BY <1>1 DEF FrameType
<1>3. InHandler(stack, top) /\ stack \in Seq(Nat)
  BY DEF IInv, FrameInv, TypeOK
<1>c. top.ctx["cs"] % HALF = top.ctx["cs"]
  <2>1. top.ctx["cs"] = 8
    BY <1>1 DEF KernelSegments
  <2>2. HALF \in Nat /\ HALF >= 1 /\ HALF > 8
    BY Widths, EntryAssumption DEF HALF
  <2>3. 0 \in Nat /\ 8 \in 0..(HALF - 1) /\ 0 * HALF + 8 = 8
    BY <2>2
  <2>4. (0 * HALF + 8) % HALF = 8
    BY <2>2, <2>3, DivModOf
  <2> QED BY <2>1, <2>3, <2>4
<1> HIDE DEF top
<1>4. /\ Len(stack) = n + 19 /\ stack[n + 19] = n + 18
      /\ stack[n + 2] = top.ctx["cs"] /\ stack[n + 3] = top.ctx["eip"]
      /\ stack[n + 4] = top.err_code /\ stack[n + 5] = top.int_no
      /\ \A i \in 1..5 : stack[n + 5 + i] = top.ctx[Segments[i]]
      /\ \A i \in 1..8 : stack[n + 10 + i] = PushalWord(top.ctx, n + 10, i)
  BY <1>3 DEF InHandler, Interrupted
<1> HIDE DEF n
<1>5. Last(stack) = n + 18
  BY <1>4 DEF Last
<1>6. ASSUME NEW i \in 1..17, NEW w \in Nat, stack[n + (19 - i)] = w
      PROVE  RegsField(RegsStruct[i]) = IF i = 17 THEN w % HALF ELSE w
  <2>1. Last(stack) - (i - 1) = n + (19 - i)
    BY <1>2, <1>5
  <2>2. stack[Last(stack) - (i - 1)] = w
    BY <1>6, <2>1
  <2> QED BY <2>2, FieldWord
<1>7. /\ \A i \in 1..8 : RegsStruct[i] = Pushal[9 - i]
      /\ \A i \in 9..13 : RegsStruct[i] = Segments[14 - i]
      /\ RegsStruct[14] = "int_no" /\ RegsStruct[15] = "err_code"
      /\ RegsStruct[16] = "eip" /\ RegsStruct[17] = "cs" /\ RegsStruct[4] = "esp"
  BY DEF RegsStruct, Pushal, Segments
<1>8. ASSUME NEW i \in 1..8 PROVE RegsField(RegsStruct[i]) = PushalWord(top.ctx, n + 10, 9 - i)
  <2>1. 9 - i \in 1..8 /\ n + (19 - i) = n + 10 + (9 - i) /\ i \in 1..17 /\ i # 17
    BY <1>2
  <2>2. stack[n + (19 - i)] = PushalWord(top.ctx, n + 10, 9 - i)
    BY <1>4, <2>1
  <2>3. PushalWord(top.ctx, n + 10, 9 - i) \in Nat
    BY <1>2, <2>1, Names DEF PushalWord
  <2> QED BY <1>6, <2>1, <2>2, <2>3
<1>9. ASSUME NEW i \in 9..13 PROVE RegsField(RegsStruct[i]) = top.ctx[RegsStruct[i]]
  <2>1. 14 - i \in 1..5 /\ n + (19 - i) = n + 5 + (14 - i) /\ i \in 1..17 /\ i # 17
    BY <1>2
  <2>2. stack[n + (19 - i)] = top.ctx[Segments[14 - i]]
    BY <1>4, <2>1
  <2>3. top.ctx[Segments[14 - i]] \in Nat
    BY <1>2, <2>1, Names
  <2>4. RegsStruct[i] = Segments[14 - i]
    BY <1>7
  <2> QED BY <1>6, <2>1, <2>2, <2>3, <2>4
<1>10. /\ RegsField("int_no") = top.int_no /\ RegsField("err_code") = top.err_code
       /\ RegsField("eip") = top.ctx["eip"] /\ RegsField("cs") = top.ctx["cs"]
  <2>1. 14 \in 1..17 /\ 15 \in 1..17 /\ 16 \in 1..17 /\ 17 \in 1..17
    OBVIOUS
  <2>2. n + (19 - 14) = n + 5 /\ n + (19 - 15) = n + 4 /\ n + (19 - 16) = n + 3 /\ n + (19 - 17) = n + 2
    BY <1>2
  <2>3. top.ctx["eip"] \in Nat /\ top.ctx["cs"] \in Nat
    BY <1>2, Names
  <2>4. RegsField(RegsStruct[14]) = top.int_no
    <3>1. stack[n + (19 - 14)] = top.int_no /\ 14 # 17
      BY <1>4, <2>2
    <3> QED BY <1>2, <1>6, <2>1, <3>1
  <2>5. RegsField(RegsStruct[15]) = top.err_code
    <3>1. stack[n + (19 - 15)] = top.err_code /\ 15 # 17
      BY <1>4, <2>2
    <3> QED BY <1>2, <1>6, <2>1, <3>1
  <2>6. RegsField(RegsStruct[16]) = top.ctx["eip"]
    BY <1>4, <1>6, <2>1, <2>2, <2>3, SMTT(40)
  <2>7. RegsField(RegsStruct[17]) = top.ctx["cs"] % HALF
    BY <1>4, <1>6, <2>1, <2>2, <2>3, SMTT(40)
  <2> QED BY <1>7, <1>c, <2>4, <2>5, <2>6, <2>7
<1>11. RegsField("esp") = n + 10
  <2>1. 4 \in 1..8 /\ 9 - 4 = 5 /\ Pushal[5] = "esp"
    BY DEF Pushal
  <2>2. RegsField(RegsStruct[4]) = PushalWord(top.ctx, n + 10, 5)
    BY <1>8, <2>1
  <2> QED BY <1>7, <2>1, <2>2 DEF PushalWord
<1>12. ASSUME NEW i \in 1..17, RegsStruct[i] \in Reg
       PROVE  RegsField(RegsStruct[i]) = top.ctx[RegsStruct[i]]
  <2>1. i \in 1..8 \/ i \in 9..13 \/ i = 14 \/ i = 15 \/ i = 16 \/ i = 17
    OBVIOUS
  <2>2. "esp" \notin Reg /\ "int_no" \notin Reg /\ "err_code" \notin Reg
    BY Names DEF SegmentNames, PushalNames
  <2>3. CASE i \in 1..8
    BY <1>7, <1>8, <1>12, <2>2, <2>3 DEF PushalWord
  <2> QED BY <1>7, <1>9, <1>10, <1>12, <2>1, <2>2, <2>3
<1> QED BY <1>10, <1>11, <1>12 DEF top, n

-----------------------------------------------------------------------------
(* What the processor and the stubs push *)

LEMMA Vectors ==
  ASSUME NEW v \in Exceptions \cup Irqs
  PROVE  /\ v \in Nat /\ (CpuPushesError(v) <=> WithError(v))
         /\ v \in Irqs => v >= 32
         /\ v \in Exceptions => v < 32
         /\ v >= 32 => ~WithError(v)
<1>1. Exceptions \subseteq ((0..14) \cup (16..20)) \ {17} /\ Irqs \subseteq {32, 33, 36}
  BY EntryAssumption
<1> QED BY <1>1 DEF CpuPushesError, WithError

LEMMA CpuWords ==
  ASSUME NEW top \in FrameType, top.int_no \in Exceptions \cup Irqs,
         top.err_code = (IF WithError(top.int_no) THEN ERROR_CODE ELSE 0),
         NEW s, s = top.stack \o <<top.ctx["eflags"], top.ctx["cs"], top.ctx["eip"]>>
                              \o (IF CpuPushesError(top.int_no) THEN <<ERROR_CODE>> ELSE <<>>)
  PROVE  /\ s \in Seq(Nat) /\ Interrupted(s, top)
         /\ Len(s) = Len(top.stack) + (IF WithError(top.int_no) THEN 4 ELSE 3)
         /\ WithError(top.int_no) => s[Len(top.stack) + 4] = top.err_code
<1> DEFINE b == top.stack
           n == Len(b)
           w == <<top.ctx["eflags"], top.ctx["cs"], top.ctx["eip"]>>
           x == IF WithError(top.int_no) THEN <<ERROR_CODE>> ELSE <<>>
           bw == b \o w
<1>1. b \in Seq(Nat) /\ n \in Nat /\ top.ctx \in [Reg -> Nat]
  BY DEF FrameType
<1>2. w \in Seq(Nat) /\ Len(w) = 3 /\ w[1] = top.ctx["eflags"] /\ w[2] = top.ctx["cs"] /\ w[3] = top.ctx["eip"]
  BY <1>1, Names
<1>3. x \in Seq(Nat) /\ Len(x) = (IF WithError(top.int_no) THEN 1 ELSE 0)
      /\ (WithError(top.int_no) => x[1] = ERROR_CODE)
  BY DEF ERROR_CODE
<1>4. s = bw \o x
  BY Vectors
<1> HIDE DEF w, x, n
<1>5. /\ bw \in Seq(Nat) /\ Len(bw) = n + 3
      /\ \A i \in 1..n : bw[i] = b[i]
      /\ \A i \in 1..3 : bw[n + i] = w[i]
  <2>1. /\ bw \in Seq(Nat) /\ Len(bw) = Len(b) + Len(w)
        /\ \A i \in 1..Len(b) : bw[i] = b[i]
        /\ \A i \in 1..Len(w) : bw[Len(b) + i] = w[i]
    BY <1>1, <1>2, Concat
  <2> HIDE DEF bw
  <2> QED BY <1>1, <1>2, <2>1 DEF n
<1> HIDE DEF bw, b
<1>6. /\ s \in Seq(Nat) /\ Len(s) = (n + 3) + Len(x)
      /\ \A i \in 1..(n + 3) : s[i] = bw[i]
      /\ \A i \in 1..Len(x) : s[(n + 3) + i] = x[i]
  <2>1. /\ bw \o x \in Seq(Nat) /\ Len(bw \o x) = Len(bw) + Len(x)
        /\ \A i \in 1..Len(bw) : (bw \o x)[i] = bw[i]
        /\ \A i \in 1..Len(x) : (bw \o x)[Len(bw) + i] = x[i]
    BY <1>3, <1>5, Concat
  <2> QED BY <1>4, <1>5, <2>1
<1>7. \A i \in 1..n : s[i] = b[i]
  <2> SUFFICES ASSUME NEW i \in 1..n PROVE s[i] = b[i]
    OBVIOUS
  <2>1. i \in 1..(n + 3)
    BY <1>1
  <2> QED BY <1>5, <1>6, <2>1
<1>8. s[n + 1] = w[1] /\ s[n + 2] = w[2] /\ s[n + 3] = w[3]
  <2>1. n + 1 \in 1..(n + 3) /\ n + 2 \in 1..(n + 3) /\ n + 3 \in 1..(n + 3)
    BY <1>1
  <2>2. 1 \in 1..3 /\ 2 \in 1..3 /\ 3 \in 1..3
    OBVIOUS
  <2> QED BY <1>5, <1>6, <2>1, <2>2, ZenonT(60)
<1>9. Interrupted(s, top)
  BY <1>2, <1>7, <1>8 DEF Interrupted, n, b
<1>10. WithError(top.int_no) => s[n + 4] = top.err_code
  <2> SUFFICES ASSUME WithError(top.int_no) PROVE s[n + 4] = top.err_code
    OBVIOUS
  <2>1. 1 \in 1..Len(x) /\ (n + 3) + 1 = n + 4
    BY <1>1, <1>3
  <2> QED BY <1>3, <1>6, <2>1
<1>11. Len(s) = n + (IF WithError(top.int_no) THEN 4 ELSE 3)
  <2>1. Len(x) = (IF WithError(top.int_no) THEN 1 ELSE 0)
    BY <1>3
  <2>2. Len(s) = (n + 3) + Len(x)
    BY <1>6, ZenonT(60)
  <2> QED BY ONLY <1>1, <2>1, <2>2
<1> QED BY <1>6, <1>9, <1>10, <1>11 DEF n, b

LEMMA StubWords ==
  ASSUME NEW c \in [Reg -> Nat], NEW s \in Seq(Nat), NEW top \in FrameType,
         AtStub(c, s, top), top.int_no \in Exceptions \cup Irqs,
         c["eip"] = top.int_no,
         top.err_code = (IF WithError(top.int_no) THEN ERROR_CODE ELSE 0),
         NEW saved \in Seq(Nat), Len(saved) = 13,
         \A i \in 1..5 : saved[i] = c[Segments[i]],
         NEW code, code = s \o (IF WithError(c["eip"]) THEN <<c["eip"]>> ELSE <<0, c["eip"]>>),
         \A i \in 1..8 : saved[5 + i] = PushalWord(c, Len(code) + 5, i),
         NEW words, words = code \o saved
  PROVE  Append(words, Len(words)) \in Seq(Nat) /\ InHandler(Append(words, Len(words)), top)
<1> DEFINE n == Len(top.stack)
           v == top.int_no
           x == IF WithError(v) THEN <<v>> ELSE <<0, v>>
           sx == code
           out == Append(words, Len(words))
<1>1. n \in Nat /\ v \in Nat
  BY DEF FrameType
<1>2. x \in Seq(Nat) /\ Len(x) = (IF WithError(v) THEN 1 ELSE 2) /\ x[Len(x)] = v
      /\ (~WithError(v) => x[1] = 0)
  BY <1>1
<1>3. words = sx \o saved /\ sx = s \o x
  OBVIOUS
<1>4. /\ Interrupted(s, top) /\ Len(s) = n + (IF WithError(v) THEN 4 ELSE 3)
      /\ WithError(v) => s[n + 4] = top.err_code
      /\ \A r \in Reg \ {"cs", "eip"} : c[r] = top.ctx[r]
  BY DEF AtStub
<1>5. /\ \A i \in 1..n : s[i] = top.stack[i]
      /\ s[n + 1] = top.ctx["eflags"] /\ s[n + 2] = top.ctx["cs"] /\ s[n + 3] = top.ctx["eip"]
  BY <1>4 DEF Interrupted
<1> HIDE DEF n, v, x
<1>6. /\ sx \in Seq(Nat) /\ Len(sx) = Len(s) + Len(x)
      /\ \A i \in 1..Len(s) : sx[i] = s[i]
      /\ \A i \in 1..Len(x) : sx[Len(s) + i] = x[i]
  <2> DEFINE y == s \o x
  <2>1. /\ y \in Seq(Nat) /\ Len(y) = Len(s) + Len(x)
        /\ \A i \in 1..Len(s) : y[i] = s[i]
        /\ \A i \in 1..Len(x) : y[Len(s) + i] = x[i]
    BY ONLY s \in Seq(Nat), <1>2, Concat
  <2> HIDE DEF y
  <2>2. sx = y
    BY <1>3 DEF y
  <2> QED BY ONLY <2>1, <2>2, Zenon
<1> HIDE DEF sx
<1>7. Len(sx) = n + 5
  BY <1>1, <1>2, <1>4, <1>6
<1>8. /\ words \in Seq(Nat) /\ Len(words) = n + 18
      /\ \A i \in 1..(n + 5) : words[i] = sx[i]
      /\ \A i \in 1..13 : words[(n + 5) + i] = saved[i]
  <2> DEFINE y == sx \o saved
  <2>1. /\ y \in Seq(Nat) /\ Len(y) = Len(sx) + Len(saved)
        /\ \A i \in 1..Len(sx) : y[i] = sx[i]
        /\ \A i \in 1..Len(saved) : y[Len(sx) + i] = saved[i]
    BY <1>6, Concat
  <2> HIDE DEF y
  <2>2. /\ y \in Seq(Nat) /\ Len(y) = n + 18
        /\ \A i \in 1..(n + 5) : y[i] = sx[i]
        /\ \A i \in 1..13 : y[(n + 5) + i] = saved[i]
    BY ONLY <1>1, <1>7, <2>1, Len(saved) = 13
  <2>3. words = y
    BY <1>3 DEF y
  <2> QED BY ONLY <2>2, <2>3, Zenon
<1>9. /\ out \in Seq(Nat) /\ Len(out) = n + 19 /\ out[n + 19] = n + 18
      /\ \A i \in 1..(n + 18) : out[i] = words[i]
  <2>1. Len(words) \in Nat
    BY <1>1, <1>8, SMTT(40)
  <2>2. /\ out \in Seq(Nat) /\ Len(out) = Len(words) + 1
        /\ \A i \in 1..Len(words) : out[i] = words[i]
        /\ out[Len(words) + 1] = Len(words)
    <3>1. words \in Seq(Nat)
      BY <1>8
    <3>2. ASSUME NEW q \in Seq(Nat), NEW d \in Nat
          PROVE  /\ Append(q, d) \in Seq(Nat) /\ Len(Append(q, d)) = Len(q) + 1
                 /\ \A i \in 1..Len(q) : Append(q, d)[i] = q[i]
                 /\ Append(q, d)[Len(q) + 1] = d
      BY AppendProperties
    <3> QED BY ONLY <2>1, <3>1, <3>2, Zenon DEF out
  <2>3. Len(words) + 1 = n + 19
    <3>1. Len(words) = n + 18
      BY ONLY <1>8
    <3>2. n \in Nat
      BY ONLY <1>1, SMTT(40)
    <3> QED BY ONLY <3>1, <3>2
  <2> QED BY <1>8, <2>2, <2>3
<1> HIDE DEF out
<1>10. ASSUME NEW i \in 1..(n + 3) PROVE out[i] = s[i]
  <2>1. i \in 1..(n + 18) /\ i \in 1..(n + 5) /\ i \in 1..Len(s)
    BY <1>1, <1>4
  <2> QED BY <1>6, <1>8, <1>9, <2>1
<1>11. Interrupted(out, top)
  <2>1. \A i \in 1..n : out[i] = top.stack[i]
    <3> SUFFICES ASSUME NEW i \in 1..n PROVE out[i] = top.stack[i]
      OBVIOUS
    <3>1. i \in 1..(n + 3)
      BY <1>1
    <3> QED BY <1>5, <1>10, <3>1
  <2>2. n + 1 \in 1..(n + 3) /\ n + 2 \in 1..(n + 3) /\ n + 3 \in 1..(n + 3)
    BY <1>1
  <2>3. out[n + 1] = s[n + 1] /\ out[n + 2] = s[n + 2] /\ out[n + 3] = s[n + 3]
    BY <1>10, <2>2
  <2> QED BY <1>5, <2>1, <2>3 DEF Interrupted, n
<1>12. out[n + 4] = top.err_code /\ out[n + 5] = v
  <2>1. /\ n + 4 \in 1..(n + 18) /\ n + 4 \in 1..(n + 5)
        /\ n + 5 \in 1..(n + 18) /\ n + 5 \in 1..(n + 5)
    BY <1>1
  <2>2. out[n + 4] = sx[n + 4] /\ out[n + 5] = sx[n + 5]
    BY <1>8, <1>9, <2>1
  <2>3. CASE WithError(v)
    <3>1. Len(s) = n + 4 /\ n + 4 \in 1..Len(s) /\ 1 \in 1..Len(x) /\ Len(s) + 1 = n + 5
      BY <1>1, <1>2, <1>4, <2>3
    <3>2. sx[n + 4] = s[n + 4] /\ sx[n + 5] = x[1]
      BY <1>6, <3>1
    <3>3. x[1] = v
      BY <1>2, <2>3
    <3> QED BY <1>4, <2>2, <2>3, <3>2, <3>3
  <2>4. CASE ~WithError(v)
    <3>1. Len(s) = n + 3 /\ 1 \in 1..Len(x) /\ 2 \in 1..Len(x) /\ Len(s) + 1 = n + 4 /\ Len(s) + 2 = n + 5
      BY <1>1, <1>2, <1>4, <2>4
    <3>2. sx[n + 4] = x[1] /\ sx[n + 5] = x[2]
      BY <1>6, <3>1
    <3>3. x[1] = 0 /\ x[2] = v
      BY <1>2, <2>4
    <3>4. top.err_code = 0
      BY <2>4 DEF v
    <3> QED BY <2>2, <3>2, <3>3, <3>4
  <2> QED BY <2>3, <2>4
<1>13. \A i \in 1..13 : out[(n + 5) + i] = saved[i]
  <2> SUFFICES ASSUME NEW i \in 1..13 PROVE out[(n + 5) + i] = saved[i]
    OBVIOUS
  <2>1. (n + 5) + i \in 1..(n + 18)
    BY <1>1
  <2> QED BY <1>8, <1>9, <2>1
<1>14. /\ \A i \in 1..5 : c[Segments[i]] = top.ctx[Segments[i]]
       /\ \A i \in 1..8 : PushalWord(c, Len(code) + 5, i) = PushalWord(top.ctx, n + 10, i)
  <2>1. SegmentNames \subseteq Reg \ {"cs", "eip"} /\ PushalNames \ {"esp"} \subseteq Reg \ {"cs", "eip"}
    BY Names DEF SegmentNames, PushalNames
  <2>2. Len(code) + 5 = n + 10
    <3>1. Len(code) = n + 5
      BY ONLY <1>7 DEF sx
    <3> QED BY ONLY <1>1, <3>1
  <2>3. \A i \in 1..8 : Pushal[i] # "esp" => c[Pushal[i]] = top.ctx[Pushal[i]]
    BY <1>4, <2>1, Names
  <2>4. \A i \in 1..5 : c[Segments[i]] = top.ctx[Segments[i]]
    BY <1>4, <2>1, Names
  <2> QED BY <2>2, <2>3, <2>4 DEF PushalWord
<1>15. \A i \in 1..5 : out[n + 5 + i] = top.ctx[Segments[i]]
  <2> SUFFICES ASSUME NEW i \in 1..5 PROVE out[n + 5 + i] = top.ctx[Segments[i]]
    OBVIOUS
  <2>1. i \in 1..13
    OBVIOUS
  <2>2. out[(n + 5) + i] = saved[i]
    BY <1>13, <2>1
  <2> QED BY <1>14, <2>2
<1>16. \A i \in 1..8 : out[n + 10 + i] = PushalWord(top.ctx, n + 10, i)
  <2> SUFFICES ASSUME NEW i \in 1..8 PROVE out[n + 10 + i] = PushalWord(top.ctx, n + 10, i)
    OBVIOUS
  <2>1. 5 + i \in 1..13 /\ (n + 5) + (5 + i) = n + 10 + i
    BY <1>1
  <2>2. out[(n + 5) + (5 + i)] = saved[5 + i]
    BY <1>13, <2>1
  <2> QED BY <1>14, <2>1, <2>2
<1> QED BY <1>9, <1>11, <1>12, <1>15, <1>16, ZenonT(60) DEF InHandler, n, v, out

(* The top frame of the history.                                           *)
LEMMA TopFrame ==
  ASSUME IInv, pc \in {"stub", "handler", "exit"}
  PROVE  /\ Len(seen) \in Nat /\ Len(seen) >= 1 /\ Last(seen) \in FrameType
         /\ Cause(ctx, Last(seen), Len(seen))
         /\ Last(seen).ctx \in [Reg -> Nat] /\ Last(seen).stack \in Seq(Nat)
         /\ Last(seen).int_no \in Nat /\ Len(Last(seen).stack) \in Nat
<1>1. seen \in Seq(FrameType) /\ Len(seen) >= 1 /\ Cause(ctx, Last(seen), Len(seen))
  BY DEF IInv, FrameInv
<1>2. Len(seen) \in Nat /\ Last(seen) \in FrameType
  BY <1>1 DEF Last
<1> QED BY <1>1, <1>2 DEF FrameType

(* isr_exit takes the words back in the order in which they were pushed.   *)
LEMMA ExitRestores ==
  ASSUME IInv, isr_exit
  PROVE  ctx' = Last(seen).ctx /\ stack' = Last(seen).stack
<1> DEFINE top == Last(seen)
           n == Len(top.stack)
           p == Last(stack)
           general == [i \in 1..8 |-> stack[p - 8 + i]]
           segs == [i \in 1..5 |-> stack[p - 13 + i]]
           q == p - 13 - (IF WithError(ctx["eip"]) THEN 1 ELSE 2)
<1>1. pc = "exit"
  BY DEF isr_exit
<1>2. /\ top.ctx \in [Reg -> Nat] /\ top.stack \in Seq(Nat) /\ n \in Nat
      /\ Cause(ctx, top, Len(seen))
  BY <1>1, TopFrame
<1>3. InHandler(stack, top) /\ top.int_no >= 32 /\ stack \in Seq(Nat)
  BY <1>1 DEF IInv, FrameInv, TypeOK
<1>4. /\ ctx' = [r \in Reg |->
                   CASE r = "eip" -> stack[q]
                     [] r = "cs" -> stack[q - 1]
                     [] r = "eflags" -> stack[q - 2]
                     [] r \in ToSet(Segments) -> segs[CHOOSE i \in 1..5 : Segments[i] = r]
                     [] OTHER -> general[CHOOSE i \in 1..8 : Pushal[i] = r]]
      /\ stack' = SubSeq(stack, 1, q - 3)
  BY DEF isr_exit
<1> HIDE DEF top
<1>5. /\ Len(stack) = n + 19 /\ stack[n + 19] = n + 18
      /\ \A i \in 1..n : stack[i] = top.stack[i]
      /\ stack[n + 1] = top.ctx["eflags"] /\ stack[n + 2] = top.ctx["cs"]
      /\ stack[n + 3] = top.ctx["eip"]
      /\ \A i \in 1..5 : stack[n + 5 + i] = top.ctx[Segments[i]]
      /\ \A i \in 1..8 : stack[n + 10 + i] = PushalWord(top.ctx, n + 10, i)
  BY <1>3 DEF InHandler, Interrupted
<1> HIDE DEF n
<1>6. p = n + 18
  BY <1>5 DEF Last
<1>7. q = n + 3
  <2>1. ctx["eip"] = top.int_no /\ top.int_no \in Exceptions \cup Irqs
    BY <1>2 DEF Cause
  <2>2. ~WithError(ctx["eip"])
    BY <1>3, <2>1, Vectors
  <2> QED BY <1>2, <1>6, <2>2
<1> HIDE DEF q, p
<1>8. ASSUME NEW r, NEW i \in 1..8, Pushal[i] = r, r # "esp"
      PROVE  general[CHOOSE j \in 1..8 : Pushal[j] = r] = top.ctx[r]
  <2>1. general[CHOOSE j \in 1..8 : Pushal[j] = r] = stack[p - 8 + i]
    BY <1>8, Positions
  <2>2. p - 8 + i = n + 10 + i
    BY <1>2, <1>6
  <2> QED BY <1>5, <1>8, <2>1, <2>2 DEF PushalWord
<1>9. ASSUME NEW r, NEW i \in 1..5, Segments[i] = r
      PROVE  segs[CHOOSE j \in 1..5 : Segments[j] = r] = top.ctx[r]
  <2>1. segs[CHOOSE j \in 1..5 : Segments[j] = r] = stack[p - 13 + i]
    BY <1>9, Positions
  <2>2. p - 13 + i = n + 5 + i
    BY <1>2, <1>6
  <2> QED BY <1>5, <1>9, <2>1, <2>2
<1> HIDE DEF general, segs
<1>10. ASSUME NEW r \in Reg PROVE ctx'[r] = top.ctx[r]
  <2>1. q - 1 = n + 2 /\ q - 2 = n + 1
    BY <1>2, <1>7
  <2>2. stack[q] = top.ctx["eip"] /\ stack[q - 1] = top.ctx["cs"] /\ stack[q - 2] = top.ctx["eflags"]
    BY <1>5, <1>7, <2>1
  <2>4. CASE r \in {"eip", "cs", "eflags"}
    <3>1. r \notin ToSet(Segments)
      BY <2>4, Names DEF SegmentNames
    <3>2. CASE r = "eip"
      <4>1. ctx'[r] = stack[q]
        BY <1>4, <3>1, <3>2
      <4> QED BY <2>2, <3>2, <4>1
    <3>3. CASE r = "cs"
      <4>1. ctx'[r] = stack[q - 1]
        BY <1>4, <3>1, <3>3
      <4> QED BY <2>2, <3>3, <4>1
    <3>4. CASE r = "eflags"
      <4>1. ctx'[r] = stack[q - 2]
        BY <1>4, <3>1, <3>4
      <4> QED BY <2>2, <3>4, <4>1
    <3> QED BY <2>4, <3>2, <3>3, <3>4
  <2>5. CASE r \in SegmentNames
    <3>1. PICK i \in 1..5 : r = Segments[i]
      <4>1. DOMAIN Segments = 1..5
        BY DEF Segments
      <4>2. r \in ToSet(Segments)
        BY <2>5, Names
      <4> QED BY <4>1, <4>2 DEF ToSet
    <3>2. r \notin {"eip", "cs", "eflags"}
      BY <2>5 DEF SegmentNames
    <3>3. r \in ToSet(Segments)
      BY <2>5, Names
    <3>4. ctx'[r] = segs[CHOOSE j \in 1..5 : Segments[j] = r]
      BY <1>4, <3>2, <3>3
    <3> QED BY <1>9, <3>1, <3>4
  <2>6. CASE r \in PushalNames \ {"esp"}
    <3>1. PICK i \in 1..8 : r = Pushal[i]
      <4>1. DOMAIN Pushal = 1..8
        BY DEF Pushal
      <4>2. r \in ToSet(Pushal)
        BY <2>6, Names
      <4> QED BY <4>1, <4>2 DEF ToSet
    <3>2. r \notin {"eip", "cs", "eflags"} /\ r \notin SegmentNames
      BY <2>6 DEF SegmentNames, PushalNames
    <3>3. r \notin ToSet(Segments)
      BY <3>2, Names
    <3>4. ctx'[r] = general[CHOOSE j \in 1..8 : Pushal[j] = r]
      BY <1>4, <3>2, <3>3
    <3> QED BY <1>8, <2>6, <3>1, <3>4
  <2>7. r \in SegmentNames \/ r \in PushalNames \ {"esp"} \/ r \in {"cs", "eip", "eflags"}
    BY Names
  <2> QED BY <2>4, <2>5, <2>6, <2>7
<1>11. ctx' = top.ctx
  <2>1. ctx' = [r \in Reg |-> ctx'[r]]
    BY <1>4
  <2>2. top.ctx = [r \in Reg |-> top.ctx[r]]
    BY <1>2
  <2> QED BY <1>10, <2>1, <2>2
<1>12. stack' = top.stack
  <2>1. stack' = SubSeq(stack, 1, n)
    <3>1. q - 3 = n
      BY <1>2, <1>7
    <3> QED BY <1>4, <3>1
  <2>2. \A i \in 1..n : stack[i] \in Nat
    <3>1. \A i \in 1..n : top.stack[i] \in Nat
      BY <1>2, ElementOfSeq DEF n
    <3> QED BY <1>5, <3>1
  <2>3. /\ SubSeq(stack, 1, n) \in Seq(Nat)
        /\ Len(SubSeq(stack, 1, n)) = n
        /\ \A i \in 1..n : SubSeq(stack, 1, n)[i] = stack[i]
    <3>1. 1 \in Int /\ n \in Int
      BY <1>2
    <3>2. /\ SubSeq(stack, 1, n) \in Seq(Nat)
          /\ Len(SubSeq(stack, 1, n)) = IF 1 <= n THEN n - 1 + 1 ELSE 0
          /\ \A i \in 1..(n - 1 + 1) : SubSeq(stack, 1, n)[i] = stack[1 + i - 1]
      BY <2>2, <3>1, SubSeqProperties
    <3>3. (IF 1 <= n THEN n - 1 + 1 ELSE 0) = n /\ n - 1 + 1 = n
      BY <1>2
    <3>4. \A i \in 1..n : 1 + i - 1 = i
      BY <1>2
    <3> DEFINE u == SubSeq(stack, 1, n)
    <3> HIDE DEF u
    <3>5. u \in Seq(Nat) /\ Len(u) = n
      BY <3>2, <3>3 DEF u
    <3>6. ASSUME NEW i \in 1..n PROVE u[i] = stack[i]
      BY <3>2, <3>3, <3>4 DEF u
    <3> QED BY <3>5, <3>6 DEF u
  <2> DEFINE u == SubSeq(stack, 1, n)
  <2> HIDE DEF u
  <2>4. u \in Seq(Nat) /\ Len(u) = Len(top.stack) /\ \A i \in 1..Len(u) : u[i] = top.stack[i]
    BY <1>5, <2>3 DEF u, n
  <2>5. u = top.stack
    BY <1>2, <2>4, SeqEqual
  <2> QED BY <2>1, <2>5 DEF u
<1> QED BY <1>11, <1>12 DEF top

-----------------------------------------------------------------------------
(* The invariant is inductive *)

LEMMA InitInv == Init => IInv
<1> SUFFICES ASSUME Init PROVE IInv
  OBVIOUS
<1> USE DEF Init
<1>1. ASSUME NEW r \in Reg
      PROVE  /\ ctx[r] \in Nat
             /\ r = "cs" => ctx[r] = 8
             /\ r \in SegmentNames => ctx[r] = 16
  <2>1. ctx[r] = CASE r = "cs" -> 8
                   [] r \in SegmentNames -> 16
                   [] r = "eip" -> 60
                   [] r = "eflags" -> 35
                   [] OTHER -> 100 + CHOOSE i \in 1..8 : Pushal[i] = r
    BY Names
  <2>2. CASE r \in {"cs", "eip", "eflags"}
    <3>1. r \notin SegmentNames
      BY <2>2 DEF SegmentNames
    <3> QED BY <2>1, <2>2, <3>1
  <2>3. CASE r \in SegmentNames
    <3>1. r \notin {"cs", "eip", "eflags"}
      BY <2>3 DEF SegmentNames
    <3> QED BY <2>1, <2>3, <3>1
  <2>4. CASE r \in PushalNames
    <3>1. r \notin {"cs", "eip", "eflags"} /\ r \notin SegmentNames
      BY <2>4 DEF SegmentNames, PushalNames
    <3>2. PICK i \in 1..8 : Pushal[i] = r
      <4>1. DOMAIN Pushal = 1..8
        BY DEF Pushal
      <4>2. r \in ToSet(Pushal)
        BY <2>4, Names
      <4> QED BY <4>1, <4>2 DEF ToSet
    <3> DEFINE k == CHOOSE j \in 1..8 : Pushal[j] = r
    <3>3. k = i
      BY <3>2, Positions
    <3>4. ctx[r] = 100 + k
      <4> HIDE DEF k
      <4> QED BY <2>1, <3>1 DEF k
    <3> HIDE DEF k
    <3> QED BY <3>1, <3>3, <3>4
  <2> QED BY <2>2, <2>3, <2>4, Names
<1>2. ctx \in [Reg -> Nat]
  <2>1. ctx = [r \in Reg |-> ctx[r]]
    OBVIOUS
  <2> QED BY <1>1, <2>1
<1>3. /\ DOMAIN gdt = 0..5 /\ \A n \in 0..5 : GdtEntryOK(gdt[n])
  <2>1. \A n \in 0..5 : gdt[n] = NullEntry
    OBVIOUS
  <2> QED BY <2>1, GdtFits
<1>4. DOMAIN gates = {} /\ stack \in Seq(Nat) /\ seen \in Seq(FrameType) /\ Len(seen) \in 0..MaxDepth
  <2>1. MaxDepth \in Nat
    BY EntryAssumption
  <2>2. DOMAIN gates = {}
    OBVIOUS
  <2> QED BY <2>1, <2>2
<1>5. g_tss.ss0 \in Nat /\ g_tss.esp0 \in Nat
  OBVIOUS
<1>6. TypeOK
  BY <1>2, <1>3, <1>4, <1>5 DEF TypeOK, GdtEntryOK
<1>7. Tables
  BY <1>4 DEF Tables
<1>8. FrameInv
  BY <1>4 DEF FrameInv
<1> QED BY <1>6, <1>7, <1>8 DEF IInv

LEMMA FlatGdtStep ==
  ASSUME IInv, init_flat_gdt
  PROVE  IInv'
<1>1. /\ pc = "init_flat_gdt" /\ gdt' = FlatGdt /\ ctx' = gdt_flush /\ tr' = 43
      /\ pc' = "interrupts_init" /\ tss' = tss /\ gates' = gates /\ stack' = stack /\ seen' = seen
  BY DEF init_flat_gdt
<1>2. g_tss' = [ss0 |-> 16, esp0 |-> Len(stack), cs |-> 11, data |-> 19]
  BY DEF init_flat_gdt, set_tss_entry
<1>3. /\ tss \in TssBases /\ ctx \in [Reg -> Nat] /\ stack \in Seq(Nat) /\ Len(seen) \in 0..MaxDepth
      /\ DOMAIN gates = {} /\ seen = <<>> /\ stack = <<>>
  BY <1>1 DEF IInv, TypeOK, Tables, FrameInv
<1>4. ASSUME NEW r \in Reg
      PROVE  ctx'[r] \in Nat /\ (r = "cs" => ctx'[r] = 8) /\ (r \in SegmentNames => ctx'[r] = 16)
  <2>1. ctx'[r] = CASE r \in SegmentNames -> 16 [] r = "cs" -> 8 [] OTHER -> ctx[r]
    BY <1>1, Names DEF gdt_flush
  <2>2. ctx[r] \in Nat
    BY <1>3
  <2>3. "cs" \notin SegmentNames
    BY DEF SegmentNames
  <2>4. CASE r \in SegmentNames
    BY <2>1, <2>3, <2>4
  <2>5. CASE r = "cs"
    BY <2>1, <2>3, <2>5
  <2>6. CASE r \notin SegmentNames /\ r # "cs"
    BY <2>1, <2>2, <2>6
  <2> QED BY <2>4, <2>5, <2>6
<1>5. ctx' \in [Reg -> Nat]
  <2>1. ctx' = [r \in Reg |-> ctx'[r]]
    BY <1>1 DEF gdt_flush
  <2> QED BY <1>4, <2>1
<1>6. KernelSegments(ctx')
  BY <1>4, Names DEF KernelSegments
<1>7. DOMAIN gdt' = 0..5 /\ \A n \in 0..5 : GdtEntryOK(gdt'[n])
  BY <1>1, <1>3, GdtFits
<1>8. FlatGdt' = FlatGdt
  BY <1>1 DEF FlatGdt, TssEntry
<1>9. g_tss'.ss0 = 16 /\ g_tss'.esp0 \in Nat
  BY <1>2, <1>3
<1>10. TypeOK'
  BY <1>1, <1>3, <1>5, <1>7, <1>9 DEF TypeOK, GdtEntryOK
<1>11. Tables'
  BY <1>1, <1>3, <1>6, <1>8, <1>9 DEF Tables
<1>12. FrameInv'
  BY <1>1, <1>3 DEF FrameInv
<1> QED BY <1>10, <1>11, <1>12 DEF IInv

(* What no step but init_flat_gdt changes.                                 *)
LEMMA FlatGdtKept ==
  ASSUME tss' = tss
  PROVE  FlatGdt' = FlatGdt
BY DEF FlatGdt, TssEntry

LEMMA GatesStep ==
  ASSUME IInv, interrupts_init
  PROVE  IInv'
<1>1. /\ pc = "interrupts_init" /\ gates' = [v \in InterruptGates |-> 8] /\ pc' = "main"
      /\ tss' = tss /\ g_tss' = g_tss /\ gdt' = gdt /\ tr' = tr /\ ctx' = ctx /\ stack' = stack
      /\ seen' = seen
  BY DEF interrupts_init, interrupts_set_isr
<1>2. DOMAIN gates' = InterruptGates /\ \A v \in DOMAIN gates' : gates'[v] = 8
  BY <1>1
<1>3. TypeOK'
  BY <1>1, <1>2 DEF IInv, TypeOK
<1>4. Tables'
  BY <1>1, <1>2, FlatGdtKept DEF IInv, Tables
<1>5. FrameInv'
  BY <1>1 DEF IInv, FrameInv
<1> QED BY <1>3, <1>4, <1>5 DEF IInv

(* An interrupt or an exception, wherever it strikes.                      *)
LEMMA EnterStep ==
  ASSUME IInv, NEW v \in Exceptions \cup Irqs, enter(v),
         pc \in {"init_flat_gdt", "interrupts_init", "main", "handler"},
         v \in Irqs => pc = "main"
  PROVE  IInv'
<1>1. /\ Len(seen) < MaxDepth
      /\ tss' = tss /\ g_tss' = g_tss /\ gdt' = gdt /\ tr' = tr /\ gates' = gates
  BY DEF enter
<1>2. FlatGdt' = FlatGdt
  BY <1>1, FlatGdtKept
<1>3. CASE v \notin DOMAIN gates
  <2>1. pc' = "reset" /\ stack' = stack /\ ctx' = ctx /\ seen' = seen
    BY <1>3 DEF enter
  <2>2. TypeOK'
    BY <1>1, <2>1 DEF IInv, TypeOK
  <2>3. Tables'
    BY <1>1, <1>2, <2>1 DEF IInv, Tables
  <2>4. FrameInv'
    BY <2>1 DEF IInv, FrameInv
  <2> QED BY <2>2, <2>3, <2>4 DEF IInv
<1>4. CASE v \in DOMAIN gates
  <2>1. PICK f : f = [ctx |-> ctx, stack |-> stack, int_no |-> v,
                      err_code |-> IF CpuPushesError(v) THEN ERROR_CODE ELSE 0]
    OBVIOUS
  <2>2. /\ stack' = stack \o <<ctx["eflags"], ctx["cs"], ctx["eip"]>>
                          \o (IF CpuPushesError(v) THEN <<ERROR_CODE>> ELSE <<>>)
        /\ ctx' = [ctx EXCEPT !["cs"] = gates[v], !["eip"] = v]
        /\ seen' = Append(seen, f) /\ pc' = "stub"
    BY <1>4, <2>1 DEF enter
  <2>3. pc \in {"main", "handler"} /\ gates[v] = 8 /\ tr = 43 /\ KernelSegments(ctx)
    BY <1>4 DEF IInv, Tables
  <2>4. /\ ctx \in [Reg -> Nat] /\ stack \in Seq(Nat) /\ seen \in Seq(FrameType)
        /\ Len(seen) \in Nat /\ MaxDepth \in Nat
    BY EntryAssumption DEF IInv, TypeOK, FrameInv
  <2>5. v \in Nat /\ (CpuPushesError(v) <=> WithError(v)) /\ (v >= 32 => v \in Irqs)
    BY Vectors
  <2>6. /\ f.ctx = ctx /\ f.stack = stack /\ f.int_no = v
        /\ f.err_code = IF WithError(v) THEN ERROR_CODE ELSE 0
    BY <2>1, <2>5
  <2>7. f \in FrameType
    <3>1. (IF CpuPushesError(v) THEN ERROR_CODE ELSE 0) \in Nat
      BY DEF ERROR_CODE
    <3> QED BY <2>1, <2>4, <2>5, <3>1 DEF FrameType
  <2> HIDE <2>1
  <2>8. /\ seen' \in Seq(FrameType) /\ Len(seen') = Len(seen) + 1 /\ Last(seen') = f
    <3>1. /\ Append(seen, f) \in Seq(FrameType) /\ Len(Append(seen, f)) = Len(seen) + 1
          /\ Append(seen, f)[Len(seen) + 1] = f
      BY <2>4, <2>7, AppendProperties
    <3> QED BY <2>2, <3>1 DEF Last
  <2>9. Len(seen') \in 0..MaxDepth /\ Len(seen') >= 1
    BY <1>1, <2>4, <2>8
  <2>10. /\ stack' \in Seq(Nat) /\ Interrupted(stack', f)
         /\ Len(stack') = Len(f.stack) + (IF WithError(f.int_no) THEN 4 ELSE 3)
         /\ WithError(f.int_no) => stack'[Len(f.stack) + 4] = f.err_code
    <3>1. stack' = f.stack \o <<f.ctx["eflags"], f.ctx["cs"], f.ctx["eip"]>>
                           \o (IF CpuPushesError(f.int_no) THEN <<ERROR_CODE>> ELSE <<>>)
      BY <2>2, <2>6
    <3> QED BY ONLY <2>6, <2>7, <3>1, CpuWords, v \in Exceptions \cup Irqs
  <2>11. /\ ctx' \in [Reg -> Nat] /\ ctx'["cs"] = 8 /\ ctx'["eip"] = v
         /\ \A r \in Reg \ {"cs", "eip"} : ctx'[r] = ctx[r]
    <3>1. "cs" \in Reg /\ "eip" \in Reg
      BY Names
    <3>2. PICK d : d = [ctx EXCEPT !["cs"] = 8]
      OBVIOUS
    <3>3. ctx' = [d EXCEPT !["eip"] = v]
      BY <2>2, <2>3, <3>2
    <3>4. /\ d \in [Reg -> Nat] /\ d["cs"] = 8
          /\ \A r \in Reg \ {"cs"} : d[r] = ctx[r]
      BY ONLY <2>4, <3>1, <3>2
    <3>5. /\ ctx' \in [Reg -> Nat] /\ ctx'["eip"] = v
          /\ \A r \in Reg \ {"eip"} : ctx'[r] = d[r]
      BY ONLY <2>5, <3>1, <3>3, <3>4
    <3> QED BY ONLY <3>1, <3>4, <3>5
  <2>12. \A r \in SegmentNames : ctx'[r] = ctx[r]
    <3>1. SegmentNames \subseteq Reg \ {"cs", "eip"}
      BY Names DEF SegmentNames, PushalNames
    <3> QED BY <2>11, <3>1
  <2>13. KernelSegments(ctx')
    BY <2>3, <2>11, <2>12 DEF KernelSegments
  <2>14. Cause(ctx', f, Len(seen'))
    <3>1. v >= 32 => Len(seen') = 1 /\ f.stack = <<>>
      <4> SUFFICES ASSUME v >= 32 PROVE Len(seen') = 1 /\ f.stack = <<>>
        OBVIOUS
      <4>1. seen = <<>> /\ stack = <<>>
        BY <2>5 DEF IInv, FrameInv
      <4> QED BY <2>6, <2>8, <4>1
    <3> QED BY <2>3, <2>6, <2>11, <2>12, <3>1 DEF Cause
  <2>15. AtStub(ctx', stack', f)
    BY <2>6, <2>10, <2>11 DEF AtStub
  <2>16. TypeOK'
    BY <1>1, <2>2, <2>9, <2>10, <2>11 DEF IInv, TypeOK
  <2>17. Tables'
    BY <1>1, <1>2, <2>2, <2>3, <2>13 DEF IInv, Tables
  <2>18. FrameInv'
    BY <2>2, <2>8, <2>9, <2>14, <2>15 DEF FrameInv
  <2> QED BY <2>16, <2>17, <2>18 DEF IInv
<1> QED BY <1>3, <1>4

LEMMA EntryStep ==
  ASSUME IInv, isr_entry
  PROVE  IInv'
<1>1. PICK top, code, words :
        /\ top = Last(seen)
        /\ code = stack \o (IF WithError(ctx["eip"]) THEN <<ctx["eip"]>> ELSE <<0, ctx["eip"]>>)
        /\ words = code \o Saved(Len(code))
  OBVIOUS
<1>2. /\ pc = "stub" /\ pc' = "handler" /\ tss' = tss /\ g_tss' = g_tss /\ gdt' = gdt /\ tr' = tr
      /\ gates' = gates /\ ctx' = ctx /\ seen' = seen
  BY DEF isr_entry
<1>3. stack' = Append(words, Len(words))
  BY <1>1 DEF isr_entry
<1>4. /\ top \in FrameType /\ Cause(ctx, top, Len(seen)) /\ AtStub(ctx, stack, top)
  BY <1>1, <1>2, TopFrame DEF IInv, FrameInv
<1>5. ctx \in [Reg -> Nat] /\ stack \in Seq(Nat)
  BY DEF IInv, TypeOK
<1>6. /\ top.int_no \in Exceptions \cup Irqs /\ ctx["eip"] = top.int_no
      /\ top.err_code = IF WithError(top.int_no) THEN ERROR_CODE ELSE 0
  BY <1>4 DEF Cause
<1>7. stack' \in Seq(Nat) /\ InHandler(stack', top)
  <2>0. Len(code) \in Nat
    <3>1. ctx["eip"] \in Nat
      BY <1>5, Names
    <3>2. (IF WithError(ctx["eip"]) THEN <<ctx["eip"]>> ELSE <<0, ctx["eip"]>>) \in Seq(Nat)
      BY <3>1
    <3>3. code \in Seq(Nat)
      BY <1>1, <1>5, <3>2, Concat
    <3> QED BY <3>3, LenProperties
  <2>1. PICK saved : saved = Saved(Len(code))
    OBVIOUS
  <2>2. /\ saved \in Seq(Nat) /\ Len(saved) = 13
        /\ \A i \in 1..5 : saved[i] = ctx[Segments[i]]
        /\ \A i \in 1..8 : saved[5 + i] = PushalWord(ctx, Len(code) + 5, i)
    BY <1>5, <2>0, <2>1, SavedWords
  <2>3. /\ code = stack \o (IF WithError(ctx["eip"]) THEN <<ctx["eip"]>> ELSE <<0, ctx["eip"]>>)
        /\ words = code \o saved
    BY <1>1, <2>1
  <2>4. /\ Append(words, Len(words)) \in Seq(Nat)
        /\ InHandler(Append(words, Len(words)), top)
    BY ONLY <1>4, <1>5, <1>6, <2>2, <2>3, StubWords, ZenonT(60)
  <2> QED BY <1>3, <2>4
<1>8. Last(seen') = top
  BY <1>1, <1>2
<1>9. TypeOK'
  BY <1>2, <1>7 DEF IInv, TypeOK
<1>10. Tables'
  BY <1>2, FlatGdtKept DEF IInv, Tables
<1>11. FrameInv'
  BY <1>2, <1>4, <1>7, <1>8 DEF IInv, FrameInv
<1> QED BY <1>9, <1>10, <1>11 DEF IInv

LEMMA HandlerStep ==
  ASSUME IInv, irq_handler
  PROVE  IInv'
<1>1. /\ pc = "handler" /\ tss' = tss /\ g_tss' = g_tss /\ gdt' = gdt /\ tr' = tr
      /\ gates' = gates /\ stack' = stack /\ seen' = seen
      /\ pc' = IF RegsField("int_no") < 32 THEN "stop" ELSE "exit"
      /\ ctx' = [ctx EXCEPT !["eax"] = 0, !["ecx"] = 0, !["edx"] = 0]
  BY DEF irq_handler
<1>2. RegsField("int_no") = Last(seen).int_no /\ Last(seen).int_no \in Nat
  BY <1>1, RegsFrom, TopFrame
<1>3. ctx \in [Reg -> Nat]
  BY DEF IInv, TypeOK
<1>4. /\ ctx' \in [Reg -> Nat]
      /\ \A r \in Reg \ {"eax", "ecx", "edx"} : ctx'[r] = ctx[r]
  <2>1. {"eax", "ecx", "edx"} \subseteq Reg
    BY Names DEF PushalNames
  <2> QED BY <1>1, <1>3, <2>1
<1>5. \A r \in SegmentNames \cup {"cs", "eip"} : ctx'[r] = ctx[r]
  <2>1. SegmentNames \cup {"cs", "eip"} \subseteq Reg \ {"eax", "ecx", "edx"}
    BY Names DEF SegmentNames, PushalNames
  <2> QED BY <1>4, <2>1
<1>6. Cause(ctx', Last(seen), Len(seen)) /\ InHandler(stack, Last(seen)) /\ Len(seen) >= 1
  <2>1. Cause(ctx, Last(seen), Len(seen)) /\ InHandler(stack, Last(seen)) /\ Len(seen) >= 1
    BY <1>1, TopFrame DEF IInv, FrameInv
  <2> QED BY <1>5, <2>1 DEF Cause
<1>7. KernelSegments(ctx') /\ tr = 43
  <2>1. KernelSegments(ctx) /\ tr = 43
    BY <1>1 DEF IInv, Tables
  <2> QED BY <1>5, <2>1 DEF KernelSegments
<1>8. pc' \in {"stop", "exit"} /\ (pc' = "exit" => Last(seen).int_no >= 32)
  BY <1>1, <1>2
<1>9. TypeOK'
  BY <1>1, <1>4, <1>8 DEF IInv, TypeOK
<1>10. Tables'
  BY <1>1, <1>7, <1>8, FlatGdtKept DEF IInv, Tables
<1>11. FrameInv'
  <2>1. seen' \in Seq(FrameType) /\ Last(seen') = Last(seen)
    BY <1>1 DEF IInv, FrameInv
  <2> QED BY <1>1, <1>6, <1>8, <2>1 DEF FrameInv
<1> QED BY <1>9, <1>10, <1>11 DEF IInv

LEMMA ExitStep ==
  ASSUME IInv, isr_exit
  PROVE  IInv' /\ Len(seen') < Len(seen)
<1>1. /\ pc = "exit" /\ pc' = "main" /\ seen' = SubSeq(seen, 1, Len(seen) - 1)
      /\ tss' = tss /\ g_tss' = g_tss /\ gdt' = gdt /\ tr' = tr /\ gates' = gates
  BY DEF isr_exit, Front
<1>2. ctx' = Last(seen).ctx /\ stack' = Last(seen).stack
  BY ExitRestores
<1>3. /\ Last(seen).ctx \in [Reg -> Nat] /\ Last(seen).stack \in Seq(Nat)
      /\ Cause(ctx, Last(seen), Len(seen)) /\ Last(seen).int_no >= 32
  BY <1>1, TopFrame DEF IInv, FrameInv
<1>4. Len(seen) = 1 /\ stack' = <<>> /\ KernelSegments(ctx')
  BY <1>2, <1>3 DEF Cause
<1>5. seen' = <<>>
  <2>1. Len(seen) - 1 = 0 /\ 0 < 1 /\ 1 \in Int /\ 0 \in Int
    BY <1>4
  <2>2. SubSeq(seen, 1, 0) = <<>>
    BY <2>1, SubSeqEmpty
  <2> QED BY <1>1, <2>1, <2>2
<1>6. seen' \in Seq(FrameType) /\ Len(seen') = 0 /\ MaxDepth \in Nat
  BY <1>5, EntryAssumption
<1>7. TypeOK'
  <2>1. ctx' \in [Reg -> Nat] /\ stack' \in Seq(Nat) /\ Len(seen') \in 0..MaxDepth
    BY <1>2, <1>3, <1>6
  <2> QED BY <1>1, <2>1 DEF IInv, TypeOK
<1>8. Tables'
  BY <1>1, <1>4, FlatGdtKept DEF IInv, Tables
<1>9. FrameInv'
  BY <1>1, <1>4, <1>5, <1>6 DEF FrameInv
<1> QED BY <1>4, <1>6, <1>7, <1>8, <1>9 DEF IInv

LEMMA Unchanged ==
  ASSUME IInv, UNCHANGED vars
  PROVE  IInv'
<1>1. /\ pc' = pc /\ tss' = tss /\ g_tss' = g_tss /\ gdt' = gdt /\ tr' = tr /\ gates' = gates
      /\ ctx' = ctx /\ stack' = stack /\ seen' = seen
  BY DEF vars
<1>2. TypeOK'
  BY <1>1 DEF IInv, TypeOK
<1>3. Tables'
  BY <1>1, FlatGdtKept DEF IInv, Tables
<1>4. FrameInv'
  BY <1>1 DEF IInv, FrameInv
<1> QED BY <1>2, <1>3, <1>4 DEF IInv

LEMMA NextStep == IInv /\ [Next]_vars => IInv'
<1> SUFFICES ASSUME IInv, [Next]_vars PROVE IInv'
  OBVIOUS
<1>1. CASE init_flat_gdt
  BY <1>1, FlatGdtStep
<1>2. CASE interrupts_init
  BY <1>2, GatesStep
<1>3. CASE \E v \in Irqs : interrupt(v)
  <2>1. PICK v \in Irqs : interrupt(v)
    BY <1>3
  <2>2. pc = "main" /\ enter(v)
    BY <2>1 DEF interrupt
  <2> QED BY <2>2, EnterStep
<1>4. CASE \E v \in Exceptions : exception(v)
  <2>1. PICK v \in Exceptions : exception(v)
    BY <1>4
  <2>2. pc \in {"init_flat_gdt", "interrupts_init", "main", "handler"} /\ enter(v)
    BY <2>1 DEF exception
  <2>3. v \notin Irqs
    <3>1. v \in Exceptions \cup Irqs
      OBVIOUS
    <3>2. v \in Nat /\ (v \in Irqs => v >= 32) /\ v < 32
      BY <3>1, Vectors
    <3> QED BY <3>2
  <2> QED BY <2>2, <2>3, EnterStep
<1>5. CASE isr_entry
  BY <1>5, EntryStep
<1>6. CASE irq_handler
  BY <1>6, HandlerStep
<1>7. CASE isr_exit
  BY <1>7, ExitStep
<1>8. CASE halted
  BY <1>8, Unchanged DEF halted
<1>9. CASE UNCHANGED vars
  BY <1>9, Unchanged
<1> QED BY <1>1, <1>2, <1>3, <1>4, <1>5, <1>6, <1>7, <1>8, <1>9 DEF Next

-----------------------------------------------------------------------------
(* Theorems *)

(* The inductive invariant: the tables are complete before they are used,  *)
(* and the stack holds, word by word, what the frame on top of the history *)
(* recorded.                                                               *)
THEOREM EntryInvariant == Spec => []IInv
BY InitInv, NextStep, PTL DEF Spec

(* The type invariant: descriptors have fields of their widths, registers  *)
(* and stack hold words.                                                   *)
THEOREM EntryTypeOK == Spec => []TypeOK
<1>1. IInv => TypeOK
  BY DEF IInv
<1> QED BY EntryInvariant, <1>1, PTL

(* irq_handler and page_fault_handler read through struct regs the vector, *)
(* the error code and the registers of what was interrupted, up to cs, for *)
(* every vector, every width of a byte that leaves room for the selector   *)
(* of the code in half a word, and however deep exceptions nest.           *)
THEOREM EntryRegsMatch == Spec => []RegsMatch
<1>1. IInv => RegsMatch
  BY RegsFrom DEF RegsMatch
<1> QED BY EntryInvariant, <1>1, PTL

(* Every selector in use names a flat descriptor of its kind in ring 0,    *)
(* and the task register a TSS that reaches its end, for every address and *)
(* size of g_tss that does not end within its size of a multiple of 1 MB.  *)
THEOREM EntryDescriptorsValid == Spec => []DescriptorsValid
<1>1. IInv => DescriptorsValid
  BY DescriptorsFrom
<1> QED BY EntryInvariant, <1>1, PTL

(* A step that shortens the history.                                       *)
Resumed ==
  Len(seen') < Len(seen) =>
    LET top == Last(seen)
    IN stack' = top.stack /\ ctx' = top.ctx

LEMMA ResumedStep == IInv /\ [Next]_vars => Resumed
<1> SUFFICES ASSUME IInv, [Next]_vars, Len(seen') < Len(seen)
             PROVE  stack' = Last(seen).stack /\ ctx' = Last(seen).ctx
  BY DEF Resumed
<1>1. Len(seen) \in Nat /\ seen \in Seq(FrameType)
  BY DEF IInv, FrameInv
<1>2. CASE isr_exit
  BY <1>2, ExitRestores
<1>3. CASE seen' = seen
  BY <1>1, <1>3
<1>4. CASE \E f : seen' = Append(seen, f)
  <2>1. PICK f : seen' = Append(seen, f)
    BY <1>4
  <2>2. Len(Append(seen, f)) = Len(seen) + 1
    BY <1>1
  <2> QED BY <1>1, <2>1, <2>2
<1>5. ASSUME NEW v, enter(v) PROVE seen' = seen \/ \E f : seen' = Append(seen, f)
  BY <1>5 DEF enter
<1>6. \/ isr_exit \/ seen' = seen \/ \E v : enter(v)
  BY DEF Next, vars, init_flat_gdt, interrupts_init, interrupt, exception, isr_entry, irq_handler,
         halted
<1> QED BY <1>2, <1>3, <1>4, <1>5, <1>6

(* Whatever a hardware interrupt interrupted goes on with every register   *)
(* and the stack as they were.                                             *)
THEOREM EntryResumes == Spec => Resumes
<1>1. IInv /\ [Next]_vars => [Resumed]_vars
  BY ResumedStep
<1>2. Resumes <=> [][Resumed]_vars
  BY DEF Resumes, Resumed
<1> QED BY EntryInvariant, <1>1, <1>2, PTL DEF Spec
=============================================================================
