---------------------------- MODULE OutputProofs ----------------------------
(***************************************************************************)
(* Proofs about Output, for every width of a word, every set of formats    *)
(* and messages and every number of interrupts.                            *)
(***************************************************************************)
EXTENDS Output, Arithmetic, SequenceTheorems, TLAPS

-----------------------------------------------------------------------------
(* The inductive invariant *)

(* g up to k.                                                              *)
Upto(g, k) == FlattenSeq([i \in 1..k |-> g[i]])

Half == WIDTH \div 2
Bases == {BIN, OCT, DEC, HEX_LOWER, HEX_UPPER}
CharOps == {"kprintf_putchar", "uart_putchar", "print_char_on_screen"}
Task == [op : CharOps \cup {"my_put_nbr_base", "my_put_uint_base"},
         n : Int, base : Seq(Int), nested : Nat]
Message == [by : {"kernel", "handler"}, port : {0, SERIAL_PORT}, c : 0..255]

(* A number still to print is a word, in one of the notations.             *)
TaskOK(t) ==
  /\ t.op \in CharOps => t.n \in 0..255
  /\ t.op = "my_put_uint_base" => t.n \in 0..(WIDTH - 1) /\ t.base \in Bases
  /\ t.op = "my_put_nbr_base" => t.n \in (-Half)..(Half - 1) /\ t.base \in Bases /\ t.nested >= 1

Tasks == {t \in Task : TaskOK(t)}

(* A call of my_put_nbr_base has halved its number each time but the first *)
(* two, and the one for the least int does not come up.                    *)
Shallow(t) ==
  t.op = "my_put_nbr_base" =>
    /\ t.n > -Half
    /\ t.nested = 1 \/ (t.n >= 1 /\ t.n * Power(2, t.nested - 2) <= Half)

(* A character for the screen is one of a message, in its column.          *)
Placed(t) ==
  t.op = "print_char_on_screen" =>
    \E m \in Messages : t.nested \in 0..(Len(m) - 1) /\ t.n = m[t.nested + 1]

(* What a call that is still to be made will put on the line.              *)
Show(t) ==
  IF t.op \in {"kprintf_putchar", "uart_putchar"} THEN <<t.n>>
  ELSE IF t.op = "my_put_uint_base" THEN Numeral(t.n, t.base)
  ELSE IF t.op = "my_put_nbr_base" THEN Number(t.n, t.base)
  ELSE <<>>
ShowAll(s) == FlattenSeq([i \in 1..Len(s) |-> Show(s[i])])

Pieces(items) == [i \in 1..Len(items) |-> Piece(items[i])]
Passes(items) == [i \in 1..Len(items) |-> Passed(items[i])]
Meanings(items) == [i \in 1..Len(items) |-> Meaning(items[i])]
NoLeast(items) == \A i \in 1..Len(items) : ~LeastInt(items[i])
AllExact(items) == \A i \in 1..Len(items) : Exact(items[i])
NotScreen(s) == \A i \in 1..Len(s) : s[i].op # "print_char_on_screen"
AllShallow(s) == \A i \in 1..Len(s) : Shallow(s[i])
AllPlaced(s) == \A i \in 1..Len(s) : Placed(s[i])
OnLine(o) == FlattenSeq([i \in 1..Len(o) |-> Wire(o[i])])

Typed ==
  /\ pc \in {"main", "kprintf", "printk", "overflow"}
  /\ out \in Seq(Message)
  /\ todo \in Seq(Tasks) /\ AllPlaced(todo)
  /\ pc \in {"main", "overflow"} => todo = <<>>
  /\ uart_addr \in {0, SERIAL_PORT}
  /\ screen \in [0..(Columns - 1) -> 0..255]
  /\ count \in Nat /\ calls \in 0..MaxCalls /\ interrupts \in 0..MaxInterrupts

(* The record of a call of kprintf with items, and of printk with text.    *)
WellFormed(items) == items \in Seq(Range(items)) /\ \A it \in Range(items) : WellTyped(it)
Formatted(items, text, args) ==
  WellFormed(items) /\ text = FlattenSeq(Pieces(items)) /\ args = FlattenSeq(Passes(items))
Literals(text) == [i \in 1..Len(text) |-> [flag |-> LITERAL, arg |-> text[i]]]
Verbatim(items, text, args) ==
  text \in Seq(Char) /\ items = Literals(text) /\ args = <<>> /\ Len(text) <= Columns

CallInv ==
  /\ fmt.by \in {"kprintf", "printk"} /\ (pc \in {"kprintf", "printk"} => pc = fmt.by)
  /\ fmt.by = "kprintf" => Formatted(fmt.items, fmt.text, fmt.args)
  /\ fmt.by = "printk" => Verbatim(fmt.items, fmt.text, fmt.args)
  /\ fmt.early \in BOOLEAN
  /\ fmt.early = FALSE => uart_addr = SERIAL_PORT
  /\ fmt.early = TRUE => OnLine(out) = <<>> /\ (pc # "main" => uart_addr = 0)

DepthInv == NoLeast(fmt.items) => pc # "overflow" /\ AllShallow(todo)

(* kprintf is between two items of its format, and what it has printed and *)
(* has still to print are the items before.                                *)
Reached(items, k, cur, arg) ==
  cur = 1 + Len(Upto(Pieces(items), k)) /\ arg = 1 + Len(Upto(Passes(items), k))
PositionInv ==
  /\ fmt.by = "printk" =>
       /\ cursor = 1 /\ argi = 1
       /\ fmt.early = FALSE => OnLine(out) \o ShowAll(todo) = fmt.text
  /\ fmt.by = "kprintf" => \E k \in 0..Len(fmt.items) :
       /\ Reached(fmt.items, k, cursor, argi)
       /\ pc = "main" => k = Len(fmt.items)
       /\ fmt.early = FALSE /\ AllExact(fmt.items) =>
            OnLine(out) \o ShowAll(todo) = Upto(Meanings(fmt.items), k)

(* Each cell of row has a character of a message in its column.  s writes  *)
(* the characters of text where they belong, and Pending(s, i): that of    *)
(* column i is among them.                                                 *)
Legible(row) == \A col \in 0..(Columns - 1) :
  row[col] = 0 \/ \E m \in Messages \cup {UartMessage} : col < Len(m) /\ row[col] = m[col + 1]
Writes(s, text) == \A j \in 1..Len(s) : s[j].op = "print_char_on_screen" =>
  s[j].nested + 1 \in 1..Len(text) /\ s[j].n = text[s[j].nested + 1]
Pending(s, i) == \E j \in 1..Len(s) : s[j].op = "print_char_on_screen" /\ s[j].nested = i - 1
ScreenInv ==
  /\ Legible(screen)
  /\ fmt.by = "printk" => Writes(todo, fmt.text)
  /\ fmt.by = "printk" /\ interrupts = 0 =>
       \A i \in 1..Len(fmt.text) : screen[i - 1] = fmt.text[i] \/ Pending(todo, i)

IInv == Typed /\ CallInv /\ DepthInv /\ PositionInv /\ ScreenInv

-----------------------------------------------------------------------------
(* Sequences laid end to end *)

(* The recursive function in the definition of FlattenSeq.                 *)
Laid(g, n, f) == f = [i \in 1..n |-> IF i = 1 THEN g[i] ELSE f[i - 1] \o g[i]]

LEMMA LaidExists ==
  ASSUME NEW g, NEW n \in Nat, n >= 1
  PROVE  \E f : Laid(g, n, f)
<1> SUFFICES ASSUME ~\E f : Laid(g, n, f) PROVE FALSE
  OBVIOUS
<1> DEFINE Bad == {k \in Nat : k >= 1 /\ ~\E f : Laid(g, k, f)}
<1>1. PICK k \in Bad : \A y \in Bad : k <= y
  BY LeastNat
<1>2. k # 1
  <2> DEFINE f == [i \in 1..1 |-> g[i]]
  <2>1. Laid(g, 1, f)
    BY DEF Laid
  <2> QED BY <2>1
<1>3. PICK f : Laid(g, k - 1, f)
  <2>1. k - 1 \in Nat /\ k - 1 >= 1 /\ k - 1 \notin Bad
    BY <1>1, <1>2
  <2> QED BY <2>1
<1> DEFINE h == [i \in 1..k |-> IF i = k THEN f[k - 1] \o g[k] ELSE f[i]]
<1>4. Laid(g, k, h)
  <2>1. \A i \in 1..(k - 1) : f[i] = IF i = 1 THEN g[i] ELSE f[i - 1] \o g[i]
    BY <1>3 DEF Laid
  <2>2. \A i \in 1..k : h[i] = IF i = 1 THEN g[i] ELSE h[i - 1] \o g[i]
    BY <1>1, <1>2, <2>1
  <2> QED BY <2>2 DEF Laid
<1> QED BY <1>1, <1>4

LEMMA LaidUnique ==
  ASSUME NEW g, NEW h, NEW m \in Nat, NEW n \in Nat, m <= n, NEW e, NEW f,
         Laid(g, m, e), Laid(h, n, f), \A i \in 1..m : g[i] = h[i]
  PROVE  \A i \in 1..m : e[i] = f[i]
<1> SUFFICES ASSUME ~\A i \in 1..m : e[i] = f[i] PROVE FALSE
  OBVIOUS
<1> DEFINE Bad == {i \in 1..m : e[i] # f[i]}
<1>1. PICK k \in Bad : \A y \in Bad : k <= y
  BY LeastNat, Bad \in SUBSET Nat, Bad # {}
<1>2. /\ e[k] = IF k = 1 THEN g[k] ELSE e[k - 1] \o g[k]
      /\ f[k] = IF k = 1 THEN h[k] ELSE f[k - 1] \o h[k]
  BY k \in 1..m, k \in 1..n DEF Laid
<1>3. k # 1 => e[k - 1] = f[k - 1]
  BY <1>1
<1> QED BY <1>1, <1>2, <1>3

LEMMA FlattenDef ==
  ASSUME NEW g, NEW n \in Nat, Len(g) = n, n >= 1
  PROVE  \E f : Laid(g, n, f) /\ FlattenSeq(g) = f[n]
<1> DEFINE f == CHOOSE f : f = [i \in 1..Len(g) |-> IF i = 1 THEN g[i] ELSE f[i - 1] \o g[i]]
<1>1. Laid(g, n, f)
  BY LaidExists, ZenonT(60) DEF Laid
<1>2. FlattenSeq(g) = f[n]
  BY DEF FlattenSeq
<1> QED BY <1>1, <1>2, ZenonT(60)

LEMMA FlattenEmpty == FlattenSeq(<<>>) = <<>>
BY DEF FlattenSeq

(* What is laid last comes last.                                           *)
LEMMA FlattenLast ==
  ASSUME NEW S, NEW n \in Nat, NEW N, N = n + 1, NEW g, g \in [1..N -> Seq(S)],
         NEW h, h \in [1..n -> Seq(S)], \A i \in 1..n : h[i] = g[i],
         FlattenSeq(h) \in Seq(S)
  PROVE  FlattenSeq(g) = FlattenSeq(h) \o g[N] /\ FlattenSeq(g) \in Seq(S)
<1>1. Len(g) = N /\ Len(h) = n /\ N \in Nat /\ N >= 1 /\ g[N] \in Seq(S)
  <2>1. N \in Nat
    OBVIOUS
  <2>2. g \in Seq(Seq(S)) /\ h \in Seq(Seq(S)) /\ DOMAIN g = 1..N /\ DOMAIN h = 1..n
    BY <2>1, IsASeq
  <2>3. Len(g) \in Nat /\ DOMAIN g = 1..Len(g) /\ Len(h) \in Nat /\ DOMAIN h = 1..Len(h)
    BY <2>2, LenProperties
  <2> QED BY <2>1, <2>2, <2>3
<1>2. PICK f : Laid(g, N, f) /\ FlattenSeq(g) = f[N]
  BY <1>1, FlattenDef
<1>3. FlattenSeq(g) = FlattenSeq(h) \o g[N]
  <2>1. CASE n = 0
    <3>1. h = <<>>
      BY <1>1, <2>1, EmptySeq
    <3>2. FlattenSeq(h) = <<>>
      BY <3>1, FlattenEmpty
    <3>3. f[1] = g[1]
      BY <1>2, <2>1 DEF Laid
    <3> QED BY <1>1, <1>2, <2>1, <3>2, <3>3, ConcatEmptySeq
  <2>2. CASE n # 0
    <3>1. PICK e : Laid(h, n, e) /\ FlattenSeq(h) = e[n]
      BY <1>1, <2>2, FlattenDef
    <3>2. \A i \in 1..n : e[i] = f[i]
      <4>1. N \in Nat /\ n <= N /\ Laid(g, N, f)
        BY <1>2
      <4>2. \A i \in 1..n : h[i] = g[i]
        OBVIOUS
      <4> QED BY ONLY <3>1, <4>1, <4>2, n \in Nat, LaidUnique
    <3>3. f[N] = f[n] \o g[N]
      <4>1. N \in 1..N /\ N # 1 /\ N - 1 = n
        BY <2>2
      <4> QED BY <1>2, <4>1 DEF Laid
    <3> QED BY <1>2, <2>2, <3>1, <3>2, <3>3, n \in 1..n
  <2> QED BY <2>1, <2>2
<1> QED BY <1>1, <1>3, ConcatProperties

LEMMA UptoStep ==
  ASSUME NEW S, NEW n \in Nat, NEW g, g \in [1..n -> Seq(S)]
  PROVE  /\ Upto(g, 0) = <<>>
         /\ Upto(g, n) = FlattenSeq(g)
         /\ \A k \in 0..n : Upto(g, k) \in Seq(S)
         /\ \A k \in 0..(n - 1) : Upto(g, k + 1) = Upto(g, k) \o g[k + 1]
<1>1. Upto(g, 0) = <<>>
  <2>1. [i \in 1..0 |-> g[i]] = <<>>
    OBVIOUS
  <2> QED BY <2>1, FlattenEmpty DEF Upto
<1>2. Upto(g, n) = FlattenSeq(g)
  <2>1. [i \in 1..n |-> g[i]] = g
    OBVIOUS
  <2> QED BY <2>1 DEF Upto
<1>3. ASSUME NEW k \in 0..(n - 1), Upto(g, k) \in Seq(S)
      PROVE  Upto(g, k + 1) = Upto(g, k) \o g[k + 1] /\ Upto(g, k + 1) \in Seq(S)
  <2> DEFINE a == [i \in 1..(k + 1) |-> g[i]]
             b == [i \in 1..k |-> g[i]]
  <2>1. a[k + 1] = g[k + 1]
    OBVIOUS
  <2>4. k \in Nat
    OBVIOUS
  <2>5. a \in [1..(k + 1) -> Seq(S)]
    OBVIOUS
  <2>6. b \in [1..k -> Seq(S)]
    OBVIOUS
  <2>7. \A i \in 1..k : b[i] = a[i]
    OBVIOUS
  <2>2. Upto(g, k) = FlattenSeq(b) /\ Upto(g, k + 1) = FlattenSeq(a)
    BY DEF Upto
  <2> HIDE DEF a, b
  <2>3. FlattenSeq(a) = FlattenSeq(b) \o a[k + 1] /\ FlattenSeq(a) \in Seq(S)
    <3>1. FlattenSeq(b) \in Seq(S)
      BY ONLY <1>3, <2>2
    <3> QED BY ONLY <2>4, <2>5, <2>6, <2>7, <3>1, FlattenLast
  <2> QED BY ONLY <2>1, <2>2, <2>3
<1>4. \A k \in 0..n : Upto(g, k) \in Seq(S)
  <2> SUFFICES ASSUME NEW j \in 0..n, Upto(g, j) \notin Seq(S) PROVE FALSE
    OBVIOUS
  <2> DEFINE Bad == {k \in 0..n : Upto(g, k) \notin Seq(S)}
  <2>1. PICK k \in Bad : \A y \in Bad : k <= y
    <3>1. Bad \in SUBSET Nat /\ Bad # {}
      BY SMTT(40)
    <3> HIDE DEF Bad
    <3> QED BY <3>1, LeastNat
  <2>2. k # 0
    BY <1>1, EmptySeq
  <2>3. k - 1 \in 0..(n - 1) /\ Upto(g, k - 1) \in Seq(S) /\ (k - 1) + 1 = k
    BY <2>1, <2>2
  <2>4. Upto(g, (k - 1) + 1) \in Seq(S)
    BY <1>3, <2>3
  <2> QED BY <2>3, <2>4
<1> QED BY ONLY <1>1, <1>2, <1>3, <1>4, n \in Nat, \A k \in 0..(n - 1) : k \in 0..n

(* What is laid in two parts.                                              *)
LEMMA FlattenConcat ==
  ASSUME NEW S, NEW g \in Seq(Seq(S)), NEW h \in Seq(Seq(S))
  PROVE  /\ FlattenSeq(g) \in Seq(S) /\ FlattenSeq(h) \in Seq(S)
         /\ FlattenSeq(g \o h) = FlattenSeq(g) \o FlattenSeq(h)
<1> DEFINE m == Len(g)
           n == Len(h)
           N == m + n
           w == g \o h
<1>1. m \in Nat /\ n \in Nat /\ N \in Nat
  BY LenProperties
<1>2. g \in [1..m -> Seq(S)]
  BY LenProperties
<1>3. h \in [1..n -> Seq(S)]
  BY LenProperties
<1>4. /\ w \in Seq(Seq(S)) /\ Len(w) = N
      /\ \A i \in 1..N : w[i] = IF i <= m THEN g[i] ELSE h[i - m]
  BY ConcatProperties
<1>5. w \in [1..N -> Seq(S)]
  BY <1>4, LenProperties
<1> HIDE DEF m, n, w
<1>6. \A i \in 1..m : w[i] = g[i]
  BY ONLY <1>1, <1>4 DEF N
<1>7. \A i \in 1..n : w[m + i] = h[i]
  <2> TAKE i \in 1..n
  <2>1. m + i \in 1..N /\ ~(m + i <= m) /\ (m + i) - m = i
    BY <1>1 DEF N
  <2> QED BY ONLY <1>4, <2>1
<1>8. /\ Upto(g, m) = FlattenSeq(g) /\ Upto(g, m) \in Seq(S)
  <2>1. m \in 0..m
    BY ONLY <1>1
  <2> QED BY ONLY <1>1, <1>2, <2>1, UptoStep
<1>9. FlattenSeq(g) \in Seq(S)
  BY ONLY <1>8
<1>10. /\ Upto(w, N) = FlattenSeq(w)
       /\ \A k \in 0..(N - 1) : Upto(w, k + 1) = Upto(w, k) \o w[k + 1]
  <2> HIDE DEF N
  <2> QED BY ONLY <1>1, <1>5, UptoStep, ZenonT(60)
<1>11. /\ Upto(h, 0) = <<>> /\ Upto(h, n) = FlattenSeq(h)
       /\ \A k \in 0..n : Upto(h, k) \in Seq(S)
       /\ \A k \in 0..(n - 1) : Upto(h, k + 1) = Upto(h, k) \o h[k + 1]
  BY ONLY <1>1, <1>3, UptoStep, ZenonT(60)
<1>12. Upto(w, m) = FlattenSeq(g)
  <2>1. [i \in 1..m |-> w[i]] = g
    BY ONLY <1>2, <1>6
  <2> QED BY ONLY <2>1 DEF Upto
<1>13. ASSUME NEW k \in 0..(n - 1), Upto(w, m + k) = FlattenSeq(g) \o Upto(h, k)
       PROVE  Upto(w, m + (k + 1)) = FlattenSeq(g) \o Upto(h, k + 1)
  <2>1. Upto(w, m + (k + 1)) = Upto(w, m + k) \o w[m + (k + 1)]
    <3>1. m + k \in 0..(N - 1) /\ (m + k) + 1 = m + (k + 1)
      BY ONLY <1>1, k \in 0..(n - 1) DEF N
    <3>2. Upto(w, (m + k) + 1) = Upto(w, m + k) \o w[(m + k) + 1]
      BY ONLY <1>10, <3>1
    <3> QED BY ONLY <3>1, <3>2
  <2>2. k + 1 \in 1..n /\ k \in 0..n
    BY ONLY <1>1, k \in 0..(n - 1)
  <2>3. w[m + (k + 1)] = h[k + 1]
    BY ONLY <1>7, <2>2
  <2>4. h[k + 1] \in Seq(S)
    BY ONLY <1>3, <2>2
  <2>5. Upto(h, k) \in Seq(S)
    BY ONLY <1>11, <2>2
  <2>6. Upto(h, k + 1) = Upto(h, k) \o h[k + 1]
    BY ONLY <1>11, k \in 0..(n - 1)
  <2>7. (FlattenSeq(g) \o Upto(h, k)) \o h[k + 1] = FlattenSeq(g) \o (Upto(h, k) \o h[k + 1])
    <3> DEFINE a == FlattenSeq(g)
               b == Upto(h, k)
               c == h[k + 1]
    <3>1. a \in Seq(S) /\ b \in Seq(S) /\ c \in Seq(S)
      BY ONLY <1>9, <2>4, <2>5
    <3> HIDE DEF a, b, c
    <3>2. (a \o b) \o c = a \o (b \o c)
      BY ONLY <3>1, ConcatAssociative, SMTT(40)
    <3> QED BY ONLY <3>2 DEF a, b, c
  <2> QED BY ONLY <1>13, <2>1, <2>3, <2>6, <2>7
<1>14. \A k \in 0..n : Upto(w, m + k) = FlattenSeq(g) \o Upto(h, k)
  <2> SUFFICES ASSUME NEW j \in 0..n, Upto(w, m + j) # FlattenSeq(g) \o Upto(h, j) PROVE FALSE
    OBVIOUS
  <2> DEFINE Bad == {k \in 0..n : Upto(w, m + k) # FlattenSeq(g) \o Upto(h, k)}
  <2>1. PICK k \in Bad : \A y \in Bad : k <= y
    <3>1. Bad \in SUBSET Nat
      BY ONLY <1>1
    <3>2. Bad # {}
      OBVIOUS
    <3> HIDE DEF Bad
    <3> QED BY ONLY <3>1, <3>2, LeastNat
  <2>2. k # 0
    <3>1. m + 0 = m
      BY ONLY <1>1
    <3>2. FlattenSeq(g) \o Upto(h, 0) = FlattenSeq(g)
      BY ONLY <1>9, <1>11, ConcatEmptySeq
    <3>3. Upto(w, m + 0) = FlattenSeq(g) \o Upto(h, 0)
      BY ONLY <1>12, <3>1, <3>2
    <3> QED BY <3>3
  <2>3. k \in 0..n
    OBVIOUS
  <2>4. k - 1 \in 0..(n - 1) /\ k - 1 \in 0..n /\ ~(k <= k - 1) /\ (k - 1) + 1 = k
    BY ONLY <1>1, <2>2, <2>3
  <2>5. Upto(w, m + (k - 1)) = FlattenSeq(g) \o Upto(h, k - 1)
    BY ONLY <2>1, <2>4
  <2>6. Upto(w, m + ((k - 1) + 1)) = FlattenSeq(g) \o Upto(h, (k - 1) + 1)
    BY ONLY <1>13, <2>4, <2>5
  <2> QED BY <2>4, <2>6
<1>15. FlattenSeq(w) = FlattenSeq(g) \o FlattenSeq(h)
  BY ONLY <1>1, <1>10, <1>11, <1>14, n \in 0..n DEF N
<1>16. FlattenSeq(h) \in Seq(S)
  BY ONLY <1>1, <1>11, n \in 0..n
<1> QED BY <1>9, <1>15, <1>16 DEF w

LEMMA FlattenOne ==
  ASSUME NEW S, NEW x \in Seq(S)
  PROVE  FlattenSeq(<<x>>) = x
<1> DEFINE g == <<x>>
<1>1. g \in [1..1 -> Seq(S)] /\ g[1] = x
  OBVIOUS
<1> HIDE DEF g
<1>2. Upto(g, 1) = FlattenSeq(g) /\ Upto(g, 0) = <<>>
  BY ONLY <1>1, 1 \in Nat, UptoStep
<1>3. Upto(g, 0 + 1) = Upto(g, 0) \o g[0 + 1]
  BY ONLY <1>1, 1 \in Nat, 0 \in 0..(1 - 1), UptoStep
<1>4. 0 + 1 = 1
  OBVIOUS
<1>5. <<>> \o x = x
  BY ONLY x \in Seq(S), ConcatEmptySeq
<1>6. FlattenSeq(g) = <<>> \o x
  BY ONLY <1>1, <1>2, <1>3, <1>4
<1> QED BY ONLY <1>5, <1>6 DEF g

LEMMA FlattenCons ==
  ASSUME NEW S, NEW x \in Seq(S), NEW g \in Seq(Seq(S))
  PROVE  FlattenSeq(<<x>> \o g) = x \o FlattenSeq(g) /\ FlattenSeq(g) \in Seq(S)
<1> DEFINE h == <<x>>
<1>1. h \in Seq(Seq(S)) /\ FlattenSeq(h) = x
  BY FlattenOne
<1> HIDE DEF h
<1>2. FlattenSeq(h \o g) = FlattenSeq(h) \o FlattenSeq(g) /\ FlattenSeq(g) \in Seq(S)
  BY ONLY <1>1, g \in Seq(Seq(S)), FlattenConcat
<1> QED BY ONLY <1>1, <1>2 DEF h

(* Single characters laid end to end are the text they are taken from.     *)
LEMMA FlattenSingles ==
  ASSUME NEW S, NEW m \in Seq(S)
  PROVE  FlattenSeq([i \in 1..Len(m) |-> <<m[i]>>]) = m
<1> DEFINE n == Len(m)
           g == [i \in 1..n |-> <<m[i]>>]
<1>1. n \in Nat /\ m \in [1..n -> S]
  BY LenProperties
<1> HIDE DEF n
<1>2. g \in [1..n -> Seq(S)] /\ \A i \in 1..n : g[i] = <<m[i]>>
  BY <1>1
<1>0. \A i \in 1..n : m[i] \in S
  BY ONLY <1>1
<1> HIDE DEF g
<1>3. /\ Upto(g, 0) = <<>> /\ Upto(g, n) = FlattenSeq(g)
      /\ \A k \in 0..n : Upto(g, k) \in Seq(S)
      /\ \A k \in 0..(n - 1) : Upto(g, k + 1) = Upto(g, k) \o g[k + 1]
  BY ONLY <1>1, <1>2, UptoStep
<1> DEFINE P(k) == Len(Upto(g, k)) = k /\ \A i \in 1..k : Upto(g, k)[i] = m[i]
<1>4. P(0)
  BY ONLY <1>3
<1>5. ASSUME NEW k \in 0..(n - 1), P(k) PROVE P(k + 1)
  <2>1. k + 1 \in 1..n /\ k \in 0..n /\ k \in Nat
    BY ONLY <1>1, k \in 0..(n - 1)
  <2>2. Upto(g, k + 1) = Upto(g, k) \o <<m[k + 1]>> /\ Upto(g, k) \in Seq(S)
    BY ONLY <1>2, <1>3, <2>1, k \in 0..(n - 1)
  <2> DEFINE a == Upto(g, k)
             c == m[k + 1]
  <2>3. a \in Seq(S) /\ Len(a) = k /\ c \in S /\ \A i \in 1..k : a[i] = m[i]
    BY ONLY <1>0, <1>5, <2>1, <2>2
  <2> HIDE DEF a, c
  <2>4. Len(a \o <<c>>) = k + 1 /\ \A i \in 1..(k + 1) : (a \o <<c>>)[i] = IF i <= k THEN a[i] ELSE c
    BY ONLY <2>1, <2>3
  <2>5. \A i \in 1..(k + 1) : (a \o <<c>>)[i] = m[i]
    BY ONLY <2>1, <2>3, <2>4 DEF c
  <2> QED BY ONLY <2>2, <2>4, <2>5 DEF a, c
<1>6. \A k \in 0..n : P(k)
  <2> SUFFICES ASSUME NEW j \in 0..n, ~P(j) PROVE FALSE
    OBVIOUS
  <2> HIDE DEF P
  <2> DEFINE Bad == {k \in 0..n : ~P(k)}
  <2>1. PICK k \in Bad : \A y \in Bad : k <= y
    <3>1. Bad \in SUBSET Nat /\ Bad # {}
      BY ONLY <1>1, j \in 0..n, ~P(j)
    <3> HIDE DEF Bad
    <3> QED BY ONLY <3>1, LeastNat
  <2>2. k \in 0..n /\ ~P(k) /\ k # 0
    BY <1>4
  <2>3. k - 1 \in 0..(n - 1) /\ k - 1 \in 0..n /\ ~(k <= k - 1) /\ (k - 1) + 1 = k
    BY ONLY <1>1, <2>2
  <2>4. P(k - 1)
    BY ONLY <2>1, <2>3
  <2>5. P((k - 1) + 1)
    BY ONLY <1>5, <2>3, <2>4
  <2> QED BY ONLY <2>2, <2>3, <2>5
<1>7. Len(Upto(g, n)) = n /\ \A i \in 1..n : Upto(g, n)[i] = m[i]
  BY ONLY <1>1, <1>6, n \in 0..n
<1>8. FlattenSeq(g) = m
  <2> DEFINE a == FlattenSeq(g)
  <2>1. a \in Seq(S) /\ Len(a) = Len(m) /\ \A i \in 1..Len(a) : a[i] = m[i]
    BY ONLY <1>1, <1>3, <1>7, n \in 0..n DEF n
  <2> HIDE DEF a
  <2>2. a = m
    BY ONLY <2>1, m \in Seq(S), SeqEqual
  <2> QED BY ONLY <2>2 DEF a
<1> QED BY ONLY <1>8 DEF g, n

(* Where the parts of a text lie in it.                                    *)
After(g, n, k) == FlattenSeq([i \in 1..(n - k) |-> g[k + i]])

LEMMA UptoRest ==
  ASSUME NEW S, NEW n \in Nat, NEW g, g \in [1..n -> Seq(S)]
  PROVE  \A k \in 0..n : FlattenSeq(g) = Upto(g, k) \o After(g, n, k) /\ After(g, n, k) \in Seq(S)
<1> TAKE k \in 0..n
<1> DEFINE a == [i \in 1..k |-> g[i]]
           b == [i \in 1..(n - k) |-> g[k + i]]
<1>1. a \in Seq(Seq(S)) /\ b \in Seq(Seq(S)) /\ Len(a) = k /\ Len(b) = n - k
  OBVIOUS
<1>2. /\ \A i \in 1..k : a[i] = g[i]
      /\ \A i \in 1..(n - k) : b[i] = g[k + i]
  OBVIOUS
<1> HIDE DEF a, b
<1>3. a \o b = g
  <2>1. /\ a \o b \in Seq(Seq(S)) /\ Len(a \o b) = n
        /\ \A i \in 1..n : (a \o b)[i] = IF i <= k THEN a[i] ELSE b[i - k]
    <3>1. /\ a \o b \in Seq(Seq(S)) /\ Len(a \o b) = Len(a) + Len(b)
          /\ \A i \in 1..(Len(a) + Len(b)) : (a \o b)[i] = IF i <= Len(a) THEN a[i] ELSE b[i - Len(a)]
      BY ONLY <1>1, ConcatProperties
    <3>2. Len(a) + Len(b) = n
      BY <1>1
    <3> QED BY ONLY <1>1, <3>1, <3>2
  <2>2. \A i \in 1..n : (a \o b)[i] = g[i]
    <3> TAKE i \in 1..n
    <3>1. CASE i <= k
      BY <1>2, <2>1, <3>1, SMTT(40)
    <3>2. CASE ~(i <= k)
      <4>1. i - k \in 1..(n - k) /\ k + (i - k) = i
        BY <3>2
      <4> QED BY ONLY <1>2, <2>1, <3>2, <4>1, i \in 1..n
    <3> QED BY <3>1, <3>2
  <2>3. a \o b \in [1..n -> Seq(S)]
    BY ONLY <2>1, LenProperties
  <2> QED BY ONLY <2>2, <2>3, g \in [1..n -> Seq(S)], SMTT(40)
<1>4. FlattenSeq(a \o b) = FlattenSeq(a) \o FlattenSeq(b) /\ FlattenSeq(b) \in Seq(S)
  BY ONLY <1>1, FlattenConcat
<1>5. Upto(g, k) = FlattenSeq(a) /\ After(g, n, k) = FlattenSeq(b)
  BY DEF Upto, After, a, b
<1> QED BY ONLY <1>3, <1>4, <1>5

LEMMA PrefixOf ==
  ASSUME NEW S, NEW s \in Seq(S), NEW t \in Seq(S)
  PROVE  IsPrefix(s, s \o t) /\ Len(s) <= Len(s \o t)
<1> DEFINE w == s \o t
<1>1. w \in Seq(S) /\ Len(s) \in Nat /\ Len(s) <= Len(w) /\ \A i \in 1..Len(s) : w[i] = s[i]
  OBVIOUS
<1> HIDE DEF w
<1>2. SubSeq(s, 1, Len(s)) = SubSeq(w, 1, Len(s))
  BY <1>1
<1> QED BY <1>1, <1>2 DEF IsPrefix, w

(* Where what is laid after the first k pieces is in the whole.            *)
Located(g, k) ==
  /\ Len(Upto(g, k)) \in Nat
  /\ Len(Upto(g, k + 1)) = Len(Upto(g, k)) + Len(g[k + 1])
  /\ Len(Upto(g, k + 1)) <= Len(FlattenSeq(g))
  /\ \A j \in 1..Len(g[k + 1]) : FlattenSeq(g)[Len(Upto(g, k)) + j] = g[k + 1][j]

LEMMA UptoAt ==
  ASSUME NEW S, NEW n \in Nat, NEW g, g \in [1..n -> Seq(S)]
  PROVE  \A k \in 0..(n - 1) : Located(g, k)
<1> TAKE k \in 0..(n - 1)
<1> USE DEF Located
<1>1. k + 1 \in 0..n /\ k + 1 \in 1..n /\ k \in 0..n
  OBVIOUS
<1>2. Upto(g, k) \in Seq(S) /\ Upto(g, k + 1) \in Seq(S) /\ Upto(g, k + 1) = Upto(g, k) \o g[k + 1]
  BY ONLY <1>1, n \in Nat, g \in [1..n -> Seq(S)], k \in 0..(n - 1), UptoStep
<1> DEFINE r == After(g, n, k + 1)
<1>3. r \in Seq(S) /\ FlattenSeq(g) = Upto(g, k + 1) \o r
  BY ONLY <1>1, n \in Nat, g \in [1..n -> Seq(S)], UptoRest, ZenonT(60)
<1>4. g[k + 1] \in Seq(S)
  BY ONLY <1>1, g \in [1..n -> Seq(S)]
<1> DEFINE a == Upto(g, k)
           x == g[k + 1]
           f == FlattenSeq(g)
<1>5. a \in Seq(S) /\ x \in Seq(S) /\ r \in Seq(S) /\ f = (a \o x) \o r
  BY ONLY <1>2, <1>3, <1>4
<1>6. Upto(g, k + 1) = a \o x
  BY ONLY <1>2
<1> HIDE DEF a, x, f, r
<1>7. /\ Len(a) \in Nat /\ Len(a \o x) = Len(a) + Len(x) /\ a \o x \in Seq(S)
      /\ \A j \in 1..Len(x) : (a \o x)[Len(a) + j] = x[j] /\ Len(a) + j \in 1..Len(a \o x)
  BY ONLY <1>5
<1> DEFINE y == a \o x
<1>8. Len(y) <= Len(f) /\ \A i \in 1..Len(y) : f[i] = y[i]
  <2>1. y \in Seq(S) /\ f = y \o r
    BY ONLY <1>5, <1>7
  <2>2. r \in Seq(S)
    BY ONLY <1>5
  <2> HIDE DEF y
  <2>3. \A i \in 1..Len(y) : (y \o r)[i] = y[i]
    BY ONLY <2>1, <2>2
  <2>4. Len(y \o r) = Len(y) + Len(r) /\ Len(y) \in Nat /\ Len(r) \in Nat
    BY ONLY <2>1, <2>2
  <2> QED BY ONLY <2>1, <2>3, <2>4
<1>9. \A j \in 1..Len(x) : f[Len(a) + j] = x[j]
  BY ONLY <1>7, <1>8
<1> QED BY ONLY <1>6, <1>7, <1>8, <1>9 DEF a, x, f

-----------------------------------------------------------------------------
(* Powers and numerals *)

(* The recursive function in the definition of Power.                      *)
Powers(b, k, p) == p = [i \in 0..k |-> IF i = 0 THEN 1 ELSE b * p[i - 1]]

LEMMA PowersExist ==
  ASSUME NEW b \in Nat, NEW n \in Nat
  PROVE  \E p : Powers(b, n, p)
<1> SUFFICES ASSUME ~\E p : Powers(b, n, p) PROVE FALSE
  OBVIOUS
<1> DEFINE Bad == {k \in Nat : ~\E p : Powers(b, k, p)}
<1>1. PICK k \in Bad : \A y \in Bad : k <= y
  BY LeastNat
<1>2. k # 0
  <2> DEFINE p == [i \in 0..0 |-> 1]
  <2>1. Powers(b, 0, p)
    BY DEF Powers
  <2> QED BY <2>1
<1>3. PICK p : Powers(b, k - 1, p)
  <2>1. k - 1 \in Nat /\ k - 1 \notin Bad
    BY <1>1, <1>2
  <2> QED BY <2>1
<1> DEFINE h == [i \in 0..k |-> IF i = k THEN b * p[k - 1] ELSE p[i]]
<1>4. Powers(b, k, h)
  <2>1. \A i \in 0..(k - 1) : p[i] = IF i = 0 THEN 1 ELSE b * p[i - 1]
    BY <1>3 DEF Powers
  <2>2. \A i \in 0..k : h[i] = IF i = 0 THEN 1 ELSE b * h[i - 1]
    BY <1>1, <1>2, <2>1
  <2> QED BY <2>2 DEF Powers
<1> QED BY <1>1, <1>4

LEMMA PowersUnique ==
  ASSUME NEW b \in Nat, NEW m \in Nat, NEW n \in Nat, m <= n, NEW p, NEW q,
         Powers(b, m, p), Powers(b, n, q)
  PROVE  \A i \in 0..m : p[i] = q[i]
<1> SUFFICES ASSUME ~\A i \in 0..m : p[i] = q[i] PROVE FALSE
  OBVIOUS
<1> DEFINE Bad == {i \in 0..m : p[i] # q[i]}
<1>1. PICK k \in Bad : \A y \in Bad : k <= y
  BY LeastNat, Bad \in SUBSET Nat, Bad # {}
<1>2. /\ p[k] = IF k = 0 THEN 1 ELSE b * p[k - 1]
      /\ q[k] = IF k = 0 THEN 1 ELSE b * q[k - 1]
  BY k \in 0..m, k \in 0..n DEF Powers
<1>3. k # 0 => p[k - 1] = q[k - 1]
  BY <1>1
<1> QED BY <1>1, <1>2, <1>3

LEMMA PowerDef ==
  ASSUME NEW b \in Nat, NEW k \in Nat
  PROVE  \E p : Powers(b, k, p) /\ Power(b, k) = p[k]
<1> DEFINE p == CHOOSE p : p = [i \in 0..k |-> IF i = 0 THEN 1 ELSE b * p[i - 1]]
<1>1. Powers(b, k, p)
  BY PowersExist DEF Powers
<1>2. Power(b, k) = p[k]
  BY DEF Power
<1> QED BY <1>1, <1>2

LEMMA PowerZero ==
  ASSUME NEW b \in Nat
  PROVE  Power(b, 0) = 1
<1>1. PICK p : Powers(b, 0, p) /\ Power(b, 0) = p[0]
  BY PowerDef
<1> QED BY <1>1 DEF Powers

LEMMA PowerStep ==
  ASSUME NEW b \in Nat, NEW k \in Nat, k >= 1
  PROVE  Power(b, k) = b * Power(b, k - 1)
<1>1. PICK p : Powers(b, k, p) /\ Power(b, k) = p[k]
  BY PowerDef
<1>2. k - 1 \in Nat /\ k - 1 <= k
  OBVIOUS
<1>3. PICK q : Powers(b, k - 1, q) /\ Power(b, k - 1) = q[k - 1]
  BY <1>2, PowerDef
<1>4. \A i \in 0..(k - 1) : q[i] = p[i]
  <2> DEFINE j == k - 1
  <2>1. j \in Nat /\ j <= k /\ Powers(b, j, q)
    BY <1>2, <1>3
  <2> HIDE DEF j
  <2>2. \A i \in 0..j : q[i] = p[i]
    BY ONLY <1>1, <2>1, b \in Nat, k \in Nat, PowersUnique
  <2> QED BY <2>2 DEF j
<1>5. p[k] = b * p[k - 1]
  BY <1>1 DEF Powers
<1> QED BY <1>1, <1>2, <1>3, <1>4, <1>5, k - 1 \in 0..(k - 1)

(* Powers grow, and those of a larger base faster.                         *)
LEMMA PowerPos ==
  ASSUME NEW b \in Nat, b >= 2, NEW k \in Nat
  PROVE  Power(b, k) \in Nat /\ Power(b, k) >= 1 /\ Power(2, k) <= Power(b, k) /\ Power(2, k) \in Nat
<1> DEFINE P(j) == /\ Power(b, j) \in Nat /\ Power(b, j) >= 1
                   /\ Power(2, j) <= Power(b, j) /\ Power(2, j) \in Nat
<1> SUFFICES ASSUME ~P(k) PROVE FALSE
  OBVIOUS
<1> DEFINE Bad == {j \in Nat : ~P(j)}
<1>1. PICK j \in Bad : \A y \in Bad : j <= y
  <2>1. Bad \in SUBSET Nat /\ Bad # {}
    OBVIOUS
  <2> HIDE DEF Bad
  <2> QED BY ONLY <2>1, LeastNat
<1>2. j # 0
  <2>1. P(0)
    BY PowerZero, 2 \in Nat
  <2> QED BY <2>1
<1>3. j \in Nat /\ j >= 1 /\ j - 1 \in Nat /\ ~(j <= j - 1) /\ ~P(j)
  BY <1>2
<1>4. P(j - 1)
  <2> HIDE DEF P
  <2> QED BY <1>1, <1>3
<1>5. Power(b, j) = b * Power(b, j - 1) /\ Power(2, j) = 2 * Power(2, j - 1)
  BY ONLY <1>3, PowerStep, b \in Nat, 2 \in Nat
<1> DEFINE x == Power(b, j - 1)
           y == Power(2, j - 1)
<1>6. x \in Nat /\ x >= 1 /\ y <= x /\ y \in Nat
  BY ONLY <1>4
<1> HIDE DEF x, y
<1>7. b * x \in Nat /\ b * x >= 2 * x /\ 2 * x >= 2 * y
  <2>1. 2 * x <= b * x
    BY ONLY <1>6, MulMono, 2 \in Nat, b \in Nat, b >= 2, 2 <= b
  <2>2. b * x \in Nat
    BY ONLY <1>6, b \in Nat
  <2> QED BY ONLY <1>6, <2>1, <2>2
<1>8. P(j)
  BY ONLY <1>5, <1>6, <1>7 DEF x, y
<1> QED BY <1>3, <1>8

LEMMA PowerMono ==
  ASSUME NEW b \in Nat, b >= 2, NEW k \in Nat, NEW l \in Nat, k <= l
  PROVE  Power(b, k) <= Power(b, l)
<1> DEFINE Bad == {j \in Nat : k <= j /\ ~(Power(b, k) <= Power(b, j))}
<1> SUFFICES ASSUME ~(Power(b, k) <= Power(b, l)) PROVE FALSE
  OBVIOUS
<1>1. PICK j \in Bad : \A y \in Bad : j <= y
  <2>1. Bad \in SUBSET Nat /\ Bad # {}
    OBVIOUS
  <2> HIDE DEF Bad
  <2> QED BY ONLY <2>1, LeastNat
<1>2. j # k
  <2>1. Power(b, k) \in Nat
    BY PowerPos
  <2> QED BY <2>1
<1>3. j \in Nat /\ j >= 1 /\ j - 1 \in Nat /\ k <= j - 1 /\ ~(j <= j - 1)
  BY <1>2
<1>4. Power(b, k) <= Power(b, j - 1)
  BY <1>1, <1>3
<1>5. Power(b, j) = b * Power(b, j - 1) /\ Power(b, j - 1) \in Nat /\ Power(b, k) \in Nat
  BY ONLY <1>3, PowerStep, PowerPos, b \in Nat, b >= 2, k \in Nat
<1> DEFINE x == Power(b, j - 1)
<1>6. x \in Nat /\ Power(b, j) = b * x
  BY ONLY <1>5
<1> HIDE DEF x
<1>7. b * x >= x
  BY ONLY <1>6, b \in Nat, b >= 2
<1>8. Power(b, k) <= Power(b, j)
  BY ONLY <1>4, <1>5, <1>6, <1>7 DEF x
<1> QED BY <1>8

LEMMA Consts ==
  /\ WIDTH \in Nat /\ WIDTH > 512 /\ Half \in Nat /\ WIDTH = 2 * Half /\ Half > 256
  /\ KB \in Nat /\ KB >= 2 /\ THOUSAND \in Nat /\ THOUSAND >= 1
  /\ MaxNested \in Nat /\ Power(2, MaxNested) > WIDTH
  /\ Columns \in Nat /\ MaxCalls \in Nat /\ MaxInterrupts \in Nat
<1>1. WIDTH \in Nat /\ WIDTH % 2 = 0 /\ WIDTH > 512
  BY OutputAssumption
<1>2. Half \in Nat /\ WIDTH = 2 * Half /\ Half > 256
  BY <1>1 DEF Half
<1> QED BY <1>1, <1>2, OutputAssumption

LEMMA BasesOK ==
  ASSUME NEW d \in Bases
  PROVE  /\ d \in Seq(0..255) /\ d \in Seq(Int)
         /\ Len(d) \in {2, 8, 10, 16} /\ Len(d) \in Nat /\ Len(d) >= 2 /\ d[1] = 48
<1>1. d \in {BIN, OCT, DEC, HEX_LOWER, HEX_UPPER}
  BY DEF Bases
<1>2. CASE d = BIN
  BY <1>2 DEF BIN
<1>3. CASE d = OCT
  BY <1>3 DEF OCT
<1>4. CASE d = DEC
  BY <1>4 DEF DEC
<1>5. CASE d = HEX_LOWER
  BY <1>5 DEF HEX_LOWER
<1>6. CASE d = HEX_UPPER
  BY <1>6 DEF HEX_UPPER
<1> QED BY ONLY <1>1, <1>2, <1>3, <1>4, <1>5, <1>6

(* The digits of a word: there are some k, and only one k.                 *)
LEMMA DigitsExist ==
  ASSUME NEW b \in Nat, b >= 2, NEW n \in 0..WIDTH
  PROVE  LET k == NumDigits(n, b)
         IN k \in 0..MaxNested /\ Power(b, k) > n /\ (k = 0 \/ Power(b, k - 1) <= n)
<1> DEFINE Q(k) == Power(b, k) > n /\ (k = 0 \/ Power(b, k - 1) <= n)
           Big == {k \in Nat : Power(b, k) > n}
<1>0. n \in Nat
  BY Consts
<1>1. MaxNested \in Big
  <2>1. /\ MaxNested \in Nat /\ Power(2, MaxNested) > WIDTH /\ WIDTH \in Nat
        /\ Power(b, MaxNested) \in Nat /\ Power(2, MaxNested) \in Nat
        /\ Power(2, MaxNested) <= Power(b, MaxNested)
    BY Consts, PowerPos, SMTT(40)
  <2> QED BY ONLY <2>1, n \in 0..WIDTH
<1>2. PICK k \in Big : \A y \in Big : k <= y
  <2>1. Big \in SUBSET Nat /\ Big # {}
    BY <1>1
  <2> HIDE DEF Big
  <2> QED BY ONLY <2>1, LeastNat
<1>3. k \in 0..MaxNested
  <2>1. k <= MaxNested
    BY ONLY <1>1, <1>2
  <2> QED BY ONLY <2>1, k \in Nat, Consts
<1>4. Q(k)
  <2>1. CASE k = 0
    BY <1>2, <2>1
  <2>2. CASE k # 0
    <3>1. k - 1 \in Nat /\ ~(k <= k - 1)
      BY <2>2
    <3>2. k - 1 \notin Big
      BY ONLY <1>2, <3>1
    <3>3. Power(b, k - 1) \in Nat
      BY <3>1, PowerPos
    <3> QED BY <1>0, <1>2, <3>1, <3>2, <3>3
  <2> QED BY <2>1, <2>2
<1>5. \E j \in 0..MaxNested : Q(j)
  BY ONLY <1>3, <1>4
<1>6. NumDigits(n, b) = CHOOSE j \in 0..MaxNested : Q(j)
  BY DEF NumDigits
<1> HIDE DEF Q
<1>7. NumDigits(n, b) \in 0..MaxNested /\ Q(NumDigits(n, b))
  BY ONLY <1>5, <1>6
<1> QED BY <1>7 DEF Q

LEMMA DigitsUnique ==
  ASSUME NEW b \in Nat, b >= 2, NEW n \in Nat, NEW k \in Nat, NEW l \in Nat,
         Power(b, k) > n, k = 0 \/ Power(b, k - 1) <= n,
         Power(b, l) > n, l = 0 \/ Power(b, l - 1) <= n
  PROVE  k = l
<1>1. ASSUME NEW i \in Nat, NEW j \in Nat, Power(b, i) > n, j = 0 \/ Power(b, j - 1) <= n
      PROVE  ~(i < j)
  <2> SUFFICES ASSUME i < j PROVE FALSE
    OBVIOUS
  <2>1. j # 0 /\ j - 1 \in Nat /\ i <= j - 1
    OBVIOUS
  <2>2. Power(b, i) <= Power(b, j - 1) /\ Power(b, i) \in Nat /\ Power(b, j - 1) \in Nat
    BY <2>1, PowerMono, PowerPos
  <2> QED BY <1>1, <2>1, <2>2
<1>2. ~(k < l) /\ ~(l < k)
  BY <1>1
<1> QED BY <1>2

LEMMA DigitsStep ==
  ASSUME NEW b \in Nat, b >= 2, NEW n \in 1..WIDTH
  PROVE  /\ n \div b \in 0..WIDTH /\ n \div b < n /\ NumDigits(n, b) >= 1
         /\ NumDigits(n \div b, b) = NumDigits(n, b) - 1
<1> DEFINE q == n \div b
           k == NumDigits(n, b)
           l == NumDigits(q, b)
<1>1. n \in Nat /\ n \in 0..WIDTH /\ WIDTH \in Nat
  BY Consts
<1>2. q \in Nat /\ n % b \in 0..(b - 1) /\ n = q * b + (n % b)
  BY ONLY <1>1, b \in Nat, b >= 2, b >= 1, DivMod
<1> HIDE DEF q
<1>3. q < n
  <2>1. q * b >= 2 * q
    BY <1>2
  <2> QED BY <1>1, <1>2, <2>1
<1>4. q \in 0..WIDTH
  BY <1>1, <1>2, <1>3
<1>5. k \in 0..MaxNested /\ Power(b, k) > n /\ (k = 0 \/ Power(b, k - 1) <= n)
  BY <1>1, DigitsExist
<1>6. l \in 0..MaxNested /\ Power(b, l) > q /\ (l = 0 \/ Power(b, l - 1) <= q)
  BY <1>4, DigitsExist
<1> HIDE DEF k, l
<1>7. k # 0
  BY <1>1, <1>5, PowerZero
<1>8. k - 1 \in Nat /\ l \in Nat /\ k \in Nat /\ k >= 1
  BY <1>5, <1>6, <1>7, Consts
<1>9. Power(b, k - 1) > q
  <2>1. Power(b, k) = b * Power(b, k - 1) /\ Power(b, k - 1) \in Nat
    BY <1>8, PowerStep, PowerPos
  <2> DEFINE x == Power(b, k - 1)
  <2>2. x \in Nat /\ b * x > n
    BY <1>5, <2>1
  <2> HIDE DEF x
  <2>3. x <= q => x * b <= q * b
    BY ONLY <1>2, <2>2, b \in Nat, b >= 2, b >= 1, MulMono
  <2>4. x > q
    BY ONLY <1>1, <1>2, <2>2, <2>3, b \in Nat, b >= 2
  <2> QED BY <2>4 DEF x
<1>10. k - 1 = 0 \/ Power(b, (k - 1) - 1) <= q
  <2> SUFFICES ASSUME k - 1 # 0 PROVE Power(b, (k - 1) - 1) <= q
    OBVIOUS
  <2>1. (k - 1) - 1 \in Nat /\ k - 1 >= 1
    BY <1>8
  <2> DEFINE x == Power(b, (k - 1) - 1)
  <2>2. Power(b, k - 1) = b * x /\ x \in Nat
    BY <1>8, <2>1, PowerStep, PowerPos
  <2> HIDE DEF x
  <2>3. x * b \in Nat /\ x * b = b * x /\ b * x <= n
    BY <1>5, <1>7, <2>2
  <2>4. n >= x * b
    BY <1>1, <2>3
  <2>5. q >= x
    BY <1>1, <2>2, <2>4, DivLow DEF q
  <2> QED BY <1>2, <2>2, <2>5 DEF x
<1>11. k - 1 = l
  <2> DEFINE j == k - 1
  <2>1. j \in Nat /\ Power(b, j) > q /\ (j = 0 \/ Power(b, j - 1) <= q)
    BY <1>8, <1>9, <1>10
  <2> HIDE DEF j
  <2>2. j = l
    BY ONLY <1>2, <1>6, <1>8, <2>1, b \in Nat, b >= 2, DigitsUnique
  <2> QED BY <2>2 DEF j
<1> QED BY <1>3, <1>4, <1>8, <1>11 DEF q, k, l

LEMMA NumeralType ==
  ASSUME NEW S, NEW d \in Seq(S), Len(d) >= 2, NEW n \in 0..WIDTH
  PROVE  Numeral(n, d) \in Seq(S) /\ Len(Numeral(n, d)) = NumDigits(n, Len(d))
<1> DEFINE b == Len(d)
           k == NumDigits(n, b)
<1>1. b \in Nat /\ b >= 2 /\ d \in [1..b -> S]
  BY LenProperties
<1> HIDE DEF b
<1>2. k \in Nat
  <2>1. k \in 0..MaxNested
    BY ONLY <1>1, n \in 0..WIDTH, DigitsExist
  <2> QED BY ONLY <2>1, Consts
<1> HIDE DEF k
<1>3. \A i \in 1..k : d[((n \div Power(b, k - i)) % b) + 1] \in S
  <2> TAKE i \in 1..k
  <2> DEFINE x == Power(b, k - i)
  <2>1. x \in Nat /\ x >= 1
    BY ONLY <1>1, <1>2, k - i \in Nat, PowerPos
  <2> HIDE DEF x
  <2>2. n \div x \in Nat
    BY ONLY <2>1, n \in 0..WIDTH, Consts
  <2> DEFINE y == n \div x
  <2> HIDE DEF y
  <2>3. (y % b) + 1 \in 1..b
    BY ONLY <1>1, <2>2 DEF y
  <2> QED BY <1>1, <2>3 DEF x, y
<1>4. Numeral(n, d) = [i \in 1..k |-> d[((n \div Power(b, k - i)) % b) + 1]]
  BY DEF Numeral, Fixed, b, k
<1> DEFINE f == [i \in 1..k |-> d[((n \div Power(b, k - i)) % b) + 1]]
<1>5. f \in Seq(S) /\ Len(f) = k
  BY ONLY <1>2, <1>3
<1> QED BY ONLY <1>4, <1>5 DEF k, b

LEMMA NumeralZero ==
  ASSUME NEW d \in Seq(Int), Len(d) >= 2
  PROVE  Numeral(0, d) = <<>>
<1>1. Len(d) \in Nat /\ 0 \in 0..WIDTH
  BY Consts
<1>2. Power(Len(d), 0) = 1
  BY <1>1, PowerZero
<1>3. NumDigits(0, Len(d)) = 0
  <2> DEFINE b == Len(d)
             l == NumDigits(0, b)
  <2>1. l \in 0..MaxNested /\ Power(b, l) > 0 /\ (l = 0 \/ Power(b, l - 1) <= 0)
    BY <1>1, DigitsExist
  <2> HIDE DEF l
  <2>2. l # 0 => Power(b, l - 1) >= 1 /\ Power(b, l - 1) \in Nat
    BY <1>1, <2>1, PowerPos, Consts
  <2> QED BY <2>1, <2>2 DEF l
<1>4. Numeral(0, d) \in Seq(Int) /\ Len(Numeral(0, d)) = 0
  BY ONLY <1>1, <1>3, d \in Seq(Int), Len(d) >= 2, NumeralType
<1> QED BY ONLY <1>4, EmptySeq

(* The last digit is the remainder, the others are those of the quotient.  *)
LEMMA NumeralStep ==
  ASSUME NEW d \in Seq(Int), Len(d) >= 2, NEW n \in 1..WIDTH
  PROVE  Numeral(n, d) = Numeral(n \div Len(d), d) \o <<d[(n % Len(d)) + 1]>>
<1> DEFINE b == Len(d)
           q == n \div b
           k == NumDigits(n, b)
           l == NumDigits(q, b)
<1>1. b \in Nat /\ b >= 2 /\ b >= 1 /\ n \in Nat /\ n \in 0..WIDTH
  BY Consts, LenProperties
<1> HIDE DEF b
<1>2. q \in 0..WIDTH /\ q \in Nat
  <2>1. q \in 0..WIDTH
    BY ONLY <1>1, n \in 1..WIDTH, DigitsStep
  <2> QED BY ONLY <2>1, Consts
<1>3. k \in Nat /\ l \in Nat /\ k = l + 1
  <2>1. k \in 0..MaxNested
    BY ONLY <1>1, DigitsExist
  <2>2. l = k - 1 /\ k >= 1
    BY ONLY <1>1, n \in 1..WIDTH, DigitsStep
  <2> HIDE DEF k, l
  <2> QED BY ONLY <2>1, <2>2, Consts
<1>4. /\ Numeral(n, d) = [i \in 1..k |-> d[((n \div Power(b, k - i)) % b) + 1]]
      /\ Numeral(q, d) = [i \in 1..l |-> d[((q \div Power(b, l - i)) % b) + 1]]
  BY DEF Numeral, Fixed, b
<1>5. ASSUME NEW i \in 1..l PROVE n \div Power(b, k - i) = q \div Power(b, l - i)
  <2> HIDE DEF k, l
  <2>1. k - i \in Nat /\ k - i >= 1 /\ (k - i) - 1 = l - i /\ l - i \in Nat
    BY ONLY <1>3, i \in 1..l
  <2> DEFINE x == Power(b, l - i)
             e == k - i
  <2>2. Power(b, e) = b * x /\ x \in Nat /\ x >= 1
    <3>1. e \in Nat /\ e >= 1 /\ e - 1 = l - i
      BY ONLY <2>1
    <3> HIDE DEF e
    <3>2. Power(b, e) = b * Power(b, e - 1)
      BY ONLY <1>1, <3>1, PowerStep
    <3>3. x \in Nat /\ x >= 1
      BY ONLY <1>1, <2>1, PowerPos
    <3> QED BY ONLY <3>1, <3>2, <3>3
  <2> HIDE DEF x
  <2>3. n \div (b * x) = (n \div b) \div x
    BY ONLY <1>1, <2>2, TwoDigits
  <2> QED BY ONLY <2>2, <2>3 DEF x
<1>6. n \div Power(b, k - k) = n
  <2>1. Power(b, k - k) = 1
    <3>1. k - k = 0
      BY ONLY <1>3
    <3> QED BY ONLY <1>1, <3>1, PowerZero
  <2> QED BY ONLY <1>1, <2>1
<1> DEFINE a == Numeral(q, d)
           c == d[(n % b) + 1]
           w == Numeral(n, d)
<1>7. a \in Seq(Int) /\ Len(a) = l /\ w \in Seq(Int) /\ Len(w) = k
  BY ONLY <1>1, <1>2, d \in Seq(Int), Len(d) >= 2, NumeralType DEF b
<1>8. c \in Int
  <2>1. (n % b) + 1 \in 1..b
    BY ONLY <1>1
  <2> QED BY ONLY <2>1, d \in Seq(Int), ElementOfSeq DEF b
<1>9. \A i \in 1..l : w[i] = a[i]
  <2> TAKE i \in 1..l
  <2>1. i \in 1..k
    BY ONLY <1>3, i \in 1..l
  <2>2. w[i] = d[((n \div Power(b, k - i)) % b) + 1]
    BY ONLY <1>4, <2>1
  <2>3. a[i] = d[((q \div Power(b, l - i)) % b) + 1]
    BY ONLY <1>4, i \in 1..l
  <2> QED BY ONLY <1>5, <2>2, <2>3, i \in 1..l
<1>10. w[k] = c
  <2>1. k \in 1..k
    BY ONLY <1>3
  <2>2. w[k] = d[((n \div Power(b, k - k)) % b) + 1]
    BY ONLY <1>4, <2>1
  <2> QED BY ONLY <1>6, <2>2
<1> HIDE DEF a, c, w, k, l
<1>11. /\ a \o <<c>> \in Seq(Int) /\ Len(a \o <<c>>) = l + 1
       /\ \A i \in 1..(l + 1) : (a \o <<c>>)[i] = IF i <= l THEN a[i] ELSE c
  BY ONLY <1>3, <1>7, <1>8
<1>12. \A i \in 1..k : w[i] = (a \o <<c>>)[i]
  BY ONLY <1>3, <1>9, <1>10, <1>11
<1>13. w = a \o <<c>>
  <2> DEFINE v == a \o <<c>>
  <2>1. v \in Seq(Int) /\ Len(w) = Len(v) /\ w \in Seq(Int) /\ \A i \in 1..Len(w) : w[i] = v[i]
    BY ONLY <1>3, <1>7, <1>11, <1>12
  <2> HIDE DEF v
  <2>2. w = v
    BY ONLY <2>1, SeqEqual
  <2> QED BY ONLY <2>2 DEF v
<1> QED BY ONLY <1>13 DEF w, a, c, b

-----------------------------------------------------------------------------
(* What the functions that have still to print will print *)

LEMMA NumberType ==
  ASSUME NEW d \in Bases, NEW n \in (-WIDTH)..WIDTH
  PROVE  /\ Number(n, d) \in Seq(Int)
         /\ n = 0 => Number(n, d) = <<48>>
         /\ n > 0 => Number(n, d) = Numeral(n, d)
         /\ n < 0 => Number(n, d) = <<45>> \o Numeral(-n, d)
         /\ n >= 0 => Numeral(n, d) \in Seq(Int)
         /\ n < 0 => Numeral(-n, d) \in Seq(Int)
<1>1. d \in Seq(Int) /\ Len(d) >= 2
  BY BasesOK
<1>2. \A m \in 0..WIDTH : Numeral(m, d) \in Seq(Int)
  BY ONLY <1>1, NumeralType
<1>3. C.zero = 48 /\ C.minus = 45
  BY DEF C
<1>4. CASE n = 0
  <2>1. Number(n, d) = <<48>>
    BY ONLY <1>3, <1>4 DEF Number
  <2>2. n \in 0..WIDTH /\ ~(n > 0) /\ ~(n < 0)
    BY ONLY <1>4, Consts
  <2>3. <<48>> \in Seq(Int)
    OBVIOUS
  <2> QED BY ONLY <1>2, <1>4, <2>1, <2>2, <2>3
<1>5. CASE n > 0
  <2>1. n \in 0..WIDTH /\ n # 0 /\ ~(n < 0)
    BY ONLY <1>5, n \in (-WIDTH)..WIDTH, Consts
  <2>2. Number(n, d) = Numeral(n, d)
    BY ONLY <1>5, <2>1 DEF Number
  <2> QED BY ONLY <1>2, <2>1, <2>2
<1>6. CASE n < 0
  <2>1. -n \in 0..WIDTH /\ n # 0 /\ ~(n > 0) /\ ~(n >= 0)
    BY ONLY <1>6, n \in (-WIDTH)..WIDTH, Consts
  <2>2. Number(n, d) = <<45>> \o Numeral(-n, d)
    BY ONLY <1>3, <1>6, <2>1 DEF Number
  <2> DEFINE u == Numeral(-n, d)
  <2>3. u \in Seq(Int)
    BY ONLY <1>2, <2>1
  <2> HIDE DEF u
  <2>4. <<45>> \o u \in Seq(Int)
    BY ONLY <2>3
  <2> QED BY ONLY <2>1, <2>2, <2>3, <2>4 DEF u
<1> QED BY <1>4, <1>5, <1>6, Consts

LEMMA ShowType ==
  ASSUME NEW t \in Tasks
  PROVE  Show(t) \in Seq(Int)
<1>1. t \in Task /\ TaskOK(t)
  BY DEF Tasks
<1>2. CASE t.op \in {"kprintf_putchar", "uart_putchar"}
  <2>1. t.n \in Int /\ Show(t) = <<t.n>>
    BY <1>1, <1>2 DEF Show, Task
  <2> QED BY ONLY <2>1
<1>3. CASE t.op = "my_put_uint_base"
  <2>1. t.n \in 0..(WIDTH - 1) /\ t.base \in Bases /\ Show(t) = Numeral(t.n, t.base)
    BY <1>1, <1>3 DEF Show, TaskOK
  <2>2. t.n \in 0..WIDTH
    BY ONLY <2>1, Consts
  <2> QED BY ONLY <2>1, <2>2, BasesOK, NumeralType
<1>4. CASE t.op = "my_put_nbr_base"
  <2>1. t.n \in (-Half)..(Half - 1) /\ t.base \in Bases /\ Show(t) = Number(t.n, t.base)
    BY <1>1, <1>4 DEF Show, TaskOK
  <2>2. t.n \in (-WIDTH)..WIDTH
    BY ONLY <2>1, Consts
  <2> QED BY ONLY <2>1, <2>2, NumberType
<1>5. CASE t.op = "print_char_on_screen"
  BY <1>5, EmptySeq DEF Show
<1> QED BY <1>1, <1>2, <1>3, <1>4, <1>5 DEF Task, CharOps

LEMMA ShowConcat ==
  ASSUME NEW s \in Seq(Tasks), NEW t \in Seq(Tasks)
  PROVE  /\ ShowAll(s) \in Seq(Int) /\ ShowAll(t) \in Seq(Int)
         /\ ShowAll(s \o t) = ShowAll(s) \o ShowAll(t)
<1> DEFINE M(u) == [i \in 1..Len(u) |-> Show(u[i])]
<1>1. ASSUME NEW u \in Seq(Tasks) PROVE M(u) \in Seq(Seq(Int)) /\ Len(M(u)) = Len(u)
  <2>1. Len(u) \in Nat /\ \A i \in 1..Len(u) : u[i] \in Tasks
    BY ONLY u \in Seq(Tasks)
  <2>2. \A i \in 1..Len(u) : Show(u[i]) \in Seq(Int)
    BY ONLY <2>1, ShowType
  <2> QED BY ONLY <2>1, <2>2
<1>2. M(s \o t) = M(s) \o M(t)
  <2> DEFINE w == s \o t
  <2>1. /\ w \in Seq(Tasks) /\ Len(w) = Len(s) + Len(t) /\ Len(s) \in Nat /\ Len(t) \in Nat
        /\ \A i \in 1..Len(w) : w[i] = IF i <= Len(s) THEN s[i] ELSE t[i - Len(s)]
    BY ONLY s \in Seq(Tasks), t \in Seq(Tasks)
  <2>2. /\ M(s) \in Seq(Seq(Int)) /\ M(t) \in Seq(Seq(Int)) /\ M(w) \in Seq(Seq(Int))
        /\ Len(M(s)) = Len(s) /\ Len(M(t)) = Len(t) /\ Len(M(w)) = Len(w)
    BY ONLY <1>1, <2>1, s \in Seq(Tasks), t \in Seq(Tasks)
  <2>3. /\ \A i \in 1..Len(s) : M(s)[i] = Show(s[i])
        /\ \A i \in 1..Len(t) : M(t)[i] = Show(t[i])
        /\ \A i \in 1..Len(w) : M(w)[i] = Show(w[i])
    OBVIOUS
  <2> HIDE DEF w, M
  <2>4. /\ M(s) \o M(t) \in Seq(Seq(Int)) /\ Len(M(s) \o M(t)) = Len(w)
        /\ \A i \in 1..Len(w) : (M(s) \o M(t))[i] = IF i <= Len(s) THEN M(s)[i] ELSE M(t)[i - Len(s)]
    <3> DEFINE x == M(s)
               y == M(t)
    <3>1. /\ x \in Seq(Seq(Int)) /\ y \in Seq(Seq(Int))
          /\ Len(x) = Len(s) /\ Len(y) = Len(t)
      BY ONLY <2>2
    <3> HIDE DEF x, y
    <3>2. /\ x \o y \in Seq(Seq(Int)) /\ Len(x \o y) = Len(w)
          /\ \A i \in 1..Len(w) : (x \o y)[i] = IF i <= Len(s) THEN x[i] ELSE y[i - Len(s)]
      <4>1. /\ x \o y \in Seq(Seq(Int)) /\ Len(x \o y) = Len(x) + Len(y)
            /\ \A i \in 1..(Len(x) + Len(y)) : (x \o y)[i] = IF i <= Len(x) THEN x[i] ELSE y[i - Len(x)]
        BY ONLY <3>1, ConcatProperties
      <4> QED BY ONLY <2>1, <3>1, <4>1
    <3> QED BY ONLY <3>2 DEF x, y
  <2>5. \A i \in 1..Len(w) : (M(s) \o M(t))[i] = M(w)[i]
    <3> TAKE i \in 1..Len(w)
    <3>1. CASE i <= Len(s)
      <4>1. i \in 1..Len(s)
        BY ONLY <2>1, <3>1, i \in 1..Len(w)
      <4> QED BY ONLY <2>1, <2>3, <2>4, <3>1, <4>1, i \in 1..Len(w)
    <3>2. CASE ~(i <= Len(s))
      <4>1. i - Len(s) \in 1..Len(t)
        BY ONLY <2>1, <3>2, i \in 1..Len(w)
      <4> QED BY ONLY <2>1, <2>3, <2>4, <3>2, <4>1, i \in 1..Len(w)
    <3> QED BY ONLY <3>1, <3>2
  <2>6. M(w) = M(s) \o M(t)
    <3> DEFINE x == M(s) \o M(t)
               y == M(w)
    <3>1. x \in Seq(Seq(Int)) /\ y \in Seq(Seq(Int)) /\ Len(x) = Len(y) /\ \A i \in 1..Len(x) : x[i] = y[i]
      BY ONLY <2>2, <2>4, <2>5
    <3> HIDE DEF x, y
    <3>2. x = y
      BY ONLY <3>1, SeqEqual
    <3> QED BY ONLY <3>2 DEF x, y
  <2> QED BY ONLY <2>6 DEF w
<1>3. M(s) \in Seq(Seq(Int)) /\ M(t) \in Seq(Seq(Int))
  BY ONLY <1>1, s \in Seq(Tasks), t \in Seq(Tasks)
<1>4. \A u : ShowAll(u) = FlattenSeq(M(u))
  BY DEF ShowAll
<1> HIDE DEF M
<1>5. /\ FlattenSeq(M(s)) \in Seq(Int) /\ FlattenSeq(M(t)) \in Seq(Int)
      /\ FlattenSeq(M(s) \o M(t)) = FlattenSeq(M(s)) \o FlattenSeq(M(t))
  BY ONLY <1>3, FlattenConcat
<1> QED BY ONLY <1>2, <1>4, <1>5

LEMMA ShowOne ==
  ASSUME NEW t \in Tasks
  PROVE  ShowAll(<<t>>) = Show(t) /\ <<t>> \in Seq(Tasks)
<1> DEFINE s == <<t>>
<1>1. Len(s) = 1 /\ s[1] = t /\ s \in Seq(Tasks)
  OBVIOUS
<1> HIDE DEF s
<1>2. [i \in 1..Len(s) |-> Show(s[i])] = <<Show(t)>>
  BY <1>1
<1>3. FlattenSeq(<<Show(t)>>) = Show(t)
  BY ONLY ShowType, t \in Tasks, FlattenOne
<1>4. ShowAll(s) = Show(t)
  BY ONLY <1>2, <1>3 DEF ShowAll
<1> QED BY ONLY <1>1, <1>4 DEF s

LEMMA ShowEmpty == ShowAll(<<>>) = <<>>
<1>1. [i \in 1..Len(<<>>) |-> Show(<<>>[i])] = <<>>
  OBVIOUS
<1> QED BY ONLY <1>1, FlattenEmpty DEF ShowAll

LEMMA ShowHead ==
  ASSUME NEW s \in Seq(Tasks), s # <<>>
  PROVE  /\ Head(s) \in Tasks /\ Tail(s) \in Seq(Tasks) /\ ShowAll(Tail(s)) \in Seq(Int)
         /\ ShowAll(s) = Show(Head(s)) \o ShowAll(Tail(s))
<1> DEFINE h == Head(s)
           t == Tail(s)
<1>1. h \in Tasks /\ t \in Seq(Tasks) /\ s = <<h>> \o t
  OBVIOUS
<1> HIDE DEF h, t
<1>2. <<h>> \in Seq(Tasks) /\ ShowAll(<<h>>) = Show(h)
  BY ONLY <1>1, ShowOne
<1>3. ShowAll(<<h>> \o t) = ShowAll(<<h>>) \o ShowAll(t) /\ ShowAll(t) \in Seq(Int)
  BY ONLY <1>1, <1>2, ShowConcat
<1> QED BY ONLY <1>1, <1>2, <1>3 DEF h, t

LEMMA ChrTask ==
  ASSUME NEW c \in 0..255
  PROVE  Chr(c) \in Tasks /\ Show(Chr(c)) = <<c>> /\ Chr(c).op = "kprintf_putchar"
<1>1. Chr(c) \in Task /\ Chr(c).op = "kprintf_putchar" /\ Chr(c).n = c
  BY EmptySeq DEF Chr, Task, CharOps
<1>2. TaskOK(Chr(c))
  BY ONLY <1>1, c \in 0..255 DEF TaskOK
<1> QED BY ONLY <1>1, <1>2 DEF Tasks, Show

LEMMA NbrTask ==
  ASSUME NEW n \in (-Half)..(Half - 1), NEW d \in Bases, NEW k \in Nat, k >= 1
  PROVE  /\ Nbr(n, d, k) \in Tasks /\ Show(Nbr(n, d, k)) = Number(n, d)
         /\ Nbr(n, d, k).op = "my_put_nbr_base" /\ Nbr(n, d, k).n = n /\ Nbr(n, d, k).nested = k
<1> DEFINE t == Nbr(n, d, k)
<1>1. n \in Int /\ d \in Seq(Int)
  BY Consts, BasesOK
<1>2. t \in Task /\ t.op = "my_put_nbr_base" /\ t.n = n /\ t.base = d /\ t.nested = k
  BY <1>1 DEF Nbr, Task
<1> HIDE DEF t
<1>3. TaskOK(t)
  BY ONLY <1>2, n \in (-Half)..(Half - 1), d \in Bases, k \in Nat, k >= 1 DEF TaskOK, CharOps
<1>4. Show(t) = Number(n, d)
  BY ONLY <1>2 DEF Show
<1> QED BY ONLY <1>2, <1>3, <1>4 DEF Tasks, t

LEMMA UIntTask ==
  ASSUME NEW n \in 0..(WIDTH - 1), NEW d \in Bases
  PROVE  /\ UInt(n, d) \in Tasks /\ Show(UInt(n, d)) = Numeral(n, d)
         /\ UInt(n, d).op = "my_put_uint_base"
<1> DEFINE t == UInt(n, d)
<1>1. n \in Int /\ d \in Seq(Int)
  BY Consts, BasesOK
<1>2. t \in Task /\ t.op = "my_put_uint_base" /\ t.n = n /\ t.base = d
  BY <1>1 DEF UInt, Task
<1> HIDE DEF t
<1>3. TaskOK(t)
  BY ONLY <1>2, n \in 0..(WIDTH - 1), d \in Bases DEF TaskOK, CharOps
<1>4. Show(t) = Numeral(n, d)
  BY ONLY <1>2 DEF Show
<1> QED BY ONLY <1>2, <1>3, <1>4 DEF Tasks, t

LEMMA CharsTasks ==
  ASSUME NEW s \in Seq(0..255)
  PROVE  /\ Chars(s) \in Seq(Tasks) /\ Len(Chars(s)) = Len(s)
         /\ ShowAll(Chars(s)) = s
         /\ \A i \in 1..Len(Chars(s)) : Chars(s)[i].op = "kprintf_putchar"
<1> DEFINE n == Len(s)
           w == [i \in 1..n |-> Chr(s[i])]
<1>1. n \in Nat /\ \A i \in 1..n : s[i] \in 0..255
  BY ONLY s \in Seq(0..255), LenProperties, ElementOfSeq, SMTT(40)
<1>2. \A i \in 1..n : Chr(s[i]) \in Tasks /\ Show(Chr(s[i])) = <<s[i]>> /\ Chr(s[i]).op = "kprintf_putchar"
  BY ONLY <1>1, ChrTask
<1>3. w \in Seq(Tasks) /\ Len(w) = n /\ \A i \in 1..n : w[i] = Chr(s[i])
  BY ONLY <1>1, <1>2
<1>4. Chars(s) = w
  BY DEF Chars
<1> HIDE DEF w
<1>5. [i \in 1..Len(w) |-> Show(w[i])] = [i \in 1..n |-> <<s[i]>>]
  BY ONLY <1>2, <1>3
<1>6. FlattenSeq([i \in 1..n |-> <<s[i]>>]) = s
  BY ONLY s \in Seq(0..255), FlattenSingles
<1>7. ShowAll(w) = s
  BY ONLY <1>5, <1>6 DEF ShowAll
<1> QED BY ONLY <1>2, <1>3, <1>4, <1>7

LEMMA PairTasks ==
  ASSUME NEW t \in Tasks, NEW u \in Tasks
  PROVE  /\ <<t, u>> \in Seq(Tasks) /\ ShowAll(<<t, u>>) = Show(t) \o Show(u)
         /\ t.op # "print_char_on_screen" /\ u.op # "print_char_on_screen" => NotScreen(<<t, u>>)
         /\ Shallow(t) /\ Shallow(u) => AllShallow(<<t, u>>)
<1>1. <<t, u>> = <<t>> \o <<u>> /\ <<t, u>> \in Seq(Tasks)
  <2>1. <<t, u>> \in Seq(Tasks)
    OBVIOUS
  <2> DEFINE w == <<t>> \o <<u>>
  <2>2. w \in Seq(Tasks) /\ Len(w) = 2 /\ w[1] = t /\ w[2] = u
    OBVIOUS
  <2> HIDE DEF w
  <2>3. w = <<t, u>>
    BY ONLY <2>2
  <2> QED BY ONLY <2>1, <2>3 DEF w
<1>2. /\ <<t>> \in Seq(Tasks) /\ ShowAll(<<t>>) = Show(t)
      /\ <<u>> \in Seq(Tasks) /\ ShowAll(<<u>>) = Show(u)
  BY ShowOne
<1>3. ShowAll(<<t>> \o <<u>>) = ShowAll(<<t>>) \o ShowAll(<<u>>)
  BY ONLY <1>2, ShowConcat
<1>4. Len(<<t, u>>) = 2 /\ <<t, u>>[1] = t /\ <<t, u>>[2] = u
  OBVIOUS
<1>5. \A i \in 1..Len(<<t, u>>) : <<t, u>>[i] = t \/ <<t, u>>[i] = u
  BY <1>4
<1> QED BY ONLY <1>1, <1>2, <1>3, <1>5 DEF NotScreen, AllShallow

LEMMA SingleTask ==
  ASSUME NEW t \in Tasks
  PROVE  /\ <<t>> \in Seq(Tasks) /\ ShowAll(<<t>>) = Show(t)
         /\ t.op # "print_char_on_screen" => NotScreen(<<t>>)
         /\ Shallow(t) => AllShallow(<<t>>)
<1>1. \A i \in 1..Len(<<t>>) : <<t>>[i] = t
  OBVIOUS
<1> QED BY ONLY <1>1, t \in Tasks, ShowOne DEF NotScreen, AllShallow

(* One call of my_put_uint_base prints nothing else than it should.        *)
LEMMA UintStep ==
  ASSUME NEW t \in Tasks, t.op = "my_put_uint_base"
  PROVE  /\ UintTasks(t) \in Seq(Tasks) /\ ShowAll(UintTasks(t)) = Show(t)
         /\ NotScreen(UintTasks(t)) /\ AllShallow(UintTasks(t))
<1> DEFINE d == t.base
           b == Len(t.base)
           n == t.n
           q == n \div b
           c == d[(n % b) + 1]
<1>1. n \in 0..(WIDTH - 1) /\ d \in Bases /\ Show(t) = Numeral(n, d)
  BY DEF Tasks, TaskOK, Show
<1>2. d \in Seq(0..255) /\ d \in Seq(Int) /\ b \in Nat /\ b >= 2
  BY ONLY <1>1, BasesOK
<1>3. CASE n = 0
  <2>1. UintTasks(t) = <<>>
    BY <1>3 DEF UintTasks
  <2>2. Show(t) = <<>>
    BY ONLY <1>1, <1>2, <1>3, NumeralZero, SMTT(40)
  <2> QED BY <2>1, <2>2, ShowEmpty, EmptySeq DEF NotScreen, AllShallow
<1>4. CASE n # 0
  <2>1. UintTasks(t) = <<UInt(q, d), Chr(c)>>
    BY <1>4 DEF UintTasks
  <2>2. n \in 1..WIDTH /\ n \in Nat /\ WIDTH \in Nat
    BY ONLY <1>1, <1>4, Consts
  <2>3. q \in 0..(WIDTH - 1)
    <3>1. q \in 0..WIDTH /\ q < n
      BY ONLY <1>2, <2>2, DigitsStep
    <3> QED BY ONLY <1>1, <2>2, <3>1
  <2>4. c \in 0..255
    <3>1. (n % b) + 1 \in 1..b
      BY ONLY <1>2, <2>2, SMTT(40)
    <3> QED BY ONLY <1>2, <3>1, ElementOfSeq
  <2>5. Numeral(n, d) = Numeral(q, d) \o <<c>>
    BY ONLY <1>2, <2>2, NumeralStep
  <2>6. UInt(q, d) \in Tasks /\ Show(UInt(q, d)) = Numeral(q, d) /\ UInt(q, d).op = "my_put_uint_base"
    BY ONLY <1>1, <2>3, UIntTask
  <2>7. Chr(c) \in Tasks /\ Show(Chr(c)) = <<c>> /\ Chr(c).op = "kprintf_putchar"
    BY ONLY <2>4, ChrTask
  <2>8. Shallow(UInt(q, d)) /\ Shallow(Chr(c))
    BY ONLY <2>6, <2>7 DEF Shallow
  <2> DEFINE x == UInt(q, d)
             y == Chr(c)
  <2>9. /\ <<x, y>> \in Seq(Tasks) /\ ShowAll(<<x, y>>) = Show(x) \o Show(y)
        /\ NotScreen(<<x, y>>) /\ AllShallow(<<x, y>>)
    <3>1. /\ x \in Tasks /\ y \in Tasks /\ Shallow(x) /\ Shallow(y)
          /\ x.op # "print_char_on_screen" /\ y.op # "print_char_on_screen"
      BY ONLY <2>6, <2>7, <2>8
    <3> HIDE DEF x, y
    <3> QED BY ONLY <3>1, PairTasks
  <2> QED BY ONLY <1>1, <2>1, <2>5, <2>6, <2>7, <2>9, ZenonT(60)
<1> QED BY <1>3, <1>4

LEMMA ConcatTasks ==
  ASSUME NEW s \in Seq(Tasks), NEW t \in Seq(Tasks)
  PROVE  /\ s \o t \in Seq(Tasks)
         /\ NotScreen(s) /\ NotScreen(t) => NotScreen(s \o t)
         /\ AllShallow(s) /\ AllShallow(t) => AllShallow(s \o t)
<1> DEFINE w == s \o t
<1>1. /\ w \in Seq(Tasks) /\ Len(w) = Len(s) + Len(t) /\ Len(s) \in Nat /\ Len(t) \in Nat
      /\ \A i \in 1..Len(w) : w[i] = IF i <= Len(s) THEN s[i] ELSE t[i - Len(s)]
  BY ONLY s \in Seq(Tasks), t \in Seq(Tasks)
<1> HIDE DEF w
<1>2. \A i \in 1..Len(w) : (\E j \in 1..Len(s) : w[i] = s[j]) \/ (\E j \in 1..Len(t) : w[i] = t[j])
  <2> TAKE i \in 1..Len(w)
  <2>1. i <= Len(s) => i \in 1..Len(s)
    BY ONLY <1>1, i \in 1..Len(w)
  <2>2. ~(i <= Len(s)) => i - Len(s) \in 1..Len(t)
    BY ONLY <1>1, i \in 1..Len(w)
  <2> QED BY ONLY <1>1, <2>1, <2>2, i \in 1..Len(w)
<1>3. NotScreen(s) /\ NotScreen(t) => NotScreen(w)
  BY ONLY <1>2 DEF NotScreen
<1>4. AllShallow(s) /\ AllShallow(t) => AllShallow(w)
  BY ONLY <1>2 DEF AllShallow
<1> QED BY ONLY <1>1, <1>3, <1>4 DEF w

(* my_put_nbr_base with a sign: the same number without it.                *)
LEMMA NbrNegative ==
  ASSUME NEW t \in Tasks, t.op = "my_put_nbr_base", t.n < 0
  PROVE  /\ NbrTasks(t) \in Seq(Tasks) /\ NotScreen(NbrTasks(t))
         /\ t.n > -Half => ShowAll(NbrTasks(t)) = Show(t)
         /\ Shallow(t) => AllShallow(NbrTasks(t))
<1> DEFINE d == t.base
           n == t.n
           k == t.nested
           m == Signed((-n) % WIDTH)
           x == Chr(45)
           y == Nbr(m, d, k + 1)
<1>1. n \in (-Half)..(Half - 1) /\ d \in Bases /\ k \in Nat /\ k >= 1 /\ Show(t) = Number(n, d)
  BY DEF Tasks, TaskOK, Task, Show
<1>2. NbrTasks(t) = <<x, y>>
  BY DEF NbrTasks, C
<1>3. m \in (-Half)..(Half - 1) /\ (n > -Half => m = -n)
  <2> HIDE DEF n
  <2>0. n < 0
    BY DEF n
  <2>1. (-n) % WIDTH = -n
    BY ONLY <1>1, <2>0, Consts
  <2>2. WIDTH \div 2 = Half
    BY DEF Half
  <2>3. m = IF -n < Half THEN -n ELSE (-n) - WIDTH
    BY ONLY <2>1, <2>2 DEF Signed
  <2> HIDE DEF m
  <2> QED BY ONLY <1>1, <2>0, <2>3, Consts
<1> HIDE DEF m
<1>4. x \in Tasks /\ Show(x) = <<45>> /\ x.op = "kprintf_putchar"
  BY ONLY ChrTask, 45 \in 0..255
<1>5. y \in Tasks /\ Show(y) = Number(m, d) /\ y.op = "my_put_nbr_base" /\ y.n = m /\ y.nested = k + 1
  <2>1. k + 1 \in Nat /\ k + 1 >= 1
    BY ONLY <1>1
  <2> HIDE DEF d
  <2> QED BY ONLY <1>1, <1>3, <2>1, NbrTask
<1>6. n > -Half => Show(x) \o Show(y) = Show(t)
  <2> SUFFICES ASSUME n > -Half PROVE Show(x) \o Show(y) = Show(t)
    OBVIOUS
  <2>1. m = -n /\ m > 0 /\ m \in (-WIDTH)..WIDTH /\ n \in (-WIDTH)..WIDTH /\ n < 0
    BY ONLY <1>1, <1>3, n > -Half, t.n < 0, Consts
  <2>2. Number(m, d) = Numeral(m, d) /\ Number(n, d) = <<45>> \o Numeral(-n, d)
    BY ONLY <1>1, <2>1, NumberType
  <2> QED BY ONLY <1>1, <1>4, <1>5, <2>1, <2>2
<1>7. Shallow(t) => Shallow(x) /\ Shallow(y)
  <2> SUFFICES ASSUME Shallow(t) PROVE Shallow(x) /\ Shallow(y)
    OBVIOUS
  <2>1. n > -Half /\ (k = 1 \/ n >= 1)
    BY DEF Shallow
  <2>2. k = 1 /\ m = -n /\ m >= 1 /\ m <= Half /\ m > -Half
    BY ONLY <1>1, <1>3, <2>1, t.n < 0, Consts
  <2>3. Power(2, (k + 1) - 2) = 1
    <3>1. (k + 1) - 2 = 0
      BY ONLY <2>2
    <3> QED BY ONLY <3>1, PowerZero, 2 \in Nat
  <2>4. m * Power(2, (k + 1) - 2) <= Half
    BY ONLY <1>1, <2>2, <2>3, <1>3, Consts
  <2>5. Shallow(y)
    BY ONLY <1>5, <2>2, <2>4 DEF Shallow
  <2> QED BY ONLY <1>4, <2>5 DEF Shallow
<1> HIDE DEF x, y
<1>8. /\ <<x, y>> \in Seq(Tasks) /\ ShowAll(<<x, y>>) = Show(x) \o Show(y)
      /\ NotScreen(<<x, y>>) /\ (Shallow(x) /\ Shallow(y) => AllShallow(<<x, y>>))
  <2>1. x.op # "print_char_on_screen" /\ y.op # "print_char_on_screen"
    BY ONLY <1>4, <1>5
  <2> QED BY ONLY <1>4, <1>5, <2>1, PairTasks
<1> QED BY ONLY <1>2, <1>6, <1>7, <1>8

(* my_put_nbr_base without a sign: the digits before the last one, if      *)
(* there are any, and the last one.                                        *)
LEMMA NbrPositive ==
  ASSUME NEW t \in Tasks, t.op = "my_put_nbr_base", t.n >= 0
  PROVE  /\ NbrTasks(t) \in Seq(Tasks) /\ NotScreen(NbrTasks(t))
         /\ ShowAll(NbrTasks(t)) = Show(t)
         /\ Shallow(t) => AllShallow(NbrTasks(t))
<1> DEFINE d == t.base
           b == Len(t.base)
           n == t.n
           k == t.nested
           q == n \div b
           c == d[(n % b) + 1]
           x == Chr(c)
           y == Nbr(q, d, k + 1)
<1>1. n \in (-Half)..(Half - 1) /\ d \in Bases /\ k \in Nat /\ k >= 1 /\ Show(t) = Number(n, d)
  BY DEF Tasks, TaskOK, Task, Show
<1>2. d \in Seq(0..255) /\ d \in Seq(Int) /\ b \in Nat /\ b >= 2 /\ d[1] = 48
  BY ONLY <1>1, BasesOK, SMTT(40)
<1>3. n \in Nat /\ n \in 0..(Half - 1) /\ n \in 0..WIDTH /\ n \in (-WIDTH)..WIDTH
  BY ONLY <1>1, t.n >= 0, Consts
<1>4. c \in 0..255
  <2>1. (n % b) + 1 \in 1..b
    BY ONLY <1>2, <1>3, SMTT(40)
  <2> QED BY ONLY <1>2, <2>1, ElementOfSeq, ZenonT(60)
<1>5. x \in Tasks /\ Show(x) = <<c>> /\ x.op = "kprintf_putchar"
  BY ONLY <1>4, ChrTask
<1>6. <<x>> \in Seq(Tasks) /\ ShowAll(<<x>>) = <<c>> /\ NotScreen(<<x>>) /\ AllShallow(<<x>>)
  <2>1. Shallow(x)
    BY ONLY <1>5 DEF Shallow
  <2>2. x.op # "print_char_on_screen"
    BY ONLY <1>5
  <2> HIDE DEF x
  <2> QED BY ONLY <1>5, <2>1, <2>2, SingleTask
<1>7. n > 0 => Numeral(n, d) = Numeral(q, d) \o <<c>>
  <2>1. n > 0 => n \in 1..WIDTH
    BY ONLY <1>3
  <2> QED BY ONLY <1>2, <2>1, NumeralStep
<1>8. CASE q = 0
  <2>1. ~(t.n < 0)
    BY ONLY <1>3
  <2>2. NbrTasks(t) = <<>> \o <<x>>
    BY ONLY <1>8, <2>1 DEF NbrTasks
  <2>3. NbrTasks(t) = <<x>>
    BY ONLY <1>6, <2>2, ConcatEmptySeq
  <2>4. Show(t) = <<c>>
    <3>1. CASE n = 0
      <4>1. n % b = 0
        <5>1. b \in Nat /\ b >= 2
          BY ONLY <1>2
        <5> HIDE DEF n, b
        <5> QED BY ONLY <3>1, <5>1
      <4>2. c = 48
        BY ONLY <1>2, <4>1
      <4>3. Number(n, d) = <<48>>
        BY ONLY <1>1, <1>3, <3>1, NumberType
      <4> QED BY ONLY <1>1, <4>2, <4>3
    <3>2. CASE n > 0
      <4>1. Number(n, d) = Numeral(n, d)
        BY ONLY <1>1, <1>3, <3>2, NumberType
      <4>2. Numeral(q, d) = <<>>
        <5>1. Numeral(0, d) = <<>>
          BY ONLY <1>2, NumeralZero
        <5> HIDE DEF q, d
        <5> QED BY ONLY <1>8, <5>1
      <4>3. <<>> \o <<c>> = <<c>>
        OBVIOUS
      <4> QED BY ONLY <1>1, <1>7, <3>2, <4>1, <4>2, <4>3
    <3> QED BY ONLY <1>3, <3>1, <3>2
  <2> QED BY ONLY <1>6, <2>3, <2>4
<1>9. CASE q # 0
  <2>1. q \in Nat /\ n = q * b + (n % b) /\ n % b \in Nat
    <3>1. q \in Nat /\ n = q * b + (n % b) /\ n % b \in 0..(b - 1)
      BY ONLY <1>2, <1>3, b >= 1, DivMod
    <3> QED BY ONLY <1>2, <3>1
  <2>2. 2 * q <= n
    <3> DEFINE r == n % b
    <3>1. q \in Nat /\ n = q * b + r /\ r \in Nat /\ b \in Nat /\ b >= 2
      BY ONLY <1>2, <2>1
    <3> HIDE DEF q, b, n, r
    <3>2. q * b >= 2 * q /\ q * b \in Nat
      BY ONLY <3>1
    <3> QED BY ONLY <3>1, <3>2
  <2>3. q >= 1 /\ n > 0 /\ q > 0 /\ q \in (-Half)..(Half - 1) /\ q \in (-WIDTH)..WIDTH
    <3> HIDE DEF q, b, n
    <3> QED BY ONLY <1>3, <1>9, <2>1, <2>2, Consts
  <2>4. NbrTasks(t) = <<y>> \o <<x>>
    <3>1. ~(t.n < 0)
      BY ONLY <1>3
    <3>2. t.n \div Len(t.base) # 0
      BY ONLY <1>9
    <3> QED BY ONLY <3>1, <3>2, Zenon DEF NbrTasks
  <2>5. y \in Tasks /\ Show(y) = Number(q, d) /\ y.op = "my_put_nbr_base" /\ y.n = q /\ y.nested = k + 1
    <3>1. k + 1 \in Nat /\ k + 1 >= 1
      BY ONLY <1>1
    <3> HIDE DEF d, q
    <3> QED BY ONLY <1>1, <2>3, <3>1, NbrTask
  <2>6. Number(q, d) = Numeral(q, d) /\ Number(n, d) = Numeral(n, d)
    BY ONLY <1>1, <1>3, <2>3, NumberType
  <2>7. Shallow(t) => Shallow(y)
    <3> SUFFICES ASSUME Shallow(t) PROVE Shallow(y)
      OBVIOUS
    <3>1. k = 1 \/ n * Power(2, k - 2) <= Half
      BY DEF Shallow
    <3>2. q > -Half
      BY ONLY <2>3, Consts
    <3>3. q * Power(2, (k + 1) - 2) <= Half
      <4> HIDE DEF q, n, k
      <4>1. CASE k = 1
        <5>1. (k + 1) - 2 = 0
          BY ONLY <4>1
        <5>2. Power(2, (k + 1) - 2) = 1
          BY ONLY <5>1, PowerZero, 2 \in Nat
        <5> QED BY ONLY <1>3, <2>1, <2>2, <5>2, Consts
      <4>2. CASE k # 1
        <5>1. k - 2 \in Nat /\ (k + 1) - 2 = k - 1 /\ k - 1 \in Nat /\ k - 1 >= 1 /\ (k - 1) - 1 = k - 2
          BY ONLY <1>1, <4>2
        <5> DEFINE p == Power(2, k - 2)
        <5>2. Power(2, k - 1) = 2 * p /\ p \in Nat /\ p >= 1
          BY ONLY <5>1, PowerStep, PowerPos, 2 \in Nat, 2 >= 2
        <5>3. n * p <= Half
          BY ONLY <3>1, <4>2
        <5> HIDE DEF p
        <5>4. (2 * q) * p <= n * p
          BY ONLY <1>3, <2>1, <2>2, <5>2, MulMono, 2 * q \in Nat
        <5>5. q * (2 * p) = (2 * q) * p /\ n * p \in Nat /\ (2 * q) * p \in Nat
          BY ONLY <1>3, <2>1, <5>2
        <5> QED BY ONLY <5>1, <5>2, <5>3, <5>4, <5>5, Consts
      <4> QED BY ONLY <4>1, <4>2
    <3> QED BY ONLY <2>3, <2>5, <3>2, <3>3 DEF Shallow
  <2> HIDE DEF x, y
  <2>8. <<y>> \in Seq(Tasks) /\ ShowAll(<<y>>) = Show(y) /\ NotScreen(<<y>>) /\ (Shallow(y) => AllShallow(<<y>>))
    <3>1. y.op # "print_char_on_screen"
      BY ONLY <2>5
    <3> QED BY ONLY <2>5, <3>1, SingleTask
  <2>9. /\ <<y>> \o <<x>> \in Seq(Tasks) /\ NotScreen(<<y>> \o <<x>>)
        /\ (Shallow(y) => AllShallow(<<y>> \o <<x>>))
        /\ ShowAll(<<y>> \o <<x>>) = ShowAll(<<y>>) \o ShowAll(<<x>>)
    BY ONLY <1>6, <2>8, ConcatTasks, ShowConcat
  <2> QED BY ONLY <1>1, <1>6, <1>7, <2>3, <2>4, <2>5, <2>6, <2>7, <2>8, <2>9
<1> QED BY <1>8, <1>9

LEMMA NbrStep ==
  ASSUME NEW t \in Tasks, t.op = "my_put_nbr_base"
  PROVE  /\ NbrTasks(t) \in Seq(Tasks) /\ NotScreen(NbrTasks(t))
         /\ t.n > -Half => ShowAll(NbrTasks(t)) = Show(t)
         /\ Shallow(t) => AllShallow(NbrTasks(t)) /\ t.n > -Half /\ ~(t.nested > MaxNested)
<1>1. t.n \in (-Half)..(Half - 1) /\ t.nested \in Nat /\ t.nested >= 1
  BY DEF Tasks, TaskOK, Task
<1>2. t.n < 0 \/ t.n >= 0
  BY ONLY <1>1, Consts
<1>3. Shallow(t) => t.n > -Half /\ ~(t.nested > MaxNested)
  <2> DEFINE k == t.nested
             n == t.n
  <2> SUFFICES ASSUME Shallow(t), k > MaxNested PROVE n > -Half /\ FALSE
    BY DEF Shallow
  <2>1. MaxNested # 0
    BY PowerZero, Consts, 2 \in Nat
  <2>2. k # 1 /\ k - 2 \in Nat /\ k - 1 >= MaxNested /\ k - 1 \in Nat /\ k - 1 >= 1 /\ (k - 1) - 1 = k - 2
    BY ONLY <1>1, <2>1, k > MaxNested, Consts
  <2>3. n >= 1 /\ n * Power(2, k - 2) <= Half
    BY <2>2 DEF Shallow
  <2> DEFINE p == Power(2, k - 2)
  <2>4. p \in Nat /\ Power(2, k - 1) = 2 * p /\ Power(2, MaxNested) <= Power(2, k - 1) /\ Power(2, MaxNested) \in Nat
    BY ONLY <2>2, PowerPos, PowerStep, PowerMono, Consts, 2 \in Nat, 2 >= 2, ZenonT(60)
  <2> HIDE DEF p
  <2>5. n * p >= p
    BY ONLY <1>1, <2>3, <2>4, Consts
  <2>6. n * p <= Half
    BY ONLY <2>3 DEF p
  <2>7. n * p \in Int
    BY ONLY <1>1, <2>4, Consts
  <2> QED BY ONLY <2>4, <2>5, <2>6, <2>7, Consts
<1> QED BY ONLY <1>2, <1>3, t \in Tasks, t.op = "my_put_nbr_base", NbrNegative, NbrPositive

-----------------------------------------------------------------------------
(* The directives *)

(* The calls in s print w.                                                 *)
Prints(s, w) ==
  s \in Seq(Tasks) /\ NotScreen(s) /\ AllShallow(s) /\ ShowAll(s) = w /\ w \in Seq(Int)

LEMMA PrintsConcat ==
  ASSUME NEW s, NEW v, Prints(s, v), NEW t, NEW w, Prints(t, w)
  PROVE  Prints(s \o t, v \o w)
<1>1. /\ s \in Seq(Tasks) /\ NotScreen(s) /\ AllShallow(s) /\ ShowAll(s) = v /\ v \in Seq(Int)
      /\ t \in Seq(Tasks) /\ NotScreen(t) /\ AllShallow(t) /\ ShowAll(t) = w /\ w \in Seq(Int)
  BY DEF Prints
<1>2. /\ s \o t \in Seq(Tasks) /\ NotScreen(s \o t) /\ AllShallow(s \o t)
      /\ ShowAll(s \o t) = ShowAll(s) \o ShowAll(t)
  BY ONLY <1>1, ConcatTasks, ShowConcat
<1>3. v \o w \in Seq(Int)
  BY ONLY <1>1, ConcatProperties
<1> QED BY ONLY <1>1, <1>2, <1>3 DEF Prints

LEMMA PrintsNothing == Prints(<<>>, <<>>)
BY ShowEmpty, EmptySeq DEF Prints, NotScreen, AllShallow

LEMMA PrintsTask ==
  ASSUME NEW t \in Tasks, t.op # "print_char_on_screen", Shallow(t)
  PROVE  Prints(<<t>>, Show(t))
BY ONLY t \in Tasks, t.op # "print_char_on_screen", Shallow(t), SingleTask, ShowType DEF Prints

LEMMA PrintsChr ==
  ASSUME NEW c \in 0..255
  PROVE  Prints(<<Chr(c)>>, <<c>>)
<1> DEFINE t == Chr(c)
<1>1. t \in Tasks /\ Show(t) = <<c>> /\ t.op = "kprintf_putchar"
  BY ChrTask
<1>2. Shallow(t) /\ t.op # "print_char_on_screen"
  BY ONLY <1>1 DEF Shallow
<1> HIDE DEF t
<1>3. Prints(<<t>>, Show(t))
  BY ONLY <1>1, <1>2, PrintsTask
<1> QED BY ONLY <1>1, <1>3 DEF t

LEMMA PrintsUInt ==
  ASSUME NEW n \in 0..(WIDTH - 1), NEW d \in Bases
  PROVE  Prints(<<UInt(n, d)>>, Numeral(n, d))
<1> DEFINE t == UInt(n, d)
<1>1. t \in Tasks /\ Show(t) = Numeral(n, d) /\ t.op = "my_put_uint_base"
  BY UIntTask
<1>2. Shallow(t) /\ t.op # "print_char_on_screen"
  BY ONLY <1>1 DEF Shallow
<1> HIDE DEF t
<1>3. Prints(<<t>>, Show(t))
  BY ONLY <1>1, <1>2, PrintsTask
<1> QED BY ONLY <1>1, <1>3 DEF t

LEMMA PrintsNbr ==
  ASSUME NEW n \in (-Half)..(Half - 1), NEW d \in Bases
  PROVE  /\ n > -Half => Prints(<<Nbr(n, d, 1)>>, Number(n, d))
         /\ <<Nbr(n, d, 1)>> \in Seq(Tasks) /\ NotScreen(<<Nbr(n, d, 1)>>)
<1> DEFINE t == Nbr(n, d, 1)
<1>1. t \in Tasks /\ Show(t) = Number(n, d) /\ t.op = "my_put_nbr_base" /\ t.n = n /\ t.nested = 1
  BY NbrTask, 1 \in Nat, 1 >= 1
<1>2. (n > -Half => Shallow(t)) /\ t.op # "print_char_on_screen"
  BY ONLY <1>1 DEF Shallow
<1> HIDE DEF t
<1>3. n > -Half => Prints(<<t>>, Show(t))
  BY ONLY <1>1, <1>2, PrintsTask
<1>4. <<t>> \in Seq(Tasks) /\ NotScreen(<<t>>)
  BY ONLY <1>1, <1>2, SingleTask
<1> QED BY ONLY <1>1, <1>3, <1>4 DEF t

LEMMA PrintsChars ==
  ASSUME NEW s \in Seq(0..255)
  PROVE  Prints(Chars(s), s)
<1>1. /\ Chars(s) \in Seq(Tasks) /\ ShowAll(Chars(s)) = s
      /\ \A i \in 1..Len(Chars(s)) : Chars(s)[i].op = "kprintf_putchar"
  BY CharsTasks
<1>2. NotScreen(Chars(s)) /\ AllShallow(Chars(s))
  BY ONLY <1>1 DEF NotScreen, AllShallow, Shallow
<1>3. s \in Seq(Int)
  BY SeqMonotonic, 0..255 \subseteq Int, ZenonT(60)
<1> QED BY ONLY <1>1, <1>2, <1>3 DEF Prints

LEMMA NotationsAreBases ==
  BIN \in Bases /\ OCT \in Bases /\ DEC \in Bases /\ HEX_LOWER \in Bases /\ HEX_UPPER \in Bases
BY DEF Bases

LEMMA PrintsDisplayUint ==
  ASSUME NEW n \in 0..(WIDTH - 1)
  PROVE  Prints(display_uint(n), Number(n, DEC))
<1>1. n \in (-WIDTH)..WIDTH /\ n \in Nat
  BY Consts
<1>2. CASE n = 0
  <2>1. Number(n, DEC) = <<48>>
    BY ONLY <1>1, <1>2, NumberType, NotationsAreBases
  <2>2. display_uint(n) = <<Chr(48)>>
    BY ONLY <1>2 DEF display_uint, C
  <2> QED BY ONLY <2>1, <2>2, PrintsChr, 48 \in 0..255, SMTT(40)
<1>3. CASE n # 0
  <2>1. Number(n, DEC) = Numeral(n, DEC)
    BY ONLY <1>1, <1>3, n > 0, NumberType, NotationsAreBases
  <2>2. display_uint(n) = <<UInt(n, DEC)>>
    BY ONLY <1>3 DEF display_uint
  <2> QED BY ONLY <2>1, <2>2, PrintsUInt, n \in 0..(WIDTH - 1), NotationsAreBases
<1> QED BY <1>2, <1>3

LEMMA PrintsDisplayPointer ==
  ASSUME NEW n \in 0..(WIDTH - 1)
  PROVE  Prints(display_pointer(n), IF n = 0 THEN NIL ELSE <<48, 120>> \o Numeral(n, HEX_LOWER))
<1>1. NIL \in Seq(0..255) /\ <<48, 120>> \in Seq(0..255)
  BY DEF NIL
<1>2. CASE n = 0
  <2>1. display_pointer(n) = Chars(NIL)
    BY ONLY <1>2 DEF display_pointer
  <2> QED BY ONLY <1>1, <1>2, <2>1, PrintsChars
<1>3. CASE n # 0
  <2>1. display_pointer(n) = Chars(<<48, 120>>) \o <<UInt(n, HEX_LOWER)>>
    BY ONLY <1>3 DEF display_pointer
  <2>2. Prints(Chars(<<48, 120>>), <<48, 120>>)
    BY ONLY <1>1, PrintsChars
  <2>3. Prints(<<UInt(n, HEX_LOWER)>>, Numeral(n, HEX_LOWER))
    BY ONLY PrintsUInt, n \in 0..(WIDTH - 1), NotationsAreBases
  <2>4. Prints(Chars(<<48, 120>>) \o <<UInt(n, HEX_LOWER)>>, <<48, 120>> \o Numeral(n, HEX_LOWER))
    BY ONLY <2>2, <2>3, PrintsConcat
  <2> QED BY ONLY <1>3, <2>1, <2>4
<1> QED BY <1>2, <1>3

LEMMA PrintsFlatten ==
  ASSUME NEW n \in Nat, NEW g, NEW w, g \in [1..n -> Seq(Tasks)], w \in [1..n -> Seq(Int)],
         \A i \in 1..n : Prints(g[i], w[i])
  PROVE  Prints(FlattenSeq(g), FlattenSeq(w))
<1>1. /\ Upto(g, 0) = <<>> /\ Upto(g, n) = FlattenSeq(g)
      /\ \A k \in 0..(n - 1) : Upto(g, k + 1) = Upto(g, k) \o g[k + 1]
  BY ONLY n \in Nat, g \in [1..n -> Seq(Tasks)], UptoStep
<1>2. /\ Upto(w, 0) = <<>> /\ Upto(w, n) = FlattenSeq(w)
      /\ \A k \in 0..(n - 1) : Upto(w, k + 1) = Upto(w, k) \o w[k + 1]
  BY ONLY n \in Nat, w \in [1..n -> Seq(Int)], UptoStep, ZenonT(60)
<1> DEFINE P(k) == Prints(Upto(g, k), Upto(w, k))
           Bad == {k \in 0..n : ~P(k)}
<1> SUFFICES ASSUME Bad # {} PROVE FALSE
  <2>1. n \in 0..n
    OBVIOUS
  <2>2. P(n)
    BY <2>1
  <2> QED BY ONLY <1>1, <1>2, <2>2
<1>3. PICK k \in Bad : \A y \in Bad : k <= y
  <2>1. Bad \in SUBSET Nat
    OBVIOUS
  <2> HIDE DEF Bad
  <2> QED BY ONLY <2>1, Bad # {}, LeastNat
<1>4. k \in 0..n /\ ~P(k)
  OBVIOUS
<1>5. k # 0
  <2>1. P(0)
    BY ONLY <1>1, <1>2, PrintsNothing
  <2> QED BY ONLY <1>4, <2>1
<1>6. k - 1 \in 0..(n - 1) /\ k - 1 \in 0..n /\ ~(k <= k - 1) /\ (k - 1) + 1 = k /\ k \in 1..n
  BY ONLY <1>4, <1>5, n \in Nat
<1>7. P(k - 1)
  BY ONLY <1>3, <1>6
<1>8. /\ Upto(g, (k - 1) + 1) = Upto(g, k - 1) \o g[(k - 1) + 1]
      /\ Upto(w, (k - 1) + 1) = Upto(w, k - 1) \o w[(k - 1) + 1]
  BY ONLY <1>1, <1>2, <1>6
<1>9. Prints(Upto(g, k - 1) \o g[k], Upto(w, k - 1) \o w[k])
  <2>1. Prints(g[k], w[k])
    BY ONLY <1>6, \A i \in 1..n : Prints(g[i], w[i])
  <2> DEFINE a == Upto(g, k - 1)
             b == Upto(w, k - 1)
             c == g[k]
             e == w[k]
  <2>2. Prints(a, b) /\ Prints(c, e)
    BY ONLY <1>7, <2>1
  <2> HIDE DEF a, b, c, e
  <2>3. Prints(a \o c, b \o e)
    BY ONLY <2>2, PrintsConcat
  <2> QED BY ONLY <2>3 DEF a, b, c, e
<1>10. P(k)
  BY ONLY <1>6, <1>8, <1>9
<1> QED BY ONLY <1>4, <1>10

LEMMA Tuples ==
  ASSUME NEW x \in Int, NEW y \in Int, NEW z \in Int
  PROVE  /\ <<x>> \o <<y>> = <<x, y>>
         /\ <<x, y>> \o <<z>> = <<x, y, z>>
         /\ <<x>> \o <<y, z>> = <<x, y, z>>
<1>1. <<x>> \o <<y>> = <<x, y>>
  <2> DEFINE w == <<x>> \o <<y>>
  <2>1. w \in Seq(Int) /\ Len(w) = 2 /\ w[1] = x /\ w[2] = y
    OBVIOUS
  <2> HIDE DEF w
  <2>2. w = <<x, y>>
    BY ONLY <2>1
  <2> QED BY ONLY <2>2 DEF w
<1>2. <<x, y>> \o <<z>> = <<x, y, z>>
  <2> DEFINE w == <<x, y>> \o <<z>>
  <2>1. w \in Seq(Int) /\ Len(w) = 3 /\ w[1] = x /\ w[2] = y /\ w[3] = z
    OBVIOUS
  <2> HIDE DEF w
  <2>2. w = <<x, y, z>>
    BY ONLY <2>1
  <2> QED BY ONLY <2>2 DEF w
<1>3. <<x>> \o <<y, z>> = <<x, y, z>>
  <2> DEFINE w == <<x>> \o <<y, z>>
  <2>1. w \in Seq(Int) /\ Len(w) = 3 /\ w[1] = x /\ w[2] = y /\ w[3] = z
    OBVIOUS
  <2> HIDE DEF w
  <2>2. w = <<x, y, z>>
    BY ONLY <2>1
  <2> QED BY ONLY <2>2 DEF w
<1> QED BY ONLY <1>1, <1>2, <1>3

(* Numbers of one, two and three octal digits.                             *)
LEMMA OctalDigits ==
  /\ \A m \in 1..7 : Numeral(m, OCT) = <<48 + m>>
  /\ \A m \in 8..63 : Numeral(m, OCT) = <<48 + (m \div 8), 48 + (m % 8)>>
  /\ \A m \in 64..511 : Numeral(m, OCT) = <<48 + ((m \div 8) \div 8), 48 + ((m \div 8) % 8), 48 + (m % 8)>>
<1>1. OCT \in Seq(Int) /\ Len(OCT) = 8 /\ Len(OCT) >= 2 /\ \A j \in 1..8 : OCT[j] = 47 + j
  BY DEF OCT
<1>2. ASSUME NEW m \in 1..511 PROVE Numeral(m, OCT) = Numeral(m \div 8, OCT) \o <<48 + (m % 8)>>
  <2>1. m \in 1..WIDTH
    BY Consts
  <2>2. Numeral(m, OCT) = Numeral(m \div Len(OCT), OCT) \o <<OCT[(m % Len(OCT)) + 1]>>
    BY ONLY <1>1, <2>1, NumeralStep
  <2>3. (m % 8) + 1 \in 1..8 /\ 47 + ((m % 8) + 1) = 48 + (m % 8)
    OBVIOUS
  <2>4. OCT[(m % 8) + 1] = 48 + (m % 8)
    BY ONLY <1>1, <2>3
  <2> QED BY ONLY <1>1, <2>2, <2>4
<1>3. \A x \in Int : <<>> \o <<x>> = <<x>>
  OBVIOUS
<1>6. ASSUME NEW m \in 1..7 PROVE Numeral(m, OCT) = <<48 + m>>
  <2>1. m \div 8 = 0 /\ 48 + (m % 8) = 48 + m /\ m \in 1..511
    OBVIOUS
  <2>2. Numeral(0, OCT) = <<>>
    BY ONLY <1>1, NumeralZero, ZenonT(60)
  <2>3. Numeral(m, OCT) = <<>> \o <<48 + m>>
    BY ONLY <1>2, <2>1, <2>2, ZenonT(60)
  <2> QED BY ONLY <1>3, <2>3, 48 + m \in Int
<1>7. ASSUME NEW m \in 8..63 PROVE Numeral(m, OCT) = <<48 + (m \div 8), 48 + (m % 8)>>
  <2>1. m \div 8 \in 1..7 /\ m \in 1..511 /\ 48 + (m \div 8) \in Int /\ 48 + (m % 8) \in Int
    BY SMTT(40)
  <2>2. Numeral(m, OCT) = <<48 + (m \div 8)>> \o <<48 + (m % 8)>>
    BY ONLY <1>2, <1>6, <2>1, ZenonT(60)
  <2> QED BY ONLY <2>1, <2>2, Tuples, ZenonT(60)
<1>8. ASSUME NEW m \in 64..511
      PROVE  Numeral(m, OCT) = <<48 + ((m \div 8) \div 8), 48 + ((m \div 8) % 8), 48 + (m % 8)>>
  <2> DEFINE q == m \div 8
  <2>1. q \in 8..63 /\ m \in 1..511
    OBVIOUS
  <2> HIDE DEF q
  <2>2. 48 + (q \div 8) \in Int /\ 48 + (q % 8) \in Int /\ 48 + (m % 8) \in Int
    BY ONLY <2>1
  <2>3. Numeral(m, OCT) = <<48 + (q \div 8), 48 + (q % 8)>> \o <<48 + (m % 8)>>
    BY ONLY <1>2, <1>7, <2>1, ZenonT(60) DEF q
  <2> QED BY ONLY <2>2, <2>3, Tuples, ZenonT(60) DEF q
<1> QED BY ONLY <1>6, <1>7, <1>8

ThreeDigits(c) == <<48 + ((c \div 64) % 8), 48 + ((c \div 8) % 8), 48 + (c % 8)>>

LEMMA VisibleOctal ==
  ASSUME NEW c \in Nat, c < 32 \/ c > 126
  PROVE  Visible(c) = <<92>> \o ThreeDigits(c)
<1> DEFINE f == [i \in 1..3 |-> OCT[((c \div Power(8, 3 - i)) % 8) + 1]]
<1>1. Visible(c) = <<92>> \o f
  <2>1. c \notin 32..126
    OBVIOUS
  <2>2. Len(OCT) = 8 /\ C.backslash = 92
    BY DEF OCT, C
  <2>3. Fixed(c, OCT, 3) = f
    BY ONLY <2>2 DEF Fixed
  <2> HIDE DEF f
  <2> QED BY ONLY <2>1, <2>2, <2>3 DEF Visible
<1>2. Power(8, 0) = 1 /\ Power(8, 1) = 8 /\ Power(8, 2) = 64
  <2>1. Power(8, 0) = 1
    BY PowerZero
  <2>2. Power(8, 1) = 8 * Power(8, 1 - 1)
    BY PowerStep
  <2>3. Power(8, 2) = 8 * Power(8, 2 - 1)
    BY PowerStep
  <2> QED BY <2>1, <2>2, <2>3
<1>3. \A j \in 1..8 : OCT[j] = 47 + j
  BY DEF OCT
<1>4. ASSUME NEW x \in Nat PROVE OCT[(x % 8) + 1] = 48 + (x % 8)
  <2>1. (x % 8) + 1 \in 1..8 /\ 47 + ((x % 8) + 1) = 48 + (x % 8)
    OBVIOUS
  <2> QED BY ONLY <1>3, <2>1
<1>5. /\ f[1] = 48 + ((c \div 64) % 8)
  <2>1. 3 - 1 = 2 /\ c \div 64 \in Nat
    OBVIOUS
  <2> QED BY <1>2, <1>4, <2>1
<1>6. f[2] = 48 + ((c \div 8) % 8)
  <2>1. 3 - 2 = 1 /\ c \div 8 \in Nat
    OBVIOUS
  <2> QED BY <1>2, <1>4, <2>1
<1>7. f[3] = 48 + (c % 8)
  <2>1. 3 - 3 = 0 /\ c \div 1 = c /\ c \in Nat
    OBVIOUS
  <2> QED BY <1>2, <1>4, <2>1
<1>8. f = ThreeDigits(c)
  <2>1. DOMAIN f = 1..3
    OBVIOUS
  <2>2. f = [i \in 1..3 |-> f[i]]
    OBVIOUS
  <2> HIDE DEF f
  <2>3. f \in Seq(Int) /\ Len(f) = 3
    <3>1. /\ 48 + ((c \div 64) % 8) \in Int /\ 48 + ((c \div 8) % 8) \in Int
          /\ 48 + (c % 8) \in Int
      OBVIOUS
    <3>2. \A i \in 1..3 : f[i] \in Int
      BY ONLY <1>5, <1>6, <1>7, <3>1
    <3> DEFINE g == [i \in 1..3 |-> f[i]]
    <3>3. g \in Seq(Int) /\ Len(g) = 3
      BY ONLY <3>2
    <3> QED BY ONLY <2>2, <3>3
  <2> DEFINE x == 48 + ((c \div 64) % 8)
             y == 48 + ((c \div 8) % 8)
             z == 48 + (c % 8)
  <2>4. f[1] = x /\ f[2] = y /\ f[3] = z
    BY ONLY <1>5, <1>6, <1>7
  <2> HIDE DEF x, y, z
  <2>5. f = <<x, y, z>>
    BY ONLY <2>3, <2>4
  <2> QED BY ONLY <2>5 DEF x, y, z, ThreeDigits
<1> QED BY ONLY <1>1, <1>8

(* my_full_putstr prints a character below 128 as it should.               *)
LEMMA PrintsEscaped ==
  ASSUME NEW c \in 1..255
  PROVE  /\ Prints(Escaped(c), ShowAll(Escaped(c)))
         /\ c < 128 => ShowAll(Escaped(c)) = Visible(c)
<1> DEFINE v == IF c < 128 THEN c ELSE c - 256
           pad == IF v < 8 THEN <<48, 48>> ELSE IF v < 32 THEN <<48>> ELSE <<>>
<1>1. CASE c \in 32..126
  <2>1. Escaped(c) = <<Chr(c)>>
    BY ONLY <1>1 DEF Escaped
  <2>2. Visible(c) = <<c>>
    BY ONLY <1>1 DEF Visible
  <2>3. Prints(<<Chr(c)>>, <<c>>)
    BY ONLY PrintsChr, c \in 0..255
  <2> QED BY ONLY <2>1, <2>2, <2>3 DEF Prints
<1>2. CASE c \notin 32..126
  <2>1. v < 32 \/ v >= 127
    BY <1>2
  <2>2. Escaped(c) = (<<Chr(92)>> \o Chars(pad)) \o <<Nbr(v, OCT, 1)>>
    BY ONLY <2>1 DEF Escaped, C
  <2>3. v \in (-Half)..(Half - 1) /\ v > -Half /\ v \in (-WIDTH)..WIDTH
    BY Consts
  <2> HIDE DEF v
  <2>4. pad \in Seq(0..255)
    <3>1. <<48, 48>> \in Seq(0..255) /\ <<48>> \in Seq(0..255) /\ <<>> \in Seq(0..255)
      OBVIOUS
    <3> QED BY ONLY <3>1, ZenonT(60)
  <2> HIDE DEF pad
  <2>5. Prints(<<Chr(92)>>, <<92>>) /\ Prints(Chars(pad), pad)
    BY ONLY <2>4, PrintsChr, PrintsChars, 92 \in 0..255
  <2>6. Prints(<<Nbr(v, OCT, 1)>>, Number(v, OCT))
    BY ONLY <2>3, PrintsNbr, NotationsAreBases
  <2>7. Prints(<<Chr(92)>> \o Chars(pad), <<92>> \o pad)
    BY ONLY <2>5, PrintsConcat
  <2>8. Prints(Escaped(c), (<<92>> \o pad) \o Number(v, OCT))
    BY ONLY <2>2, <2>6, <2>7, PrintsConcat
  <2>9. ASSUME c < 128 PROVE (<<92>> \o pad) \o Number(v, OCT) = Visible(c)
    <3>1. v = c /\ (c < 32 \/ c = 127)
      BY <1>2, <2>9 DEF v
    <3>2. Number(v, OCT) = Numeral(c, OCT)
      <4>1. v > 0
        BY ONLY <3>1, c \in 1..255
      <4> QED BY ONLY <2>3, <3>1, <4>1, NumberType, NotationsAreBases
    <3>3. Visible(c) = <<92>> \o ThreeDigits(c)
      <4>1. c \in Nat /\ (c < 32 \/ c > 126)
        BY ONLY <3>1, c \in 1..255
      <4> QED BY ONLY <4>1, VisibleOctal
    <3>4. CASE c < 8
      <4>1. /\ (c \div 64) % 8 = 0 /\ (c \div 8) % 8 = 0 /\ c % 8 = c /\ c \in 1..7
            /\ 48 + 0 = 48 /\ 48 + c \in Int
        BY ONLY <3>4, c \in 1..255
      <4>2. Numeral(c, OCT) = <<48 + c>>
        BY ONLY <4>1, OctalDigits
      <4>3. pad = <<48, 48>>
        BY ONLY <3>1, <3>4 DEF pad
      <4>4. (<<92>> \o <<48, 48>>) \o <<48 + c>> = <<92>> \o <<48, 48, 48 + c>>
        <5>1. <<48, 48>> \o <<48 + c>> = <<48, 48, 48 + c>>
          BY ONLY <4>1, 48 \in Int, Tuples, ZenonT(60)
        <5>2. <<92>> \in Seq(Int) /\ <<48, 48>> \in Seq(Int) /\ <<48 + c>> \in Seq(Int)
          BY <4>1
        <5> QED BY ONLY <5>1, <5>2, ConcatAssociative
      <4> QED BY ONLY <3>2, <3>3, <4>1, <4>2, <4>3, <4>4 DEF ThreeDigits
    <3>5. CASE c >= 8 /\ c < 32
      <4> DEFINE x == 48 + (c \div 8)
                 y == 48 + (c % 8)
      <4>1. /\ 48 + ((c \div 64) % 8) = 48 /\ 48 + ((c \div 8) % 8) = x /\ c \in 8..63
            /\ x \in Int /\ y \in Int
        BY ONLY <3>5, c \in 1..255
      <4>2. Numeral(c, OCT) = <<x, y>>
        BY ONLY <4>1, OctalDigits
      <4>3. pad = <<48>>
        <5>1. ~(v < 8) /\ v < 32
          BY ONLY <3>1, <3>5, c \in 1..255
        <5> QED BY ONLY <5>1 DEF pad
      <4> HIDE DEF x
      <4>4. (<<92>> \o <<48>>) \o <<x, y>> = <<92>> \o <<48, x, y>>
        <5> HIDE DEF y
        <5>1. <<48>> \o <<x, y>> = <<48, x, y>>
          BY ONLY <4>1, 48 \in Int, Tuples, ZenonT(60)
        <5>2. <<92>> \in Seq(Int) /\ <<48>> \in Seq(Int) /\ <<x, y>> \in Seq(Int)
          BY <4>1
        <5> QED BY ONLY <5>1, <5>2, ConcatAssociative
      <4> QED BY ONLY <3>2, <3>3, <4>1, <4>2, <4>3, <4>4 DEF ThreeDigits
    <3>6. CASE c = 127
      <4>1. /\ 48 + ((c \div 64) % 8) = 49 /\ 48 + ((c \div 8) % 8) = 55 /\ 48 + (c % 8) = 55
            /\ 48 + ((c \div 8) \div 8) = 49 /\ c \in 64..511
        BY ONLY <3>6
      <4>2. Numeral(c, OCT) = <<49, 55, 55>>
        BY ONLY <4>1, OctalDigits, ZenonT(60)
      <4>3. pad = <<>>
        <5>1. ~(v < 8) /\ ~(v < 32)
          BY ONLY <3>1, <3>6
        <5> QED BY ONLY <5>1 DEF pad
      <4>4. <<92>> \o <<>> = <<92>>
        OBVIOUS
      <4> QED BY ONLY <3>2, <3>3, <4>1, <4>2, <4>3, <4>4 DEF ThreeDigits
    <3> QED BY ONLY <3>1, <3>4, <3>5, <3>6, c \in 1..255
  <2> QED BY ONLY <2>8, <2>9 DEF Prints
<1> QED BY ONLY <1>1, <1>2

(* The digits behind the point, computed from the remainder alone.         *)
LEMMA Fraction ==
  ASSUME NEW n \in Nat, NEW u \in Nat, u >= 1, NEW f \in Nat
  PROVE  ((n * f) \div u) - ((n \div u) * f) = ((n % u) * f) \div u
<1> DEFINE q == n \div u
           r == n % u
           x == r * f
           h == x \div u
           l == x % u
           a == q * f
<1>1. q \in Nat /\ r \in 0..(u - 1) /\ n = q * u + r
  BY DivMod
<1> HIDE DEF q, r
<1>2. x \in Nat /\ a \in Nat
  BY ONLY <1>1, f \in Nat, u \in Nat
<1>3. n * f = a * u + x
  BY ONLY <1>1, f \in Nat, u \in Nat
<1> HIDE DEF x, a
<1>4. h \in Nat /\ l \in 0..(u - 1) /\ x = h * u + l
  BY ONLY <1>2, u \in Nat, u >= 1, DivMod
<1> HIDE DEF h, l
<1>5. n * f = (a + h) * u + l /\ a + h \in Nat
  BY ONLY <1>2, <1>3, <1>4, u \in Nat
<1> DEFINE m == a + h
<1>6. m \in Nat /\ n * f = m * u + l
  BY ONLY <1>5
<1> HIDE DEF m
<1>7. (m * u + l) \div u = m
  BY ONLY <1>4, <1>6, u \in Nat, u >= 1, DivModOf
<1>8. (n * f) \div u = a + h
  BY ONLY <1>6, <1>7 DEF m
<1>9. (a + h) - a = h
  BY ONLY <1>2, <1>4
<1> QED BY ONLY <1>8, <1>9 DEF a, h, x, q, r

(* The text of an amount in units of u, with fraction f.                   *)
InUnits(q, f, name) ==
  Number(q, DEC) \o (IF f > 0 THEN <<46>> \o Numeral(f, DEC) ELSE <<>>) \o name

LEMMA PrintsValue ==
  ASSUME NEW n \in 0..(WIDTH - 1), NEW u \in Nat, u >= 1, NEW name \in Seq(0..255)
  PROVE  LET q == n \div u
             f == IF u = 1 THEN 0 ELSE (((n % u) * THOUSAND) % WIDTH) \div u
         IN Prints(format_bytes_size_value(n, name, u), InUnits(q, f, name))
<1> DEFINE q == n \div u
           e == (((n % u) * THOUSAND) % WIDTH) \div u
           f == IF u = 1 THEN 0 ELSE e
           s == IF u # 1 /\ e > 0 THEN <<Chr(46)>> \o display_uint(e) ELSE <<>>
           w == IF f > 0 THEN <<46>> \o Numeral(f, DEC) ELSE <<>>
<1>0. n \in Nat /\ WIDTH \in Nat /\ WIDTH >= 1 /\ THOUSAND \in Nat
  BY Consts
<1>1. q \in 0..(WIDTH - 1)
  <2>1. q \in Nat /\ n = q * u + (n % u) /\ n % u \in 0..(u - 1)
    BY ONLY <1>0, u \in Nat, u >= 1, DivMod
  <2> HIDE DEF q
  <2>2. q * u >= q /\ q * u \in Nat
    BY ONLY <2>1, u \in Nat, u >= 1
  <2>3. q <= n
    BY ONLY <1>0, <2>1, <2>2, u \in Nat, u >= 1, SMTT(40)
  <2> QED BY ONLY <1>0, <2>1, <2>3, n \in 0..(WIDTH - 1)
<1>2. e \in 0..(WIDTH - 1) /\ e \in Nat
  <2> DEFINE x == (n % u) * THOUSAND
             y == x % WIDTH
  <2>1. x \in Nat
    BY ONLY <1>0, u \in Nat, u >= 1
  <2> HIDE DEF x
  <2>2. y \in 0..(WIDTH - 1)
    BY ONLY <1>0, <2>1
  <2> HIDE DEF y
  <2>3. e = y \div u
    BY ONLY DEF y, x
  <2> DEFINE z == y \div u
  <2>4. z \in Nat /\ y = z * u + (y % u) /\ y % u \in 0..(u - 1)
    BY ONLY <1>0, <2>2, y \in Nat, u \in Nat, u >= 1, DivMod
  <2> HIDE DEF z
  <2>5. z * u >= z /\ z * u \in Nat
    BY ONLY <2>4, u \in Nat, u >= 1
  <2>6. z <= y
    BY ONLY <2>2, <2>4, <2>5, u \in Nat, u >= 1, <1>0
  <2>7. e = z
    BY ONLY <2>3 DEF z
  <2> HIDE DEF e
  <2> QED BY ONLY <1>0, <2>2, <2>4, <2>6, <2>7
<1> HIDE DEF q, e
<1>3. format_bytes_size_value(n, name, u) = (display_uint(q) \o s) \o Chars(name)
  BY DEF format_bytes_size_value, C, q, e
<1>4. Prints(display_uint(q), Number(q, DEC))
  BY ONLY <1>1, PrintsDisplayUint
<1>5. Prints(s, w)
  <2>1. CASE u # 1 /\ e > 0
    <3>1. f = e /\ f > 0
      BY ONLY <2>1
    <3>2. Number(e, DEC) = Numeral(e, DEC)
      <4>1. e \in (-WIDTH)..WIDTH
        BY ONLY <1>0, <1>2
      <4> QED BY ONLY <2>1, <4>1, NumberType, NotationsAreBases
    <3>3. Prints(display_uint(e), Numeral(e, DEC))
      BY ONLY <1>2, <3>2, PrintsDisplayUint, SMTT(40)
    <3>4. Prints(<<Chr(46)>>, <<46>>)
      BY ONLY PrintsChr, 46 \in 0..255, SMTT(40)
    <3>5. Prints(<<Chr(46)>> \o display_uint(e), <<46>> \o Numeral(e, DEC))
      BY ONLY <3>3, <3>4, PrintsConcat
    <3> QED BY ONLY <2>1, <3>1, <3>5
  <2>2. CASE ~(u # 1 /\ e > 0)
    <3>1. ~(f > 0)
      BY ONLY <1>2, <2>2
    <3>2. s = <<>>
      BY ONLY <2>2
    <3>3. w = <<>>
      BY ONLY <3>1
    <3> QED BY ONLY <3>2, <3>3, PrintsNothing
  <2> QED BY ONLY <2>1, <2>2
<1>6. Prints(Chars(name), name)
  BY PrintsChars
<1> HIDE DEF s, w
<1>7. Prints(display_uint(q) \o s, Number(q, DEC) \o w)
  BY ONLY <1>4, <1>5, PrintsConcat
<1>8. Prints((display_uint(q) \o s) \o Chars(name), (Number(q, DEC) \o w) \o name)
  BY ONLY <1>6, <1>7, PrintsConcat
<1>9. InUnits(q, f, name) = (Number(q, DEC) \o w) \o name
  BY DEF InUnits, w
<1> QED BY ONLY <1>3, <1>8, <1>9 DEF q, e

LEMMA Units ==
  /\ MB \in Nat /\ GB \in Nat /\ 1 < KB /\ KB < MB /\ MB < GB
  /\ Power(KB, 0) = 1 /\ Power(KB, 1) = KB /\ Power(KB, 2) = MB /\ Power(KB, 3) = GB
<1>1. KB \in Nat /\ KB >= 2
  BY Consts
<1>2. MB \in Nat /\ KB < MB
  <2>1. KB * KB \in Nat /\ KB * KB >= 2 * KB
    BY ONLY <1>1
  <2> QED BY ONLY <1>1, <2>1 DEF MB
<1>3. GB = KB * MB
  BY ONLY <1>1 DEF GB, MB
<1>4. GB \in Nat /\ MB < GB
  <2>1. KB * MB \in Nat /\ KB * MB >= 2 * MB
    BY ONLY <1>1, <1>2
  <2> QED BY ONLY <1>1, <1>2, <1>3, <2>1
<1>5. Power(KB, 0) = 1
  BY ONLY <1>1, PowerZero
<1>6. Power(KB, 1) = KB
  <2>1. Power(KB, 1) = KB * Power(KB, 1 - 1)
    BY ONLY <1>1, PowerStep, 1 \in Nat, 1 >= 1
  <2>2. 1 - 1 = 0 /\ KB * 1 = KB
    BY ONLY <1>1
  <2> QED BY ONLY <1>5, <2>1, <2>2
<1>7. Power(KB, 2) = MB
  <2>1. Power(KB, 2) = KB * Power(KB, 2 - 1)
    BY ONLY <1>1, PowerStep, 2 \in Nat, 2 >= 1
  <2>2. 2 - 1 = 1
    OBVIOUS
  <2> QED BY ONLY <1>6, <2>1, <2>2 DEF MB
<1>8. Power(KB, 3) = GB
  <2>1. Power(KB, 3) = KB * Power(KB, 3 - 1)
    BY ONLY <1>1, PowerStep, 3 \in Nat, 3 >= 1
  <2>2. 3 - 1 = 2
    OBVIOUS
  <2> QED BY ONLY <1>3, <1>7, <2>1, <2>2
<1> QED BY ONLY <1>1, <1>2, <1>4, <1>5, <1>6, <1>7, <1>8

UnitNames == << <<66>>, <<75, 98>>, <<77, 98>>, <<71, 98>> >>
Fits(n, k) == (k = 0 \/ n >= Power(KB, k)) /\ (k = 3 \/ n < Power(KB, k + 1))

LEMMA OneFits ==
  ASSUME NEW n \in Nat, NEW k \in 0..3, NEW l \in 0..3, Fits(n, k), Fits(n, l)
  PROVE  k = l
<1>1. /\ k = 0 => n < KB
      /\ k = 1 => n >= KB /\ n < MB
      /\ k = 2 => n >= MB /\ n < GB
      /\ k = 3 => n >= GB
  BY Units, 0 + 1 = 1, 1 + 1 = 2, 2 + 1 = 3 DEF Fits
<1>2. /\ l = 0 => n < KB
      /\ l = 1 => n >= KB /\ n < MB
      /\ l = 2 => n >= MB /\ n < GB
      /\ l = 3 => n >= GB
  BY Units, 0 + 1 = 1, 1 + 1 = 2, 2 + 1 = 3 DEF Fits
<1> QED BY ONLY <1>1, <1>2, Units, Consts, n \in Nat, k \in 0..3, l \in 0..3

LEMMA AmountIn ==
  ASSUME NEW n \in Nat, NEW k \in 0..3, Fits(n, k), NEW u, u = Power(KB, k), u \in Nat, u >= 1,
         Thousandths(n) = 0 \/ NumDigits(Thousandths(n), 10) = FractionDigits
  PROVE  Amount(n) = InUnits(n \div u, IF u = 1 THEN 0 ELSE ((n % u) * THOUSAND) \div u, UnitNames[k + 1])
<1> DEFINE f == Thousandths(n)
           g == IF u = 1 THEN 0 ELSE ((n % u) * THOUSAND) \div u
<1>1. UnitOf(n) = k
  <2> DEFINE e == CHOOSE j \in 0..3 : Fits(n, j)
  <2>1. e \in 0..3 /\ Fits(n, e)
    <3>1. \E j \in 0..3 : Fits(n, j)
      OBVIOUS
    <3> QED BY ONLY <3>1
  <2>2. UnitOf(n) = e
    BY ONLY DEF UnitOf, Fits
  <2> HIDE DEF e
  <2>3. e = k
    BY ONLY <2>1, n \in Nat, k \in 0..3, Fits(n, k), OneFits
  <2> QED BY ONLY <2>2, <2>3
<1>2. f = ((n * THOUSAND) \div u) - ((n \div u) * THOUSAND)
  BY ONLY <1>1, u = Power(KB, k) DEF Thousandths
<1>3. f = ((n % u) * THOUSAND) \div u /\ THOUSAND \in Nat
  BY ONLY <1>2, Fraction, Consts, n \in Nat, u \in Nat, u >= 1, ZenonT(60)
<1>4. g = f
  <2>1. CASE u = 1
    <3>1. n % u = 0
      BY ONLY <2>1, n \in Nat
    <3>2. (n % u) * THOUSAND = 0
      BY ONLY <1>3, <3>1
    <3>3. 0 \div u = 0
      BY ONLY <2>1
    <3> QED BY ONLY <1>3, <2>1, <3>2, <3>3
  <2>2. CASE u # 1
    BY ONLY <1>3, <2>2
  <2> QED BY ONLY <2>1, <2>2
<1>5. Amount(n) = (Number(n \div u, DEC) \o (IF f > 0 THEN <<46>> \o Fixed(f, DEC, FractionDigits) ELSE <<>>))
                  \o UnitNames[k + 1]
  <2>1. C.dot = 46
    BY DEF C
  <2> QED BY ONLY <1>1, <2>1, u = Power(KB, k) DEF Amount, UnitNames
<1>6. f > 0 => Fixed(f, DEC, FractionDigits) = Numeral(f, DEC)
  <2>1. Len(DEC) = 10
    BY DEF DEC
  <2>2. f > 0 => NumDigits(f, 10) = FractionDigits
    BY ONLY Thousandths(n) = 0 \/ NumDigits(Thousandths(n), 10) = FractionDigits
  <2> HIDE DEF f
  <2> QED BY ONLY <2>1, <2>2 DEF Numeral
<1> HIDE DEF f, g
<1>7. Amount(n) = InUnits(n \div u, f, UnitNames[k + 1])
  BY ONLY <1>5, <1>6 DEF InUnits
<1> QED BY ONLY <1>4, <1>7 DEF g

LEMMA PrintsUnit ==
  ASSUME NEW n \in 0..(WIDTH - 1), NEW k \in 0..3, Fits(n, k),
         NEW u, u = Power(KB, k), u \in Nat, u >= 1, k = 0 <=> u = 1,
         NEW name, name = UnitNames[k + 1]
  PROVE  LET s == format_bytes_size_value(n, name, u)
         IN /\ Prints(s, ShowAll(s))
            /\ /\ u = 1 \/ (n % u) * THOUSAND < WIDTH
               /\ Thousandths(n) = 0 \/ NumDigits(Thousandths(n), 10) = FractionDigits
               => ShowAll(s) = Amount(n)
<1> DEFINE s == format_bytes_size_value(n, name, u)
           x == (n % u) * THOUSAND
           q == n \div u
           f == IF u = 1 THEN 0 ELSE (x % WIDTH) \div u
<1>1. name \in Seq(0..255)
  <2>1. /\ <<66>> \in Seq(0..255) /\ <<75, 98>> \in Seq(0..255)
        /\ <<77, 98>> \in Seq(0..255) /\ <<71, 98>> \in Seq(0..255)
    OBVIOUS
  <2>2. /\ UnitNames[1] = <<66>> /\ UnitNames[2] = <<75, 98>>
        /\ UnitNames[3] = <<77, 98>> /\ UnitNames[4] = <<71, 98>>
    BY DEF UnitNames
  <2>3. /\ UnitNames[1] \in Seq(0..255) /\ UnitNames[2] \in Seq(0..255)
        /\ UnitNames[3] \in Seq(0..255) /\ UnitNames[4] \in Seq(0..255)
    BY ONLY <2>1, <2>2, Zenon
  <2>4. k + 1 = 1 \/ k + 1 = 2 \/ k + 1 = 3 \/ k + 1 = 4
    OBVIOUS
  <2> QED BY ONLY <2>3, <2>4, name = UnitNames[k + 1], Zenon
<1>2. Prints(s, InUnits(q, f, name))
  BY ONLY <1>1, n \in 0..(WIDTH - 1), u \in Nat, u >= 1, PrintsValue
<1>3. ShowAll(s) = InUnits(q, f, name)
  BY ONLY <1>2 DEF Prints
<1>4. ASSUME u = 1 \/ x < WIDTH,
             Thousandths(n) = 0 \/ NumDigits(Thousandths(n), 10) = FractionDigits
      PROVE  ShowAll(s) = Amount(n)
  <2>1. n \in Nat /\ x \in Nat /\ WIDTH \in Nat /\ WIDTH >= 1
    <3>1. n \in Nat /\ WIDTH \in Nat /\ WIDTH >= 1 /\ THOUSAND \in Nat
      BY Consts
    <3> QED BY ONLY <3>1, u \in Nat, u >= 1
  <2>2. Amount(n) = InUnits(q, IF u = 1 THEN 0 ELSE x \div u, name)
    BY ONLY <1>4, <2>1, k \in 0..3, Fits(n, k), u = Power(KB, k), u \in Nat, u >= 1,
            name = UnitNames[k + 1], AmountIn
  <2>3. u = 1 \/ x % WIDTH = x
    <3> HIDE DEF x
    <3> QED BY ONLY <1>4, <2>1
  <2> HIDE DEF x
  <2>4. f = IF u = 1 THEN 0 ELSE x \div u
    BY ONLY <2>3
  <2> HIDE DEF f
  <2> QED BY ONLY <1>3, <2>2, <2>4
<1> QED BY ONLY <1>2, <1>3, <1>4

LEMMA PrintsAmount ==
  ASSUME NEW n \in 0..(WIDTH - 1)
  PROVE  LET s == format_bytes_size(n)
         IN /\ Prints(s, ShowAll(s))
            /\ ExactAmount(n) => ShowAll(s) = Amount(n)
<1> DEFINE s == format_bytes_size(n)
<1>0. n \in Nat /\ KB \in Nat /\ THOUSAND \in Nat /\ THOUSAND >= 1 /\ WIDTH \in Nat
  BY Consts
<1>1. /\ UnitNames[0 + 1] = <<66>> /\ UnitNames[1 + 1] = <<75, 98>>
      /\ UnitNames[2 + 1] = <<77, 98>> /\ UnitNames[3 + 1] = <<71, 98>>
  BY DEF UnitNames
<1>2. ASSUME NEW u \in Nat, u >= 1, u <= MB PROVE (n % u) * THOUSAND < WIDTH
  <2> DEFINE r == n % u
  <2>1. r \in Nat /\ r < u
    BY ONLY <1>0, <1>2, u \in Nat
  <2> HIDE DEF r
  <2>2. r < MB /\ MB \in Nat
    BY ONLY <1>2, <2>1, u \in Nat, Units
  <2>3. r * THOUSAND + THOUSAND <= MB * THOUSAND /\ r * THOUSAND \in Nat /\ MB * THOUSAND \in Nat
    BY ONLY <1>0, <2>1, <2>2, MulMono
  <2>4. MB * THOUSAND <= WIDTH
    BY OutputAssumption
  <2>5. r * THOUSAND < WIDTH
    BY ONLY <1>0, <2>3, <2>4
  <2> QED BY ONLY <2>5 DEF r
<1>3. CASE n < KB
  <2>1. ~(n >= KB) /\ ~(n >= MB) /\ ~(n >= GB)
    BY ONLY <1>0, <1>3, Units
  <2>2. s = format_bytes_size_value(n, <<66>>, 1)
    BY ONLY <1>3, <2>1 DEF format_bytes_size
  <2>3. Fits(n, 0)
    BY ONLY <1>3, Units, 0 + 1 = 1 DEF Fits
  <2>4. 1 = Power(KB, 0) /\ 1 \in Nat /\ 1 >= 1 /\ 0 \in 0..3
    BY Units
  <2> QED BY ONLY <1>1, <2>2, <2>3, <2>4, n \in 0..(WIDTH - 1), PrintsUnit DEF ExactAmount
<1>4. CASE n >= KB /\ n < MB
  <2>1. ~(n < KB) /\ ~(n >= MB) /\ ~(n >= GB)
    BY ONLY <1>0, <1>4, Units
  <2>2. s = format_bytes_size_value(n, <<75, 98>>, KB)
    BY ONLY <1>4, <2>1 DEF format_bytes_size
  <2>3. Fits(n, 1)
    BY ONLY <1>4, Units, 1 + 1 = 2 DEF Fits
  <2>4. KB = Power(KB, 1) /\ KB \in Nat /\ KB >= 1 /\ 1 \in 0..3 /\ KB # 1 /\ KB <= MB
    BY ONLY Units, Consts
  <2>5. (n % KB) * THOUSAND < WIDTH
    BY ONLY <1>2, <2>4
  <2>6. 1 = 0 <=> KB = 1
    BY ONLY <2>4
  <2> QED BY ONLY <1>1, <2>2, <2>3, <2>4, <2>5, <2>6, n \in 0..(WIDTH - 1), PrintsUnit DEF ExactAmount
<1>5. CASE n >= MB /\ n < GB
  <2>1. ~(n < KB) /\ ~(n < MB) /\ ~(n >= GB)
    BY ONLY <1>0, <1>5, Units
  <2>2. s = format_bytes_size_value(n, <<77, 98>>, MB)
    BY ONLY <1>5, <2>1 DEF format_bytes_size
  <2>3. Fits(n, 2)
    BY ONLY <1>5, Units, 2 + 1 = 3 DEF Fits
  <2>4. MB = Power(KB, 2) /\ MB \in Nat /\ MB >= 1 /\ 2 \in 0..3 /\ MB # 1 /\ MB <= MB
    BY ONLY Units, Consts
  <2>5. (n % MB) * THOUSAND < WIDTH
    BY ONLY <1>2, <2>4
  <2>6. 2 = 0 <=> MB = 1
    BY ONLY <2>4
  <2> QED BY ONLY <1>1, <2>2, <2>3, <2>4, <2>5, <2>6, n \in 0..(WIDTH - 1), PrintsUnit DEF ExactAmount
<1>6. CASE n >= GB
  <2>1. ~(n < KB) /\ ~(n < MB) /\ ~(n < GB)
    BY ONLY <1>0, <1>6, Units
  <2>2. s = format_bytes_size_value(n, <<71, 98>>, GB)
    BY ONLY <1>6, <2>1 DEF format_bytes_size
  <2>3. Fits(n, 3)
    BY ONLY <1>6, Units DEF Fits
  <2>4. GB = Power(KB, 3) /\ GB \in Nat /\ GB >= 1 /\ 3 \in 0..3 /\ GB # 1
    BY ONLY Units, Consts
  <2>6. 3 = 0 <=> GB = 1
    BY ONLY <2>4
  <2> QED BY ONLY <1>1, <2>1, <2>2, <2>3, <2>4, <2>6, n \in 0..(WIDTH - 1), PrintsUnit DEF ExactAmount
<1> QED BY ONLY <1>0, <1>3, <1>4, <1>5, <1>6, Units

LEMMA PrintsFull ==
  ASSUME NEW s \in Seq(Char)
  PROVE  /\ Prints(my_full_putstr(s), ShowAll(my_full_putstr(s)))
         /\ (\A i \in 1..Len(s) : s[i] < 128) =>
              ShowAll(my_full_putstr(s)) = FlattenSeq([i \in 1..Len(s) |-> Visible(s[i])])
<1> DEFINE n == Len(s)
           g == [i \in 1..n |-> Escaped(s[i])]
           w == [i \in 1..n |-> ShowAll(Escaped(s[i]))]
<1>1. n \in Nat /\ \A i \in 1..n : s[i] \in 1..255
  BY ONLY s \in Seq(Char), LenProperties, ElementOfSeq, SMTT(40) DEF Char
<1> HIDE DEF n
<1>2. \A i \in 1..n : /\ Prints(Escaped(s[i]), ShowAll(Escaped(s[i])))
                      /\ s[i] < 128 => ShowAll(Escaped(s[i])) = Visible(s[i])
  BY ONLY <1>1, PrintsEscaped
<1>3. \A i \in 1..n : Escaped(s[i]) \in Seq(Tasks) /\ ShowAll(Escaped(s[i])) \in Seq(Int)
  BY ONLY <1>2 DEF Prints
<1>4. g \in [1..n -> Seq(Tasks)]
  BY ONLY <1>3
<1>5. w \in [1..n -> Seq(Int)]
  BY ONLY <1>3
<1>6. \A i \in 1..n : Prints(g[i], w[i])
  BY ONLY <1>2
<1>7. my_full_putstr(s) = FlattenSeq(g)
  BY DEF my_full_putstr, n
<1>8. (\A i \in 1..n : s[i] < 128) => w = [i \in 1..n |-> Visible(s[i])]
  BY ONLY <1>2
<1> HIDE DEF g, w
<1>9. Prints(FlattenSeq(g), FlattenSeq(w))
  BY ONLY <1>1, <1>4, <1>5, <1>6, PrintsFlatten
<1>10. ShowAll(FlattenSeq(g)) = FlattenSeq(w)
  BY ONLY <1>9 DEF Prints
<1> QED BY ONLY <1>7, <1>8, <1>9, <1>10 DEF n

LEMMA SignedWord ==
  ASSUME NEW w \in 0..(WIDTH - 1)
  PROVE  Signed(w) \in (-Half)..(Half - 1) /\ (w # Half => Signed(w) > -Half)
<1>1. WIDTH \div 2 = Half
  BY DEF Half
<1>2. Signed(w) = IF w < Half THEN w ELSE w - WIDTH
  BY ONLY <1>1 DEF Signed
<1> QED BY <1>2, Consts

(* The codes of the directives.                                            *)
LEMMA Codes ==
  /\ C.percent = 37 /\ C.s = 115 /\ C.d = 100 /\ C.i = 105 /\ C.c = 99 /\ C.o = 111
  /\ C.u = 117 /\ C.x = 120 /\ C.X = 88 /\ C.p = 112 /\ C.b = 98 /\ C.B = 66 /\ C.S = 83
BY DEF C

(* What display_var makes of a directive: what it means, unless it is one  *)
(* of the arguments that kprintf does not print as it should.              *)
Displays(s, it) ==
  /\ s \in Seq(Tasks) /\ NotScreen(s)
  /\ ~LeastInt(it) => AllShallow(s)
  /\ Exact(it) => ShowAll(s) = Meaning(it)

LEMMA PrintsDisplays ==
  ASSUME NEW s, NEW it, Prints(s, ShowAll(s)), Exact(it) => ShowAll(s) = Meaning(it)
  PROVE  Displays(s, it)
BY DEF Prints, Displays

LEMMA DisplaySigned ==
  ASSUME NEW it, NEW d \in Bases, it.flag \in {C.d, C.i, C.b}, it.arg \in 0..(WIDTH - 1),
         Exact(it) => Meaning(it) = Number(Signed(it.arg), d)
  PROVE  Displays(<<Nbr(Signed(it.arg), d, 1)>>, it)
<1> DEFINE v == Signed(it.arg)
           s == <<Nbr(v, d, 1)>>
<1>1. v \in (-Half)..(Half - 1) /\ (it.arg # Half => v > -Half)
  BY ONLY it.arg \in 0..(WIDTH - 1), SignedWord
<1>2. Half = WIDTH \div 2
  BY DEF Half
<1>3. ~LeastInt(it) => v > -Half
  BY <1>1, <1>2 DEF LeastInt
<1> HIDE DEF v
<1>4. (v > -Half => Prints(s, Number(v, d))) /\ s \in Seq(Tasks) /\ NotScreen(s)
  BY ONLY <1>1, d \in Bases, PrintsNbr
<1>5. Exact(it) => ~LeastInt(it)
  BY DEF Exact
<1>6. Prints(s, Number(v, d)) => AllShallow(s) /\ ShowAll(s) = Number(v, d)
  BY DEF Prints
<1>7. Exact(it) => Meaning(it) = Number(v, d)
  BY DEF v
<1>8. Displays(s, it)
  <2> HIDE DEF s
  <2> QED BY ONLY <1>3, <1>4, <1>5, <1>6, <1>7 DEF Displays
<1> QED BY ONLY <1>8 DEF v

Known == {37, 115, 100, 105, 99, 111, 117, 120, 88, 112, 98, 66, 83}

LEMMA DisplayForms ==
  ASSUME NEW f \in Nat, NEW a
  PROVE  /\ f = 37 => DisplayTasks(f, a) = <<Chr(37)>>
         /\ f = 115 => DisplayTasks(f, a) = my_putstr(a)
         /\ f = 100 => DisplayTasks(f, a) = <<Nbr(Signed(a), DEC, 1)>>
         /\ f = 105 => DisplayTasks(f, a) = <<Nbr(Signed(a), DEC, 1)>>
         /\ f = 99 => DisplayTasks(f, a) = <<Chr(a)>>
         /\ f = 111 => DisplayTasks(f, a) = <<UInt(a, OCT)>>
         /\ f = 117 => DisplayTasks(f, a) = display_uint(a)
         /\ f = 120 => DisplayTasks(f, a) = <<UInt(a, HEX_LOWER)>>
         /\ f = 88 => DisplayTasks(f, a) = <<UInt(a, HEX_UPPER)>>
         /\ f = 112 => DisplayTasks(f, a) = display_pointer(a)
         /\ f = 98 => DisplayTasks(f, a) = <<Nbr(Signed(a), BIN, 1)>>
         /\ f = 66 => DisplayTasks(f, a) = format_bytes_size(a)
         /\ f = 83 => DisplayTasks(f, a) = my_full_putstr(a)
         /\ f \notin Known => DisplayTasks(f, a) = <<Chr(37), Chr(f)>>
<1>1. f = 37 => DisplayTasks(f, a) = <<Chr(37)>>
  BY ONLY Codes DEF DisplayTasks
<1>2. f = 115 => DisplayTasks(f, a) = my_putstr(a)
  BY ONLY Codes DEF DisplayTasks
<1>3. f = 100 => DisplayTasks(f, a) = <<Nbr(Signed(a), DEC, 1)>>
  BY ONLY Codes DEF DisplayTasks
<1>4. f = 105 => DisplayTasks(f, a) = <<Nbr(Signed(a), DEC, 1)>>
  BY ONLY Codes DEF DisplayTasks
<1>5. f = 99 => DisplayTasks(f, a) = <<Chr(a)>>
  BY ONLY Codes DEF DisplayTasks
<1>6. f = 111 => DisplayTasks(f, a) = <<UInt(a, OCT)>>
  BY ONLY Codes DEF DisplayTasks
<1>7. f = 117 => DisplayTasks(f, a) = display_uint(a)
  BY ONLY Codes DEF DisplayTasks
<1>8. f = 120 => DisplayTasks(f, a) = <<UInt(a, HEX_LOWER)>>
  BY ONLY Codes DEF DisplayTasks
<1>9. f = 88 => DisplayTasks(f, a) = <<UInt(a, HEX_UPPER)>>
  BY ONLY Codes DEF DisplayTasks
<1>10. f = 112 => DisplayTasks(f, a) = display_pointer(a)
  BY ONLY Codes DEF DisplayTasks
<1>11. f = 98 => DisplayTasks(f, a) = <<Nbr(Signed(a), BIN, 1)>>
  BY ONLY Codes DEF DisplayTasks
<1>12. f = 66 => DisplayTasks(f, a) = format_bytes_size(a)
  BY ONLY Codes DEF DisplayTasks
<1>13. f = 83 => DisplayTasks(f, a) = my_full_putstr(a)
  BY ONLY Codes DEF DisplayTasks
<1>14. f \notin Known => DisplayTasks(f, a) = <<Chr(37), Chr(f)>>
  BY ONLY Codes DEF DisplayTasks, Known
<1> QED BY ONLY <1>1, <1>2, <1>3, <1>4, <1>5, <1>6, <1>7, <1>8, <1>9, <1>10, <1>11, <1>12, <1>13, <1>14

LEMMA MeaningForms ==
  ASSUME NEW it, it.flag \in Nat
  PROVE  /\ it.flag = 0 => Meaning(it) = <<it.arg>>
         /\ it.flag = 37 => Meaning(it) = <<37>>
         /\ it.flag = 115 => Meaning(it) = (IF it.arg = NULL THEN <<>> ELSE it.arg)
         /\ it.flag = 100 => Meaning(it) = Number(Signed(it.arg), DEC)
         /\ it.flag = 105 => Meaning(it) = Number(Signed(it.arg), DEC)
         /\ it.flag = 99 => Meaning(it) = <<it.arg>>
         /\ it.flag = 111 => Meaning(it) = Number(it.arg, OCT)
         /\ it.flag = 117 => Meaning(it) = Number(it.arg, DEC)
         /\ it.flag = 120 => Meaning(it) = Number(it.arg, HEX_LOWER)
         /\ it.flag = 88 => Meaning(it) = Number(it.arg, HEX_UPPER)
         /\ it.flag = 112 => Meaning(it) = (IF it.arg = 0 THEN NIL ELSE <<48, 120>> \o Numeral(it.arg, HEX_LOWER))
         /\ it.flag = 98 => Meaning(it) = Number(it.arg, BIN)
         /\ it.flag = 66 => Meaning(it) = Amount(it.arg)
         /\ it.flag = 83 => Meaning(it) = FlattenSeq([i \in 1..Len(it.arg) |-> Visible(it.arg[i])])
         /\ it.flag \notin Known /\ it.flag # 0 => Meaning(it) = <<37, it.flag>>
<1> DEFINE f == it.flag
<1>0. /\ LITERAL = 0
      /\ f \in Known \ {37} <=> Takes(f)
  BY ONLY Codes DEF LITERAL, Takes, Known
<1>1. f = 0 => Meaning(it) = <<it.arg>>
  BY ONLY <1>0, Codes DEF Meaning, Known
<1>2. f = 37 => Meaning(it) = <<37>>
  BY ONLY <1>0, Codes DEF Meaning, Known
<1>3. f \in Known \ {37} => Meaning(it) = Rendered(f, it.arg)
  BY ONLY <1>0, Codes DEF Meaning, Known
<1>4. f \notin Known /\ f # 0 => Meaning(it) = <<37, f>>
  BY ONLY <1>0, Codes DEF Meaning, Known
<1>5. f = 115 => Meaning(it) = (IF it.arg = NULL THEN <<>> ELSE it.arg)
  <2>1. f = 115 => f \in Known \ {37} /\ Rendered(f, it.arg) = (IF it.arg = NULL THEN <<>> ELSE it.arg)
    BY ONLY Codes DEF Rendered, Known
  <2> QED BY ONLY <1>3, <2>1
<1>6. f = 100 => Meaning(it) = Number(Signed(it.arg), DEC)
  <2>1. f = 100 => f \in Known \ {37} /\ Rendered(f, it.arg) = Number(Signed(it.arg), DEC)
    BY ONLY Codes DEF Rendered, Known
  <2> QED BY ONLY <1>3, <2>1
<1>7. f = 105 => Meaning(it) = Number(Signed(it.arg), DEC)
  <2>1. f = 105 => f \in Known \ {37} /\ Rendered(f, it.arg) = Number(Signed(it.arg), DEC)
    BY ONLY Codes DEF Rendered, Known
  <2> QED BY ONLY <1>3, <2>1
<1>8. f = 99 => Meaning(it) = <<it.arg>>
  <2>1. f = 99 => f \in Known \ {37} /\ Rendered(f, it.arg) = <<it.arg>>
    BY ONLY Codes DEF Rendered, Known
  <2> QED BY ONLY <1>3, <2>1
<1>9. f = 111 => Meaning(it) = Number(it.arg, OCT)
  <2>1. f = 111 => f \in Known \ {37} /\ Rendered(f, it.arg) = Number(it.arg, OCT)
    BY ONLY Codes DEF Rendered, Known
  <2> QED BY ONLY <1>3, <2>1
<1>10. f = 117 => Meaning(it) = Number(it.arg, DEC)
  <2>1. f = 117 => f \in Known \ {37} /\ Rendered(f, it.arg) = Number(it.arg, DEC)
    BY ONLY Codes DEF Rendered, Known
  <2> QED BY ONLY <1>3, <2>1
<1>11. f = 120 => Meaning(it) = Number(it.arg, HEX_LOWER)
  <2>1. f = 120 => f \in Known \ {37} /\ Rendered(f, it.arg) = Number(it.arg, HEX_LOWER)
    BY ONLY Codes DEF Rendered, Known
  <2> QED BY ONLY <1>3, <2>1
<1>12. f = 88 => Meaning(it) = Number(it.arg, HEX_UPPER)
  <2>1. f = 88 => f \in Known \ {37} /\ Rendered(f, it.arg) = Number(it.arg, HEX_UPPER)
    BY ONLY Codes DEF Rendered, Known
  <2> QED BY ONLY <1>3, <2>1
<1>13. f = 112 => Meaning(it) = (IF it.arg = 0 THEN NIL ELSE <<48, 120>> \o Numeral(it.arg, HEX_LOWER))
  <2>1. f = 112 => f \in Known \ {37} /\ Rendered(f, it.arg) = (IF it.arg = 0 THEN NIL ELSE <<48, 120>> \o Numeral(it.arg, HEX_LOWER))
    BY ONLY Codes DEF Rendered, Known
  <2> QED BY ONLY <1>3, <2>1, ZenonT(60)
<1>14. f = 98 => Meaning(it) = Number(it.arg, BIN)
  <2>1. f = 98 => f \in Known \ {37} /\ Rendered(f, it.arg) = Number(it.arg, BIN)
    BY ONLY Codes DEF Rendered, Known
  <2> QED BY ONLY <1>3, <2>1
<1>15. f = 66 => Meaning(it) = Amount(it.arg)
  <2>1. f = 66 => f \in Known \ {37} /\ Rendered(f, it.arg) = Amount(it.arg)
    BY ONLY Codes DEF Rendered, Known
  <2> QED BY ONLY <1>3, <2>1
<1>16. f = 83 => Meaning(it) = FlattenSeq([i \in 1..Len(it.arg) |-> Visible(it.arg[i])])
  <2>1. f = 83 => f \in Known \ {37} /\ Rendered(f, it.arg) = FlattenSeq([i \in 1..Len(it.arg) |-> Visible(it.arg[i])])
    BY ONLY Codes DEF Rendered, Known
  <2> QED BY ONLY <1>3, <2>1
<1> QED BY ONLY <1>1, <1>2, <1>3, <1>4, <1>5, <1>6, <1>7, <1>8, <1>9, <1>10, <1>11, <1>12, <1>13, <1>14, <1>15, <1>16

LEMMA TypedForms ==
  ASSUME NEW it, WellTyped(it)
  PROVE  /\ it.flag \in Nat /\ it.flag \in 0..255
         /\ it.flag = 0 => it.arg \in Char /\ it.arg # 37
         /\ it.flag \in {100, 105, 111, 117, 120, 88, 112, 98, 66} => it.arg \in 0..(WIDTH - 1)
         /\ it.flag = 99 => it.arg \in 0..255
         /\ it.flag = 115 => it.arg = NULL \/ it.arg \in Seq(Char)
         /\ it.flag = 83 => it.arg \in Seq(Char)
         /\ Takes(it.flag) <=> it.flag \in Known \ {37}
<1>1. it.flag \in 0..255 /\ it.flag \in Nat
  <2>1. it.flag \in 0..255
    BY ONLY WellTyped(it) DEF WellTyped
  <2> QED BY ONLY <2>1
<1>2. it.flag = 0 => it.arg \in Char /\ it.arg # 37
  BY ONLY WellTyped(it), Codes DEF WellTyped, LITERAL
<1>3. it.flag \in {100, 105, 111, 117, 120, 88, 112, 98, 66} => it.arg \in 0..(WIDTH - 1)
  BY ONLY WellTyped(it), Codes DEF WellTyped
<1>4. it.flag = 99 => it.arg \in 0..255
  BY ONLY WellTyped(it), Codes DEF WellTyped
<1>5. it.flag = 115 => it.arg = NULL \/ it.arg \in Seq(Char)
  BY ONLY WellTyped(it), Codes DEF WellTyped
<1>6. it.flag = 83 => it.arg \in Seq(Char)
  BY ONLY WellTyped(it), Codes DEF WellTyped
<1>7. Takes(it.flag) <=> it.flag \in Known \ {37}
  BY ONLY Codes DEF Takes, Known
<1> QED BY ONLY <1>1, <1>2, <1>3, <1>4, <1>5, <1>6, <1>7

LEMMA DisplayShown ==
  ASSUME NEW it, WellTyped(it), it.flag # LITERAL, NEW a, Takes(it.flag) => a = it.arg
  PROVE  Displays(DisplayTasks(it.flag, a), it)
<1> DEFINE f == it.flag
           s == DisplayTasks(it.flag, a)
<1>1. f \in Nat /\ f \in 0..255 /\ f # 0
  BY TypedForms DEF LITERAL
<1>2. f \in Known \ {37} => a = it.arg
  BY TypedForms
<1>3. ASSUME NEW w, Prints(s, w), Exact(it) => w = Meaning(it) PROVE Displays(s, it)
  BY ONLY <1>3 DEF Displays, Prints
<1>4. CASE f = 37
  <2>1. s = <<Chr(37)>> /\ Meaning(it) = <<37>>
    BY ONLY <1>1, <1>4, DisplayForms, MeaningForms
  <2>2. Prints(<<Chr(37)>>, <<37>>)
    BY ONLY PrintsChr, 37 \in 0..255
  <2> QED BY ONLY <1>3, <2>1, <2>2
<1>5. CASE f = 115
  <2>0. a = it.arg
    BY ONLY <1>2, <1>5 DEF Known
  <2>1. s = my_putstr(it.arg) /\ Meaning(it) = IF it.arg = NULL THEN <<>> ELSE it.arg
    BY ONLY <1>1, <1>5, <2>0, DisplayForms, MeaningForms, ZenonT(60)
  <2>2. CASE it.arg = NULL
    BY ONLY <1>3, <2>1, <2>2, PrintsNothing DEF my_putstr
  <2>3. CASE it.arg # NULL
    <3>1. it.arg \in Seq(Char)
      BY ONLY <1>5, <2>3, WellTyped(it), TypedForms
    <3>2. it.arg \in Seq(0..255)
      BY ONLY <3>1, SeqMonotonic, Char \subseteq 0..255 DEF Char
    <3>3. s = Chars(it.arg) /\ Meaning(it) = it.arg
      BY ONLY <2>1, <2>3 DEF my_putstr
    <3> QED BY ONLY <1>3, <3>2, <3>3, PrintsChars
  <2> QED BY ONLY <2>2, <2>3
<1>6. CASE f \in {100, 105}
  <2>0. a = it.arg /\ f \in {C.d, C.i, C.b}
    BY ONLY <1>2, <1>6, Codes DEF Known
  <2>1. s = <<Nbr(Signed(it.arg), DEC, 1)>> /\ Meaning(it) = Number(Signed(it.arg), DEC)
    BY ONLY <1>1, <1>6, <2>0, DisplayForms, MeaningForms, ZenonT(60)
  <2>2. it.arg \in 0..(WIDTH - 1)
    BY ONLY <1>6, WellTyped(it), TypedForms
  <2> QED BY ONLY <2>0, <2>1, <2>2, DisplaySigned, NotationsAreBases
<1>7. CASE f = 98
  <2>0. a = it.arg /\ f \in {C.d, C.i, C.b}
    BY ONLY <1>2, <1>7, Codes DEF Known
  <2>1. s = <<Nbr(Signed(it.arg), BIN, 1)>> /\ Meaning(it) = Number(it.arg, BIN)
    BY ONLY <1>1, <1>7, <2>0, DisplayForms, MeaningForms
  <2>2. it.arg \in 0..(WIDTH - 1)
    BY ONLY <1>7, WellTyped(it), TypedForms
  <2>3. Exact(it) => Signed(it.arg) = it.arg
    <3>1. Exact(it) => it.arg < WIDTH \div 2
      BY ONLY <1>7, Codes DEF Exact
    <3> QED BY ONLY <3>1 DEF Signed
  <2>4. Exact(it) => Meaning(it) = Number(Signed(it.arg), BIN)
    BY ONLY <2>1, <2>3
  <2> QED BY ONLY <2>0, <2>1, <2>2, <2>4, DisplaySigned, NotationsAreBases
<1>8. CASE f = 99
  <2>0. a = it.arg /\ it.arg \in 0..255
    <3>1. a = it.arg
      BY ONLY <1>2, <1>8 DEF Known
    <3>2. it.arg \in 0..255
      BY ONLY <1>8, WellTyped(it), TypedForms
    <3> QED BY ONLY <3>1, <3>2
  <2>1. s = <<Chr(it.arg)>> /\ Meaning(it) = <<it.arg>>
    BY ONLY <1>1, <1>8, <2>0, DisplayForms, MeaningForms, ZenonT(60)
  <2>2. Prints(<<Chr(it.arg)>>, <<it.arg>>)
    BY ONLY <2>0, PrintsChr
  <2> QED BY ONLY <1>3, <2>1, <2>2
<1>9. CASE f \in {111, 120, 88}
  <2> DEFINE d == IF f = 111 THEN OCT ELSE IF f = 120 THEN HEX_LOWER ELSE HEX_UPPER
  <2>0. a = it.arg /\ it.arg \in 0..(WIDTH - 1) /\ d \in Bases
    <3>1. d \in Bases
      BY ONLY NotationsAreBases
    <3>2. a = it.arg
      BY ONLY <1>2, <1>9 DEF Known
    <3>3. it.arg \in 0..(WIDTH - 1)
      BY ONLY <1>9, WellTyped(it), TypedForms
    <3> QED BY ONLY <3>1, <3>2, <3>3
  <2>1. s = <<UInt(it.arg, d)>> /\ Meaning(it) = Number(it.arg, d)
    <3>1. CASE f = 111
      <4>1. d = OCT
        BY ONLY <3>1
      <4> HIDE DEF d
      <4>2. s = <<UInt(it.arg, OCT)>>
        BY ONLY <1>1, <2>0, <3>1, DisplayForms
      <4>3. Meaning(it) = Number(it.arg, OCT)
        BY ONLY <1>1, <3>1, MeaningForms
      <4> QED BY ONLY <4>1, <4>2, <4>3
    <3>2. CASE f = 120
      <4>1. d = HEX_LOWER
        BY ONLY <3>2
      <4> HIDE DEF d
      <4>2. s = <<UInt(it.arg, HEX_LOWER)>>
        BY ONLY <1>1, <2>0, <3>2, DisplayForms
      <4>3. Meaning(it) = Number(it.arg, HEX_LOWER)
        BY ONLY <1>1, <3>2, MeaningForms
      <4> QED BY ONLY <4>1, <4>2, <4>3
    <3>3. CASE f = 88
      <4>1. d = HEX_UPPER
        BY ONLY <3>3
      <4> HIDE DEF d
      <4>2. s = <<UInt(it.arg, HEX_UPPER)>>
        BY ONLY <1>1, <2>0, <3>3, DisplayForms
      <4>3. Meaning(it) = Number(it.arg, HEX_UPPER)
        BY ONLY <1>1, <3>3, MeaningForms
      <4> QED BY ONLY <4>1, <4>2, <4>3
    <3> QED BY ONLY <1>9, <3>1, <3>2, <3>3
  <2> HIDE DEF d
  <2>2. Prints(<<UInt(it.arg, d)>>, Numeral(it.arg, d))
    BY ONLY <2>0, PrintsUInt
  <2>3. Exact(it) => Number(it.arg, d) = Numeral(it.arg, d)
    <3>1. Exact(it) => it.arg # 0
      BY ONLY <1>9, Codes DEF Exact
    <3>2. it.arg # 0 => it.arg > 0
      BY ONLY <2>0, Consts
    <3>3. ~(it.arg > 0 /\ (it.arg = 0 \/ it.arg < 0))
      BY ONLY <2>0, Consts
    <3> QED BY ONLY <3>1, <3>2, <3>3 DEF Number
  <2> QED BY ONLY <1>3, <2>1, <2>2, <2>3
<1>10. CASE f = 117
  <2>0. a = it.arg /\ it.arg \in 0..(WIDTH - 1)
    BY ONLY <1>2, <1>10, WellTyped(it), TypedForms DEF Known
  <2>1. s = display_uint(it.arg) /\ Meaning(it) = Number(it.arg, DEC)
    BY ONLY <1>1, <1>10, <2>0, DisplayForms, MeaningForms
  <2>2. Prints(display_uint(it.arg), Number(it.arg, DEC))
    BY ONLY <2>0, PrintsDisplayUint
  <2> QED BY ONLY <1>3, <2>1, <2>2
<1>11. CASE f = 112
  <2> DEFINE w == IF it.arg = 0 THEN NIL ELSE <<48, 120>> \o Numeral(it.arg, HEX_LOWER)
  <2>0. a = it.arg /\ it.arg \in 0..(WIDTH - 1)
    BY ONLY <1>2, <1>11, WellTyped(it), TypedForms DEF Known
  <2>1. s = display_pointer(it.arg) /\ Meaning(it) = w
    BY ONLY <1>1, <1>11, <2>0, DisplayForms, MeaningForms
  <2>2. Prints(display_pointer(it.arg), w)
    BY ONLY <2>0, PrintsDisplayPointer
  <2> HIDE DEF w
  <2> QED BY ONLY <1>3, <2>1, <2>2
<1>12. CASE f = 66
  <2>0. a = it.arg /\ it.arg \in 0..(WIDTH - 1)
    BY ONLY <1>2, <1>12, WellTyped(it), TypedForms DEF Known
  <2>1. s = format_bytes_size(it.arg) /\ Meaning(it) = Amount(it.arg)
    BY ONLY <1>1, <1>12, <2>0, DisplayForms, MeaningForms
  <2>2. /\ Prints(s, ShowAll(s))
        /\ ExactAmount(it.arg) => ShowAll(s) = Amount(it.arg)
    BY ONLY <2>0, <2>1, PrintsAmount
  <2>3. Exact(it) => ExactAmount(it.arg)
    BY ONLY <1>12, Codes DEF Exact
  <2> QED BY ONLY <1>3, <2>1, <2>2, <2>3
<1>13. CASE f = 83
  <2>0. a = it.arg /\ it.arg \in Seq(Char)
    BY ONLY <1>2, <1>13, WellTyped(it), TypedForms DEF Known
  <2>1. s = my_full_putstr(it.arg) /\ Meaning(it) = FlattenSeq([i \in 1..Len(it.arg) |-> Visible(it.arg[i])])
    BY ONLY <1>1, <1>13, <2>0, DisplayForms, MeaningForms
  <2>2. /\ Prints(s, ShowAll(s))
        /\ (\A i \in 1..Len(it.arg) : it.arg[i] < 128) => ShowAll(s) = Meaning(it)
    BY ONLY <2>0, <2>1, PrintsFull
  <2>3. Exact(it) => \A i \in 1..Len(it.arg) : it.arg[i] < 128
    BY ONLY <1>13, Codes DEF Exact
  <2> QED BY ONLY <1>3, <2>1, <2>2, <2>3
<1>14. CASE f \notin Known
  <2>1. s = <<Chr(37), Chr(f)>> /\ Meaning(it) = <<37, f>>
    BY ONLY <1>1, <1>14, DisplayForms, MeaningForms, ZenonT(60)
  <2>2. s = Chars(<<37, f>>)
    <3>1. Len(<<37, f>>) = 2 /\ <<37, f>>[1] = 37 /\ <<37, f>>[2] = f
      OBVIOUS
    <3>2. Chars(<<37, f>>) = <<Chr(37), Chr(f)>>
      BY <3>1 DEF Chars
    <3> QED BY ONLY <2>1, <3>2
  <2>3. <<37, f>> \in Seq(0..255)
    BY <1>1
  <2>4. Prints(s, <<37, f>>)
    BY ONLY <2>2, <2>3, PrintsChars
  <2> QED BY ONLY <1>3, <2>1, <2>4
<1> QED BY ONLY <1>1, <1>4, <1>5, <1>6, <1>7, <1>8, <1>9, <1>10, <1>11, <1>12, <1>13, <1>14 DEF Known

-----------------------------------------------------------------------------
(* What is on the line *)

LEMMA FlattenNothing ==
  ASSUME NEW n \in Nat, NEW g, g \in [1..n -> Seq(Int)], \A i \in 1..n : g[i] = <<>>
  PROVE  FlattenSeq(g) = <<>>
<1>1. /\ Upto(g, 0) = <<>> /\ Upto(g, n) = FlattenSeq(g)
      /\ \A k \in 0..(n - 1) : Upto(g, k + 1) = Upto(g, k) \o g[k + 1]
  BY ONLY n \in Nat, g \in [1..n -> Seq(Int)], UptoStep
<1> DEFINE Bad == {k \in 0..n : Upto(g, k) # <<>>}
<1> SUFFICES ASSUME Bad # {} PROVE FALSE
  <2>1. n \in 0..n
    OBVIOUS
  <2> QED BY <1>1, <2>1
<1>2. PICK k \in Bad : \A y \in Bad : k <= y
  <2>1. Bad \in SUBSET Nat
    OBVIOUS
  <2> HIDE DEF Bad
  <2> QED BY ONLY <2>1, Bad # {}, LeastNat
<1>3. k \in 0..n /\ Upto(g, k) # <<>>
  OBVIOUS
<1>4. k # 0
  BY ONLY <1>1, <1>3
<1>5. k - 1 \in 0..(n - 1) /\ k - 1 \in 0..n /\ ~(k <= k - 1) /\ (k - 1) + 1 = k /\ k \in 1..n
  BY ONLY <1>3, <1>4, n \in Nat
<1>6. Upto(g, k - 1) = <<>>
  BY ONLY <1>2, <1>5
<1>7. g[k] = <<>>
  BY ONLY <1>5, \A i \in 1..n : g[i] = <<>>
<1>8. Upto(g, (k - 1) + 1) = Upto(g, k - 1) \o g[(k - 1) + 1]
  BY ONLY <1>1, <1>5
<1>9. <<>> \o <<>> = <<>>
  OBVIOUS
<1> QED BY ONLY <1>3, <1>5, <1>6, <1>7, <1>8, <1>9

LEMMA WireType ==
  ASSUME NEW m \in Message
  PROVE  /\ Wire(m) \in Seq(Int)
         /\ m.by = "kernel" /\ m.port = SERIAL_PORT => Wire(m) = <<m.c>>
         /\ m.by = "handler" \/ m.port = 0 => Wire(m) = <<>>
<1>1. m.c \in Int
  BY DEF Message
<1>2. <<m.c>> \in Seq(Int) /\ <<>> \in Seq(Int)
  BY ONLY <1>1
<1> QED BY ONLY <1>2 DEF Wire, SERIAL_PORT

LEMMA LineConcat ==
  ASSUME NEW o \in Seq(Message), NEW r \in Seq(Message)
  PROVE  /\ OnLine(o) \in Seq(Int) /\ OnLine(r) \in Seq(Int)
         /\ OnLine(o \o r) = OnLine(o) \o OnLine(r)
<1> DEFINE M(u) == [i \in 1..Len(u) |-> Wire(u[i])]
<1>1. ASSUME NEW u \in Seq(Message)
      PROVE  M(u) \in Seq(Seq(Int)) /\ Len(M(u)) = Len(u) /\ \A i \in 1..Len(u) : M(u)[i] = Wire(u[i])
  <2>1. Len(u) \in Nat /\ \A i \in 1..Len(u) : u[i] \in Message
    BY ONLY u \in Seq(Message)
  <2>2. \A i \in 1..Len(u) : Wire(u[i]) \in Seq(Int)
    BY ONLY <2>1, WireType
  <2> QED BY ONLY <2>1, <2>2
<1> DEFINE w == o \o r
<1>2. /\ w \in Seq(Message) /\ Len(w) = Len(o) + Len(r) /\ Len(o) \in Nat /\ Len(r) \in Nat
      /\ \A i \in 1..Len(w) : w[i] = IF i <= Len(o) THEN o[i] ELSE r[i - Len(o)]
  BY ONLY o \in Seq(Message), r \in Seq(Message)
<1> DEFINE x == M(o)
           y == M(r)
           z == M(w)
<1>3. /\ x \in Seq(Seq(Int)) /\ Len(x) = Len(o) /\ \A i \in 1..Len(o) : x[i] = Wire(o[i])
      /\ y \in Seq(Seq(Int)) /\ Len(y) = Len(r) /\ \A i \in 1..Len(r) : y[i] = Wire(r[i])
      /\ z \in Seq(Seq(Int)) /\ Len(z) = Len(w) /\ \A i \in 1..Len(w) : z[i] = Wire(w[i])
  <2> HIDE DEF M, w
  <2>1. x \in Seq(Seq(Int)) /\ Len(x) = Len(o) /\ \A i \in 1..Len(o) : x[i] = Wire(o[i])
    BY ONLY <1>1, o \in Seq(Message)
  <2>2. y \in Seq(Seq(Int)) /\ Len(y) = Len(r) /\ \A i \in 1..Len(r) : y[i] = Wire(r[i])
    BY ONLY <1>1, r \in Seq(Message)
  <2>3. z \in Seq(Seq(Int)) /\ Len(z) = Len(w) /\ \A i \in 1..Len(w) : z[i] = Wire(w[i])
    BY ONLY <1>1, <1>2
  <2> QED BY ONLY <2>1, <2>2, <2>3
<1>4. OnLine(o) = FlattenSeq(x) /\ OnLine(r) = FlattenSeq(y) /\ OnLine(w) = FlattenSeq(z)
  BY ONLY DEF OnLine
<1> HIDE DEF w, M, x, y, z
<1>5. /\ x \o y \in Seq(Seq(Int)) /\ Len(x \o y) = Len(x) + Len(y)
      /\ \A i \in 1..(Len(x) + Len(y)) : (x \o y)[i] = IF i <= Len(x) THEN x[i] ELSE y[i - Len(x)]
  <2>1. x \in Seq(Seq(Int)) /\ y \in Seq(Seq(Int))
    BY ONLY <1>3
  <2> QED BY ONLY <2>1, ConcatProperties
<1>6. \A i \in 1..Len(z) : z[i] = (x \o y)[i]
  <2> TAKE i \in 1..Len(z)
  <2>1. i \in 1..Len(w) /\ i \in 1..(Len(x) + Len(y))
    BY ONLY <1>2, <1>3, i \in 1..Len(z)
  <2>2. i <= Len(o) => i \in 1..Len(o)
    BY ONLY <1>2, <2>1
  <2>3. ~(i <= Len(o)) => i - Len(o) \in 1..Len(r)
    BY ONLY <1>2, <2>1
  <2> QED BY ONLY <1>2, <1>3, <1>5, <2>1, <2>2, <2>3, ZenonT(60)
<1>7. z = x \o y
  <2> DEFINE v == x \o y
  <2>1. v \in Seq(Seq(Int)) /\ z \in Seq(Seq(Int)) /\ Len(z) = Len(v) /\ \A i \in 1..Len(z) : z[i] = v[i]
    BY ONLY <1>2, <1>3, <1>5, <1>6
  <2> HIDE DEF v
  <2>2. z = v
    BY ONLY <2>1, SeqEqual
  <2> QED BY ONLY <2>2 DEF v
<1>8. /\ FlattenSeq(x) \in Seq(Int) /\ FlattenSeq(y) \in Seq(Int)
      /\ FlattenSeq(x \o y) = FlattenSeq(x) \o FlattenSeq(y)
  BY ONLY <1>3, FlattenConcat
<1> QED BY ONLY <1>4, <1>7, <1>8 DEF w

(* One character of the kernel, and the characters of a handler.           *)
LEMMA LineKernel ==
  ASSUME NEW o \in Seq(Message), NEW m \in Message
  PROVE  o \o <<m>> \in Seq(Message) /\ OnLine(o \o <<m>>) = OnLine(o) \o Wire(m)
<1> DEFINE r == <<m>>
<1>1. r \in Seq(Message) /\ Len(r) = 1 /\ r[1] = m
  OBVIOUS
<1>2. o \o r \in Seq(Message)
  BY ONLY <1>1, o \in Seq(Message), ConcatProperties
<1> HIDE DEF r
<1>3. [i \in 1..Len(r) |-> Wire(r[i])] = <<Wire(m)>>
  BY ONLY <1>1
<1>4. OnLine(r) = Wire(m)
  BY ONLY <1>3, m \in Message, WireType, FlattenOne DEF OnLine
<1>5. OnLine(o \o r) = OnLine(o) \o OnLine(r)
  BY ONLY <1>1, o \in Seq(Message), LineConcat
<1> QED BY ONLY <1>2, <1>4, <1>5 DEF r

LEMMA LineHandler ==
  ASSUME NEW o \in Seq(Message), NEW r \in Seq(Message), \A i \in 1..Len(r) : r[i].by = "handler"
  PROVE  o \o r \in Seq(Message) /\ OnLine(o \o r) = OnLine(o)
<1> DEFINE n == Len(r)
           g == [i \in 1..n |-> Wire(r[i])]
<1>1. n \in Nat /\ \A i \in 1..n : r[i] \in Message
  BY ONLY r \in Seq(Message), LenProperties, ElementOfSeq
<1>2. \A i \in 1..n : Wire(r[i]) = <<>>
  BY ONLY <1>1, WireType, \A i \in 1..n : r[i].by = "handler"
<1>3. g \in [1..n -> Seq(Int)] /\ \A i \in 1..n : g[i] = <<>>
  BY ONLY <1>2, EmptySeq
<1>4. OnLine(r) = FlattenSeq(g)
  BY ONLY DEF OnLine
<1> HIDE DEF g, n
<1>5. OnLine(r) = <<>>
  BY ONLY <1>1, <1>3, <1>4, FlattenNothing
<1>6. OnLine(o \o r) = OnLine(o) \o <<>> /\ OnLine(o) \in Seq(Int)
  BY ONLY <1>5, o \in Seq(Message), r \in Seq(Message), LineConcat
<1>7. OnLine(o) \o <<>> = OnLine(o)
  BY ONLY <1>6, ConcatEmptySeq
<1> QED BY ONLY <1>6, <1>7, o \in Seq(Message), r \in Seq(Message), ConcatProperties

-----------------------------------------------------------------------------
(* Positions in a format *)

LEMMA ExactMeaning ==
  ASSUME NEW it, WellTyped(it), Exact(it)
  PROVE  Meaning(it) \in Seq(Int)
<1>1. CASE it.flag = LITERAL
  <2>1. it.flag = 0 /\ it.flag \in Nat
    BY ONLY <1>1 DEF LITERAL
  <2>2. Meaning(it) = <<it.arg>>
    BY ONLY <2>1, MeaningForms
  <2>3. it.arg \in Char
    BY ONLY <2>1, WellTyped(it), TypedForms
  <2>4. it.arg \in Int
    BY ONLY <2>3 DEF Char
  <2> QED BY ONLY <2>2, <2>4
<1>2. CASE it.flag # LITERAL
  <2> DEFINE s == DisplayTasks(it.flag, it.arg)
  <2>1. Displays(s, it)
    BY ONLY <1>2, WellTyped(it), DisplayShown
  <2>2. s \in Seq(Tasks) /\ ShowAll(s) = Meaning(it)
    BY ONLY <2>1, Exact(it) DEF Displays
  <2> HIDE DEF s
  <2>3. ShowAll(s) \in Seq(Int)
    BY ONLY <2>2, ShowConcat
  <2> QED BY ONLY <2>2, <2>3
<1> QED BY ONLY <1>1, <1>2

ArgsOf(items) == {items[i].arg : i \in 1..Len(items)}

LEMMA ItemsTyped ==
  ASSUME NEW items, WellFormed(items), NEW N, N = Len(items)
  PROVE  /\ N \in Nat /\ \A i \in 1..N : WellTyped(items[i])
         /\ Pieces(items) \in [1..N -> Seq(Int)]
         /\ \A i \in 1..N : Pieces(items)[i] = Piece(items[i])
         /\ Passes(items) \in [1..N -> Seq(ArgsOf(items))]
         /\ \A i \in 1..N : Passes(items)[i] = Passed(items[i])
         /\ (\A i \in 1..N : Exact(items[i])) => Meanings(items) \in [1..N -> Seq(Int)]
         /\ \A i \in 1..N : Meanings(items)[i] = Meaning(items[i])
<1>1. N \in Nat /\ DOMAIN items = 1..N
  BY DEF WellFormed
<1>2. \A i \in 1..N : WellTyped(items[i])
  BY <1>1 DEF WellFormed, Range
<1>3. ASSUME NEW i \in 1..N
      PROVE  Piece(items[i]) \in Seq(Int) /\ Passed(items[i]) \in Seq(ArgsOf(items))
  <2> DEFINE it == items[i]
  <2>1. WellTyped(it) /\ it.arg \in ArgsOf(items)
    BY <1>2 DEF ArgsOf
  <2> HIDE DEF it
  <2>2. it.flag \in Int /\ (it.flag = 0 => it.arg \in Int)
    <3>1. it.flag \in Nat /\ (it.flag = 0 => it.arg \in Char)
      BY ONLY <2>1, TypedForms
    <3> QED BY ONLY <3>1 DEF Char
  <2>3. Piece(it) \in Seq(Int)
    BY <2>2, Codes DEF Piece, LITERAL
  <2>4. <<it.arg>> \in Seq(ArgsOf(items)) /\ <<>> \in Seq(ArgsOf(items))
    BY <2>1
  <2>5. Passed(it) \in Seq(ArgsOf(items))
    BY ONLY <2>4 DEF Passed
  <2> QED BY ONLY <2>3, <2>5 DEF it
<1>4. /\ Pieces(items) \in [1..N -> Seq(Int)]
      /\ \A i \in 1..N : Pieces(items)[i] = Piece(items[i])
  BY ONLY <1>3, N = Len(items) DEF Pieces
<1>5. /\ Passes(items) \in [1..N -> Seq(ArgsOf(items))]
      /\ \A i \in 1..N : Passes(items)[i] = Passed(items[i])
  BY ONLY <1>3, N = Len(items) DEF Passes
<1>6. ASSUME \A i \in 1..N : Exact(items[i])
      PROVE  Meanings(items) \in [1..N -> Seq(Int)]
  <2>1. \A i \in 1..N : Meaning(items[i]) \in Seq(Int)
    BY ONLY <1>2, <1>6, ExactMeaning
  <2> QED BY ONLY <2>1, N = Len(items) DEF Meanings
<1>7. \A i \in 1..N : Meanings(items)[i] = Meaning(items[i])
  BY ONLY N = Len(items) DEF Meanings
<1> QED BY ONLY <1>1, <1>2, <1>4, <1>5, <1>6, <1>7

(* The text and the arguments at it, the item after the first k.           *)
Found(items, k, it) ==
  LET P == Pieces(items)
      A == Passes(items)
  IN  /\ WellTyped(it)
      /\ Len(Upto(P, k)) \in Nat /\ Len(Upto(A, k)) \in Nat
      /\ it.flag = LITERAL =>
           /\ Len(Upto(P, k + 1)) = Len(Upto(P, k)) + 1
           /\ FlattenSeq(P)[Len(Upto(P, k)) + 1] = it.arg
      /\ it.flag # LITERAL =>
           /\ Len(Upto(P, k + 1)) = Len(Upto(P, k)) + 2
           /\ FlattenSeq(P)[Len(Upto(P, k)) + 1] = C.percent
           /\ FlattenSeq(P)[Len(Upto(P, k)) + 2] = it.flag
      /\ Takes(it.flag) =>
           /\ Len(Upto(A, k + 1)) = Len(Upto(A, k)) + 1
           /\ FlattenSeq(A)[Len(Upto(A, k)) + 1] = it.arg
      /\ ~Takes(it.flag) => Len(Upto(A, k + 1)) = Len(Upto(A, k))
      /\ Len(Upto(P, k + 1)) <= Len(FlattenSeq(P))
      /\ Len(Upto(A, k + 1)) <= Len(FlattenSeq(A))

LEMMA AtItem ==
  ASSUME NEW items, WellFormed(items), NEW k \in 0..(Len(items) - 1), NEW it, it = items[k + 1]
  PROVE  Found(items, k, it)
<1> DEFINE P == Pieces(items)
           A == Passes(items)
           N == Len(items)
<1>1. /\ N \in Nat /\ \A i \in 1..N : WellTyped(items[i])
      /\ P \in [1..N -> Seq(Int)] /\ \A i \in 1..N : P[i] = Piece(items[i])
      /\ A \in [1..N -> Seq(ArgsOf(items))] /\ \A i \in 1..N : A[i] = Passed(items[i])
  BY ONLY WellFormed(items), ItemsTyped
<1> HIDE DEF P, A
<1>2. k \in 0..(N - 1) /\ k + 1 \in 1..N
  BY <1>1
<1> HIDE DEF N
<1>3. WellTyped(it) /\ P[k + 1] = Piece(it) /\ A[k + 1] = Passed(it)
  BY ONLY <1>1, <1>2, it = items[k + 1]
<1>4. /\ Len(Upto(P, k)) \in Nat
      /\ Len(Upto(P, k + 1)) = Len(Upto(P, k)) + Len(P[k + 1])
      /\ Len(Upto(P, k + 1)) <= Len(FlattenSeq(P))
      /\ \A j \in 1..Len(P[k + 1]) : FlattenSeq(P)[Len(Upto(P, k)) + j] = P[k + 1][j]
  <2>1. N \in Nat /\ P \in [1..N -> Seq(Int)] /\ k \in 0..(N - 1)
    BY ONLY <1>1, <1>2
  <2>2. N \in Nat /\ P \in [1..N -> Seq(Int)]
    BY ONLY <2>1
  <2>3. \A i \in 0..(N - 1) : Located(P, i)
    BY ONLY <2>2, UptoAt
  <2> QED BY ONLY <2>1, <2>3 DEF Located
<1>5. /\ Len(Upto(A, k)) \in Nat
      /\ Len(Upto(A, k + 1)) = Len(Upto(A, k)) + Len(A[k + 1])
      /\ Len(Upto(A, k + 1)) <= Len(FlattenSeq(A))
      /\ \A j \in 1..Len(A[k + 1]) : FlattenSeq(A)[Len(Upto(A, k)) + j] = A[k + 1][j]
  <2>1. N \in Nat /\ A \in [1..N -> Seq(ArgsOf(items))] /\ k \in 0..(N - 1)
    BY ONLY <1>1, <1>2
  <2>2. N \in Nat /\ A \in [1..N -> Seq(ArgsOf(items))]
    BY ONLY <2>1
  <2>3. \A i \in 0..(N - 1) : Located(A, i)
    BY ONLY <2>2, UptoAt
  <2> QED BY ONLY <2>1, <2>3 DEF Located
<1>6. /\ it.flag = LITERAL => Len(Piece(it)) = 1 /\ Piece(it)[1] = it.arg
      /\ it.flag # LITERAL => Len(Piece(it)) = 2 /\ Piece(it)[1] = C.percent /\ Piece(it)[2] = it.flag
  BY ONLY DEF Piece
<1>7. /\ Takes(it.flag) => Len(Passed(it)) = 1 /\ Passed(it)[1] = it.arg
      /\ ~Takes(it.flag) => Len(Passed(it)) = 0
  BY ONLY DEF Passed
<1>8. ASSUME it.flag = LITERAL
      PROVE  /\ Len(Upto(P, k + 1)) = Len(Upto(P, k)) + 1
             /\ FlattenSeq(P)[Len(Upto(P, k)) + 1] = it.arg
  <2>1. Len(P[k + 1]) = 1 /\ P[k + 1][1] = it.arg
    BY ONLY <1>3, <1>6, <1>8
  <2>2. 1 \in 1..Len(P[k + 1])
    BY ONLY <2>1
  <2> QED BY ONLY <1>4, <2>1, <2>2
<1>9. ASSUME it.flag # LITERAL
      PROVE  /\ Len(Upto(P, k + 1)) = Len(Upto(P, k)) + 2
             /\ FlattenSeq(P)[Len(Upto(P, k)) + 1] = C.percent
             /\ FlattenSeq(P)[Len(Upto(P, k)) + 2] = it.flag
  BY ONLY <1>3, <1>4, <1>6, <1>9, SMTT(40)
<1>10. ASSUME Takes(it.flag)
       PROVE  /\ Len(Upto(A, k + 1)) = Len(Upto(A, k)) + 1
              /\ FlattenSeq(A)[Len(Upto(A, k)) + 1] = it.arg
  <2>1. Len(A[k + 1]) = 1 /\ A[k + 1][1] = it.arg
    BY ONLY <1>3, <1>7, <1>10
  <2>2. 1 \in 1..Len(A[k + 1])
    BY ONLY <2>1
  <2> QED BY ONLY <1>5, <2>1, <2>2
<1>11. ASSUME ~Takes(it.flag) PROVE Len(Upto(A, k + 1)) = Len(Upto(A, k))
  BY ONLY <1>3, <1>5, <1>7, <1>11
<1> QED BY ONLY <1>3, <1>4, <1>5, <1>8, <1>9, <1>10, <1>11 DEF P, A, Found

LEMMA AtEnd ==
  ASSUME NEW items, WellFormed(items), NEW k \in 0..Len(items)
  PROVE  LET P == Pieces(items)
             A == Passes(items)
         IN  /\ Len(Upto(P, k)) \in 0..Len(FlattenSeq(P)) /\ Len(Upto(A, k)) \in 0..Len(FlattenSeq(A))
             /\ k = Len(items) <=> 1 + Len(Upto(P, k)) > Len(FlattenSeq(P))
             /\ Len(FlattenSeq(P)) \in Nat /\ Len(FlattenSeq(A)) \in Nat
<1> DEFINE P == Pieces(items)
           A == Passes(items)
           N == Len(items)
<1>1. N \in Nat /\ P \in [1..N -> Seq(Int)] /\ A \in [1..N -> Seq(ArgsOf(items))]
  BY ONLY WellFormed(items), ItemsTyped
<1> HIDE DEF P, A
<1>2. Upto(P, N) = FlattenSeq(P) /\ Upto(P, N) \in Seq(Int)
  <2>1. N \in 0..N
    BY ONLY <1>1
  <2> QED BY ONLY <1>1, <2>1, UptoStep, ZenonT(60)
<1>3. Upto(A, N) = FlattenSeq(A) /\ Upto(A, N) \in Seq(ArgsOf(items))
  <2>1. N \in 0..N
    BY ONLY <1>1
  <2> QED BY ONLY <1>1, <2>1, UptoStep
<1>4. /\ Len(Upto(P, N)) \in Nat /\ Len(Upto(P, N)) = Len(FlattenSeq(P))
      /\ Len(Upto(A, N)) \in Nat /\ Len(Upto(A, N)) = Len(FlattenSeq(A))
  BY ONLY <1>2, <1>3, LenProperties
<1>5. CASE k = N
  BY ONLY <1>4, <1>5 DEF P, A
<1>6. CASE k # N
  <2> DEFINE it == items[k + 1]
  <2>1. k \in 0..(Len(items) - 1)
    BY ONLY <1>1, <1>6, k \in 0..Len(items)
  <2> HIDE DEF it
  <2>2. /\ Len(Upto(P, k)) \in Nat /\ Len(Upto(A, k)) \in Nat
        /\ it.flag = LITERAL => Len(Upto(P, k + 1)) = Len(Upto(P, k)) + 1
        /\ it.flag # LITERAL => Len(Upto(P, k + 1)) = Len(Upto(P, k)) + 2
        /\ Takes(it.flag) => Len(Upto(A, k + 1)) = Len(Upto(A, k)) + 1
        /\ ~Takes(it.flag) => Len(Upto(A, k + 1)) = Len(Upto(A, k))
        /\ Len(Upto(P, k + 1)) <= Len(FlattenSeq(P))
        /\ Len(Upto(A, k + 1)) <= Len(FlattenSeq(A))
    <3>1. Found(items, k, it)
      BY ONLY <2>1, WellFormed(items), AtItem DEF it
    <3> QED BY ONLY <3>1 DEF Found, P, A
  <2>3. Len(FlattenSeq(P)) \in Nat /\ Len(FlattenSeq(A)) \in Nat
    BY ONLY <1>4
  <2>4. /\ Len(Upto(P, k)) + 1 <= Len(FlattenSeq(P))
        /\ Len(Upto(A, k)) <= Len(FlattenSeq(A))
    BY ONLY <2>2, <2>3, SMTT(40)
  <2>5. /\ Len(Upto(P, k)) \in 0..Len(FlattenSeq(P)) /\ Len(Upto(A, k)) \in 0..Len(FlattenSeq(A))
        /\ ~(1 + Len(Upto(P, k)) > Len(FlattenSeq(P)))
    BY ONLY <2>2, <2>3, <2>4
  <2> QED BY ONLY <1>6, <2>3, <2>5 DEF P, A, N
<1> QED BY ONLY <1>5, <1>6 DEF N

-----------------------------------------------------------------------------
(* What every step keeps *)

LEMMA TailOf ==
  ASSUME NEW S, NEW s \in Seq(S), s # <<>>
  PROVE  /\ Head(s) = s[1] /\ Len(s) \in Nat /\ 1 \in 1..Len(s)
         /\ Tail(s) \in Seq(S) /\ Len(Tail(s)) = Len(s) - 1
         /\ \A i \in 1..Len(Tail(s)) : i + 1 \in 1..Len(s) /\ Tail(s)[i] = s[i + 1]
         /\ \A i \in 1..Len(s) : i # 1 => i - 1 \in 1..Len(Tail(s)) /\ Tail(s)[i - 1] = s[i]
<1>1. Len(s) \in Nat /\ Len(s) # 0 /\ Head(s) = s[1]
  OBVIOUS
<1>2. Tail(s) \in Seq(S) /\ Len(Tail(s)) = Len(s) - 1 /\ \A i \in 1..(Len(s) - 1) : Tail(s)[i] = s[i + 1]
  OBVIOUS
<1> DEFINE t == Tail(s)
<1>3. t \in Seq(S) /\ Len(t) = Len(s) - 1 /\ \A i \in 1..(Len(s) - 1) : t[i] = s[i + 1]
  BY ONLY <1>2
<1> HIDE DEF t
<1>4. \A i \in 1..Len(t) : i + 1 \in 1..Len(s) /\ t[i] = s[i + 1]
  BY ONLY <1>1, <1>3
<1>5. \A i \in 1..Len(s) : i # 1 => i - 1 \in 1..Len(t) /\ t[i - 1] = s[i]
  <2> TAKE i \in 1..Len(s)
  <2> SUFFICES ASSUME i # 1 PROVE i - 1 \in 1..Len(t) /\ t[i - 1] = s[i]
    OBVIOUS
  <2>1. i - 1 \in 1..(Len(s) - 1) /\ (i - 1) + 1 = i
    BY ONLY <1>1, i \in 1..Len(s), i # 1
  <2> QED BY ONLY <1>3, <2>1
<1>6. 1 \in 1..Len(s)
  BY ONLY <1>1
<1> QED BY ONLY <1>1, <1>3, <1>4, <1>5, <1>6 DEF t

(* A call, the first of s, gives way to the calls r it makes.              *)
Among(t, r, s) == \A j \in 1..Len(t) :
  (\E i \in 1..Len(r) : t[j] = r[i]) \/ (\E i \in 1..Len(s) : t[j] = s[i])
Keeps(t, s) == \A i \in 1..Len(s) : i # 1 => \E j \in 1..Len(t) : t[j] = s[i]

LEMMA Replaced ==
  ASSUME NEW s \in Seq(Tasks), s # <<>>, NEW r \in Seq(Tasks), NEW t, t = r \o Tail(s)
  PROVE  /\ t \in Seq(Tasks)
         /\ Among(t, r, s)
         /\ Keeps(t, s)
         /\ ShowAll(t) = ShowAll(r) \o ShowAll(Tail(s))
<1> DEFINE q == Tail(s)
<1>1. /\ Len(s) \in Nat /\ q \in Seq(Tasks) /\ Len(q) = Len(s) - 1
      /\ \A i \in 1..Len(q) : i + 1 \in 1..Len(s) /\ q[i] = s[i + 1]
      /\ \A i \in 1..Len(s) : i # 1 => i - 1 \in 1..Len(q) /\ q[i - 1] = s[i]
  BY ONLY s \in Seq(Tasks), s # <<>>, TailOf
<1> HIDE DEF q
<1>2. t = r \o q
  BY ONLY t = r \o Tail(s) DEF q
<1>3. /\ t \in Seq(Tasks) /\ Len(t) = Len(r) + Len(q) /\ Len(r) \in Nat /\ Len(q) \in Nat
      /\ \A i \in 1..(Len(r) + Len(q)) : t[i] = IF i <= Len(r) THEN r[i] ELSE q[i - Len(r)]
  <2>1. q \in Seq(Tasks)
    BY ONLY <1>1
  <2> QED BY ONLY <1>2, <2>1, r \in Seq(Tasks), ConcatProperties, LenProperties
<1>4. ASSUME NEW j \in 1..Len(t)
      PROVE  (\E i \in 1..Len(r) : t[j] = r[i]) \/ (\E i \in 1..Len(s) : t[j] = s[i])
  <2>1. CASE j <= Len(r)
    <3>1. j \in 1..Len(r) /\ t[j] = r[j]
      BY ONLY <1>3, <2>1, j \in 1..Len(t)
    <3> QED BY ONLY <3>1
  <2>2. CASE ~(j <= Len(r))
    <3> DEFINE i == j - Len(r)
    <3>1. i \in 1..Len(q) /\ t[j] = q[i]
      BY ONLY <1>3, <2>2, j \in 1..Len(t)
    <3> HIDE DEF i
    <3>2. i + 1 \in 1..Len(s) /\ t[j] = s[i + 1]
      BY ONLY <1>1, <3>1
    <3> QED BY ONLY <3>2
  <2> QED BY ONLY <2>1, <2>2
<1>5. ASSUME NEW i \in 1..Len(s), i # 1
      PROVE  \E j \in 1..Len(t) : t[j] = s[i]
  <2> DEFINE e == i - 1
             j == Len(r) + e
  <2>1. e \in 1..Len(q) /\ q[e] = s[i]
    BY ONLY <1>1, <1>5
  <2> HIDE DEF e
  <2>2. j \in 1..Len(t) /\ j \in 1..(Len(r) + Len(q)) /\ ~(j <= Len(r)) /\ j - Len(r) = e
    BY ONLY <1>3, <2>1
  <2> HIDE DEF j
  <2>3. t[j] = q[e]
    BY ONLY <1>3, <2>2
  <2> QED BY ONLY <2>1, <2>2, <2>3
<1>6. ShowAll(t) = ShowAll(r) \o ShowAll(q)
  BY ONLY <1>1, <1>2, r \in Seq(Tasks), ShowConcat
<1> QED BY ONLY <1>3, <1>4, <1>5, <1>6 DEF q, Among, Keeps

LEMMA LiteralItems ==
  ASSUME NEW m \in Seq(Char)
  PROVE  /\ Len(Literals(m)) = Len(m) /\ Len(m) \in Nat
         /\ AllExact(Literals(m)) /\ NoLeast(Literals(m))
         /\ Text(Literals(m)) = m /\ Args(Literals(m)) = <<>>
         /\ FlattenSeq(Meanings(Literals(m))) = m
<1> DEFINE l == Literals(m)
           n == Len(m)
<1>1. n \in Nat /\ \A i \in 1..n : m[i] \in Char
  BY ONLY m \in Seq(Char), LenProperties, ElementOfSeq
<1>2. Len(l) = n /\ \A i \in 1..n : l[i].flag = 0 /\ l[i].arg = m[i]
  BY ONLY <1>1 DEF Literals, LITERAL
<1> HIDE DEF l
<1>3. \A i \in 1..n : ~LeastInt(l[i]) /\ Exact(l[i])
  <2> TAKE i \in 1..n
  <2> DEFINE it == l[i]
  <2>1. it.flag = 0
    BY ONLY <1>2
  <2> HIDE DEF it
  <2>2. ~LeastInt(it) /\ Exact(it)
    BY ONLY <2>1, Codes DEF LeastInt, Exact
  <2> QED BY ONLY <2>2 DEF it
<1>4. \A i \in 1..n : Meaning(l[i]) = <<m[i]>>
  <2> TAKE i \in 1..n
  <2> DEFINE it == l[i]
  <2>1. it.flag = 0 /\ it.arg = m[i] /\ it.flag \in Nat
    BY ONLY <1>2
  <2> HIDE DEF it
  <2>2. Meaning(it) = <<it.arg>>
    BY ONLY <2>1, MeaningForms
  <2> QED BY ONLY <2>1, <2>2 DEF it
<1>5. \A i \in 1..n : Piece(l[i]) = <<m[i]>> /\ Passed(l[i]) = <<>>
  <2> TAKE i \in 1..n
  <2> DEFINE it == l[i]
  <2>1. it.flag = 0 /\ it.arg = m[i]
    BY ONLY <1>2
  <2> HIDE DEF it
  <2>2. it.flag = LITERAL /\ ~Takes(it.flag)
    BY ONLY <2>1, Codes DEF LITERAL, Takes
  <2>3. Piece(it) = <<it.arg>> /\ Passed(it) = <<>>
    BY ONLY <2>2 DEF Piece, Passed
  <2> QED BY ONLY <2>1, <2>3 DEF it
<1>6. FlattenSeq([i \in 1..n |-> <<m[i]>>]) = m
  BY ONLY m \in Seq(Char), FlattenSingles
<1>7. Meanings(l) = [i \in 1..n |-> <<m[i]>>]
  BY ONLY <1>2, <1>4 DEF Meanings
<1>8. [i \in 1..Len(l) |-> Piece(l[i])] = [i \in 1..n |-> <<m[i]>>]
  BY ONLY <1>2, <1>5
<1>9. Args(l) = <<>>
  <2> DEFINE g == [i \in 1..Len(l) |-> Passed(l[i])]
  <2>1. \A i \in 1..n : g[i] = <<>>
    BY ONLY <1>2, <1>5
  <2>2. g \in [1..n -> Seq(Int)]
    <3>1. <<>> \in Seq(Int)
      OBVIOUS
    <3> QED BY ONLY <1>2, <2>1, <3>1
  <2>3. Args(l) = FlattenSeq(g)
    BY ONLY DEF Args
  <2> HIDE DEF g
  <2> QED BY ONLY <1>1, <2>1, <2>2, <2>3, FlattenNothing
<1> QED BY ONLY <1>1, <1>2, <1>3, <1>6, <1>7, <1>8, <1>9 DEF l, Text, AllExact, NoLeast

(* Characters move from what is left to print to the line.                 *)
LEMMA Carried ==
  ASSUME CallInv, PositionInv, UNCHANGED <<pc, fmt, cursor, argi, uart_addr>>,
         fmt.early = TRUE => OnLine(out') = <<>>,
         fmt.early = FALSE /\ AllExact(fmt.items) =>
           OnLine(out') \o ShowAll(todo') = OnLine(out) \o ShowAll(todo)
  PROVE  CallInv' /\ PositionInv'
<1>1. CallInv'
  BY DEF CallInv
<1>2. ASSUME fmt.by = "printk"
      PROVE  /\ cursor = 1 /\ argi = 1
             /\ fmt.early = FALSE => OnLine(out') \o ShowAll(todo') = fmt.text
  <2>1. fmt.text \in Seq(Char) /\ fmt.items = Literals(fmt.text)
    BY <1>2 DEF CallInv, Verbatim
  <2>2. AllExact(fmt.items)
    BY ONLY <2>1, LiteralItems
  <2> QED BY <1>2, <2>2 DEF PositionInv
<1>3. ASSUME fmt.by = "kprintf"
      PROVE  \E k \in 0..Len(fmt.items) :
               /\ Reached(fmt.items, k, cursor, argi)
               /\ pc = "main" => k = Len(fmt.items)
               /\ fmt.early = FALSE /\ AllExact(fmt.items) =>
                    OnLine(out') \o ShowAll(todo') = Upto(Meanings(fmt.items), k)
  <2>1. PICK k \in 0..Len(fmt.items) :
           /\ Reached(fmt.items, k, cursor, argi)
           /\ pc = "main" => k = Len(fmt.items)
           /\ fmt.early = FALSE /\ AllExact(fmt.items) =>
                OnLine(out) \o ShowAll(todo) = Upto(Meanings(fmt.items), k)
    BY <1>3 DEF PositionInv
  <2>2. fmt.early = FALSE /\ AllExact(fmt.items) =>
          OnLine(out') \o ShowAll(todo') = Upto(Meanings(fmt.items), k)
    BY <2>1
  <2> QED BY ONLY <2>1, <2>2
<1>4. PositionInv'
  <2>1. pc' = pc /\ fmt' = fmt /\ cursor' = cursor /\ argi' = argi
    OBVIOUS
  <2> QED BY ONLY <1>2, <1>3, <2>1 DEF PositionInv
<1> QED BY ONLY <1>1, <1>4

(* A call gives way to calls that do not concern the screen.               *)
LEMMA TodoStep ==
  ASSUME IInv, todo # <<>>, Head(todo).op # "print_char_on_screen",
         NEW r \in Seq(Tasks), NotScreen(r), NoLeast(fmt.items) => AllShallow(r),
         todo' = r \o Tail(todo), UNCHANGED <<pc, fmt, uart_addr, screen, calls, interrupts>>,
         out' \in Seq(Message), count' \in Nat
  PROVE  Typed' /\ DepthInv' /\ ScreenInv'
<1> DEFINE s == todo
           t == todo'
<1>1. s \in Seq(Tasks) /\ s # <<>> /\ AllPlaced(s)
  BY DEF IInv, Typed
<1>2. /\ t \in Seq(Tasks)
      /\ Among(t, r, s)
      /\ Keeps(t, s)
  <2> HIDE DEF s, t
  <2>1. t = r \o Tail(s)
    BY todo' = r \o Tail(todo) DEF s, t
  <2> QED BY ONLY <1>1, <2>1, r \in Seq(Tasks), Replaced
<1>3. s[1].op # "print_char_on_screen"
  <2>1. s \in Seq(Tasks) /\ s # <<>>
    BY ONLY <1>1
  <2>2. Head(s) = s[1]
    BY ONLY <2>1, TailOf
  <2> QED BY ONLY <2>2, Head(todo).op # "print_char_on_screen"
<1>4. AllPlaced(t)
  <2> HIDE DEF s, t
  <2> SUFFICES ASSUME NEW j \in 1..Len(t) PROVE Placed(t[j])
    BY DEF AllPlaced
  <2>1. ASSUME NEW i \in 1..Len(r), t[j] = r[i] PROVE Placed(t[j])
    BY ONLY <2>1, NotScreen(r) DEF Placed, NotScreen
  <2>2. ASSUME NEW i \in 1..Len(s), t[j] = s[i] PROVE Placed(t[j])
    BY ONLY <1>1, <2>2 DEF AllPlaced
  <2> QED BY ONLY <1>2, <2>1, <2>2, j \in 1..Len(t) DEF Among
<1>5. Typed'
  <2>1. /\ pc \in {"main", "kprintf", "printk", "overflow"} /\ uart_addr \in {0, SERIAL_PORT}
        /\ pc \in {"main", "overflow"} => todo = <<>>
        /\ screen \in [0..(Columns - 1) -> 0..255]
        /\ calls \in 0..MaxCalls /\ interrupts \in 0..MaxInterrupts
    BY DEF IInv, Typed
  <2>2. pc \notin {"main", "overflow"}
    BY ONLY <1>1, <2>1
  <2>3. todo' \in Seq(Tasks) /\ AllPlaced(todo')
    BY ONLY <1>2, <1>4
  <2> QED BY ONLY <2>1, <2>2, <2>3, out' \in Seq(Message), count' \in Nat,
             UNCHANGED <<pc, fmt, uart_addr, screen, calls, interrupts>> DEF Typed
<1>6. DepthInv'
  <2>1. NoLeast(fmt.items) => pc # "overflow" /\ AllShallow(s)
    BY DEF IInv, DepthInv
  <2>2. NoLeast(fmt.items) => AllShallow(t)
    <3> HIDE DEF s, t
    <3> QED BY ONLY <1>2, <2>1, NoLeast(fmt.items) => AllShallow(r) DEF AllShallow, Among
  <2> QED BY ONLY <2>1, <2>2, UNCHANGED <<pc, fmt, uart_addr, screen, calls, interrupts>> DEF DepthInv
<1>7. ScreenInv'
  <2>1. Legible(screen)
    BY DEF IInv, ScreenInv
  <2>2. ASSUME Writes(s, fmt.text) PROVE Writes(t, fmt.text)
    <3> HIDE DEF s, t
    <3> QED BY ONLY <1>2, <2>2, NotScreen(r) DEF Writes, NotScreen, Among
  <2>3. ASSUME NEW i, Pending(s, i) PROVE Pending(t, i)
    <3>1. PICK j \in 1..Len(s) : s[j].op = "print_char_on_screen" /\ s[j].nested = i - 1
      BY ONLY <2>3 DEF Pending
    <3>2. j # 1
      BY ONLY <1>3, <3>1
    <3>3. PICK e \in 1..Len(t) : t[e] = s[j]
      BY ONLY <1>2, <3>2, j \in 1..Len(s) DEF Keeps
    <3> QED BY ONLY <3>1, <3>3 DEF Pending
  <2>4. /\ fmt.by = "printk" => Writes(s, fmt.text)
        /\ fmt.by = "printk" /\ interrupts = 0 =>
             \A i \in 1..Len(fmt.text) : screen[i - 1] = fmt.text[i] \/ Pending(s, i)
    BY DEF IInv, ScreenInv
  <2>5. fmt' = fmt /\ screen' = screen /\ interrupts' = interrupts
    OBVIOUS
  <2> HIDE DEF s, t
  <2>6. /\ fmt.by = "printk" => Writes(t, fmt.text)
        /\ fmt.by = "printk" /\ interrupts = 0 =>
             \A i \in 1..Len(fmt.text) : screen[i - 1] = fmt.text[i] \/ Pending(t, i)
    BY ONLY <2>2, <2>3, <2>4
  <2> QED BY ONLY <2>1, <2>5, <2>6 DEF ScreenInv, t
<1> QED BY ONLY <1>5, <1>6, <1>7

LEMMA UintInv ==
  ASSUME IInv, my_put_uint_base
  PROVE  IInv'
<1> DEFINE h == Head(todo)
           r == UintTasks(h)
<1>1. /\ todo # <<>> /\ h.op = "my_put_uint_base" /\ todo' = r \o Tail(todo)
      /\ UNCHANGED <<pc, fmt, cursor, argi, uart_addr, out, screen, count, calls, interrupts>>
  BY DEF my_put_uint_base
<1>2. todo \in Seq(Tasks) /\ out \in Seq(Message) /\ count \in Nat
  BY DEF IInv, Typed
<1>3. /\ h \in Tasks /\ Tail(todo) \in Seq(Tasks)
      /\ ShowAll(todo) = Show(h) \o ShowAll(Tail(todo))
  BY ONLY <1>1, <1>2, ShowHead
<1>4. r \in Seq(Tasks) /\ ShowAll(r) = Show(h) /\ NotScreen(r) /\ AllShallow(r)
  <2> HIDE DEF h
  <2> QED BY ONLY <1>1, <1>3, UintStep
<1>5. ShowAll(todo') = ShowAll(r) \o ShowAll(Tail(todo))
  <2> HIDE DEF r
  <2> QED BY ONLY <1>1, <1>2, <1>4, Replaced
<1>6. h.op # "print_char_on_screen" /\ out' \in Seq(Message) /\ count' \in Nat
  BY ONLY <1>1, <1>2
<1>7. Typed' /\ DepthInv' /\ ScreenInv'
  <2> HIDE DEF r
  <2>1. UNCHANGED <<pc, fmt, uart_addr, screen, calls, interrupts>>
    BY ONLY <1>1
  <2> QED BY ONLY <1>1, <1>4, <1>6, <2>1, IInv, TodoStep DEF h
<1>8. CallInv' /\ PositionInv'
  <2>1. OnLine(out') = OnLine(out) /\ ShowAll(todo') = ShowAll(todo)
    BY ONLY <1>1, <1>3, <1>4, <1>5
  <2>2. CallInv /\ PositionInv /\ UNCHANGED <<pc, fmt, cursor, argi, uart_addr>>
    BY ONLY <1>1, IInv DEF IInv
  <2>3. fmt.early = TRUE => OnLine(out') = <<>>
    BY ONLY <2>1, <2>2 DEF CallInv
  <2>4. OnLine(out') \o ShowAll(todo') = OnLine(out) \o ShowAll(todo)
    BY ONLY <2>1
  <2> QED BY ONLY <2>2, <2>3, <2>4, Carried
<1> QED BY ONLY <1>7, <1>8 DEF IInv

(* The stack overflows for the least int alone.                            *)
LEMMA NbrInv ==
  ASSUME IInv, my_put_nbr_base
  PROVE  IInv'
<1> DEFINE h == Head(todo)
           r == NbrTasks(h)
<1>1. /\ todo # <<>> /\ h.op = "my_put_nbr_base"
      /\ UNCHANGED <<fmt, cursor, argi, uart_addr, out, screen, count, calls, interrupts>>
      /\ h.nested > MaxNested => pc' = "overflow" /\ todo' = <<>>
      /\ ~(h.nested > MaxNested) => pc' = pc /\ todo' = r \o Tail(todo)
  BY DEF my_put_nbr_base
<1>2. /\ todo \in Seq(Tasks) /\ out \in Seq(Message) /\ count \in Nat
      /\ pc \in {"main", "overflow"} => todo = <<>>
      /\ pc \in {"main", "kprintf", "printk", "overflow"}
  BY DEF IInv, Typed
<1>3. /\ h \in Tasks /\ Tail(todo) \in Seq(Tasks)
      /\ ShowAll(todo) = Show(h) \o ShowAll(Tail(todo))
  BY ONLY <1>1, <1>2, ShowHead
<1>4. /\ r \in Seq(Tasks) /\ NotScreen(r)
      /\ h.n > -Half => ShowAll(r) = Show(h)
      /\ Shallow(h) => AllShallow(r) /\ h.n > -Half /\ ~(h.nested > MaxNested)
  <2> HIDE DEF h
  <2> QED BY ONLY <1>1, <1>3, NbrStep
<1>5. NoLeast(fmt.items) => Shallow(h)
  <2>1. h = todo[1] /\ 1 \in 1..Len(todo)
    BY ONLY <1>1, <1>2, TailOf
  <2>2. NoLeast(fmt.items) => AllShallow(todo)
    BY DEF IInv, DepthInv
  <2> HIDE DEF h
  <2> QED BY ONLY <2>1, <2>2 DEF AllShallow
<1>6. AllExact(fmt.items) => NoLeast(fmt.items)
  BY ONLY DEF AllExact, NoLeast, Exact
<1> HIDE DEF h, r
<1>7. CASE ~(h.nested > MaxNested)
  <2>1. todo' = r \o Tail(todo) /\ UNCHANGED <<pc, fmt, cursor, argi, uart_addr, out, screen, count, calls, interrupts>>
    BY ONLY <1>1, <1>7
  <2>2. /\ Head(todo).op # "print_char_on_screen" /\ out' \in Seq(Message) /\ count' \in Nat
        /\ NoLeast(fmt.items) => AllShallow(r)
        /\ UNCHANGED <<pc, fmt, uart_addr, screen, calls, interrupts>>
    BY ONLY <1>1, <1>2, <1>4, <1>5, <2>1 DEF h
  <2>3. Typed' /\ DepthInv' /\ ScreenInv'
    BY ONLY <1>1, <1>4, <2>1, <2>2, IInv, TodoStep
  <2>4. ShowAll(todo') = ShowAll(r) \o ShowAll(Tail(todo))
    BY ONLY <1>1, <1>2, <1>4, <2>1, Replaced
  <2>5. fmt.early = FALSE /\ AllExact(fmt.items) =>
          OnLine(out') \o ShowAll(todo') = OnLine(out) \o ShowAll(todo)
    BY ONLY <1>3, <1>4, <1>5, <1>6, <2>1, <2>4
  <2>6. CallInv /\ PositionInv /\ UNCHANGED <<pc, fmt, cursor, argi, uart_addr>>
    BY ONLY <2>1, IInv DEF IInv
  <2>7. fmt.early = TRUE => OnLine(out') = <<>>
    BY ONLY <2>1, <2>6 DEF CallInv
  <2>8. CallInv' /\ PositionInv'
    BY ONLY <2>5, <2>6, <2>7, Carried
  <2> QED BY ONLY <2>3, <2>8 DEF IInv
<1>8. CASE h.nested > MaxNested
  <2>1. /\ pc' = "overflow" /\ todo' = <<>>
        /\ UNCHANGED <<fmt, cursor, argi, uart_addr, out, screen, count, calls, interrupts>>
    BY ONLY <1>1, <1>8
  <2>2. ~NoLeast(fmt.items) /\ ~AllExact(fmt.items)
    BY ONLY <1>4, <1>5, <1>6, <1>8
  <2>3. fmt.by = "kprintf"
    <3>1. ASSUME fmt.by = "printk" PROVE FALSE
      <4>1. fmt.text \in Seq(Char) /\ fmt.items = Literals(fmt.text)
        BY <3>1 DEF IInv, CallInv, Verbatim
      <4> QED BY ONLY <2>2, <4>1, LiteralItems
    <3> QED BY <3>1 DEF IInv, CallInv
  <2>4. todo' \in Seq(Tasks) /\ AllPlaced(todo')
    BY <2>1 DEF AllPlaced
  <2>5. Typed'
    BY ONLY <2>1, <2>4, IInv DEF IInv, Typed
  <2>6. CallInv'
    <3>1. pc # "main"
      BY ONLY <1>1, <1>2
    <3> QED BY ONLY <2>1, <3>1, IInv DEF IInv, CallInv
  <2>7. DepthInv'
    BY ONLY <2>1, <2>2 DEF DepthInv
  <2>8. PositionInv'
    <3>1. PICK k \in 0..Len(fmt.items) : Reached(fmt.items, k, cursor, argi)
      BY ONLY <2>3, IInv DEF IInv, PositionInv
    <3>2. /\ fmt' = fmt /\ cursor' = cursor /\ argi' = argi /\ pc' # "main" /\ fmt.by # "printk"
          /\ ~AllExact(fmt.items)
      BY ONLY <2>1, <2>2, <2>3
    <3> QED BY ONLY <3>1, <3>2 DEF PositionInv
  <2>9. ScreenInv'
    BY ONLY <2>1, <2>3, IInv DEF IInv, ScreenInv
  <2> QED BY ONLY <2>5, <2>6, <2>7, <2>8, <2>9 DEF IInv
<1> QED BY ONLY <1>7, <1>8

(* A character goes to the line.                                           *)
LEMMA PutChar ==
  ASSUME IInv, todo # <<>>, Head(todo).op \in {"kprintf_putchar", "uart_putchar"},
         out' = out \o Sent("kernel", <<Head(todo).n>>), todo' = Tail(todo), count' \in Nat,
         UNCHANGED <<pc, fmt, cursor, argi, uart_addr, screen, calls, interrupts>>
  PROVE  IInv'
<1> DEFINE h == Head(todo)
           m == [by |-> "kernel", port |-> uart_addr, c |-> h.n]
<1>1. /\ todo \in Seq(Tasks) /\ out \in Seq(Message) /\ uart_addr \in {0, SERIAL_PORT}
      /\ pc \in {"main", "overflow"} => todo = <<>>
  BY DEF IInv, Typed
<1>2. /\ h \in Tasks /\ Tail(todo) \in Seq(Tasks) /\ ShowAll(Tail(todo)) \in Seq(Int)
      /\ ShowAll(todo) = Show(h) \o ShowAll(Tail(todo))
  BY ONLY <1>1, todo # <<>>, ShowHead, SMTT(40)
<1>3. h.n \in 0..255
  BY <1>2 DEF Tasks, TaskOK, CharOps
<1>4. Show(h) = <<h.n>>
  BY DEF Show
<1>5. Sent("kernel", <<h.n>>) = <<m>>
  BY ONLY DEF Sent
<1>6. m \in Message /\ m.by = "kernel" /\ m.port = uart_addr /\ m.c = h.n
  BY ONLY <1>1, <1>3 DEF Message
<1> HIDE DEF m, h
<1>7. out' = out \o <<m>>
  BY <1>5 DEF h
<1>8. out' \in Seq(Message) /\ OnLine(out') = OnLine(out) \o Wire(m)
  BY ONLY <1>1, <1>6, <1>7, LineKernel
<1>9. OnLine(out) \in Seq(Int)
  BY ONLY <1>1, LineConcat
<1>10. /\ CallInv /\ PositionInv /\ UNCHANGED <<pc, fmt, cursor, argi, uart_addr>>
       /\ UNCHANGED <<pc, fmt, uart_addr, screen, calls, interrupts>>
  BY DEF IInv
<1>11. fmt.early = TRUE => OnLine(out') = <<>>
  <2>1. pc # "main"
    BY <1>1
  <2>2. fmt.early = TRUE => OnLine(out) = <<>> /\ m.port = 0
    BY ONLY <1>6, <1>10, <2>1 DEF CallInv
  <2>3. m.port = 0 => Wire(m) = <<>>
    BY ONLY <1>6, WireType
  <2>4. <<>> \o <<>> = <<>>
    OBVIOUS
  <2> QED BY ONLY <1>8, <2>2, <2>3, <2>4
<1>12. fmt.early = FALSE => OnLine(out') \o ShowAll(todo') = OnLine(out) \o ShowAll(todo)
  <2> SUFFICES ASSUME fmt.early = FALSE PROVE OnLine(out') \o ShowAll(todo') = OnLine(out) \o ShowAll(todo)
    OBVIOUS
  <2>1. m.port = SERIAL_PORT
    BY ONLY <1>6, <1>10, fmt.early = FALSE DEF CallInv
  <2>2. Wire(m) = <<h.n>>
    BY ONLY <1>6, <2>1, WireType
  <2> DEFINE x == OnLine(out)
             y == <<h.n>>
             z == ShowAll(Tail(todo))
  <2>3. x \in Seq(Int) /\ y \in Seq(Int) /\ z \in Seq(Int)
    <3>1. h.n \in Int
      BY ONLY <1>3
    <3>2. <<h.n>> \in Seq(Int)
      BY ONLY <3>1
    <3> QED BY ONLY <1>2, <1>9, <3>2
  <2>4. OnLine(out') = x \o y /\ ShowAll(todo') = z /\ ShowAll(todo) = y \o z
    <3>1. OnLine(out') = x \o y
      BY ONLY <1>8, <2>2
    <3>2. ShowAll(todo') = z
      BY ONLY todo' = Tail(todo)
    <3>3. ShowAll(todo) = y \o z
      BY ONLY <1>2, <1>4
    <3> QED BY ONLY <3>1, <3>2, <3>3
  <2> HIDE DEF x, y, z
  <2>5. (x \o y) \o z = x \o (y \o z)
    BY ONLY <2>3, ConcatAssociative, SMTT(40)
  <2> QED BY ONLY <2>4, <2>5 DEF x
<1>13. CallInv' /\ PositionInv'
  BY ONLY <1>10, <1>11, <1>12, Carried
<1>14. Typed' /\ DepthInv' /\ ScreenInv'
  <2> DEFINE r == <<>>
  <2>1. r \in Seq(Tasks) /\ NotScreen(r) /\ AllShallow(r)
    BY DEF NotScreen, AllShallow
  <2>2. todo' = r \o Tail(todo)
    BY ONLY <1>2, todo' = Tail(todo), ConcatEmptySeq
  <2>3. Head(todo).op # "print_char_on_screen"
    OBVIOUS
  <2> HIDE DEF r
  <2> QED BY ONLY IInv, todo # <<>>, count' \in Nat, <1>8, <1>10, <2>1, <2>2, <2>3, TodoStep
<1> QED BY ONLY <1>13, <1>14 DEF IInv

LEMMA PutCharInv ==
  ASSUME IInv, kprintf_putchar \/ uart_putchar
  PROVE  IInv'
<1>1. count' \in Nat
  BY DEF IInv, Typed, kprintf_putchar, uart_putchar
<1>2. /\ todo # <<>> /\ Head(todo).op \in {"kprintf_putchar", "uart_putchar"}
      /\ out' = out \o Sent("kernel", <<Head(todo).n>>) /\ todo' = Tail(todo)
      /\ UNCHANGED <<pc, fmt, cursor, argi, uart_addr, screen, calls, interrupts>>
  BY DEF kprintf_putchar, uart_putchar
<1> QED BY ONLY IInv, <1>1, <1>2, PutChar

LEMMA MessagesOK ==
  \A m \in Messages \cup {UartMessage} :
    m \in Seq(Char) /\ Len(m) \in Nat /\ Len(m) < Columns /\ \A i \in 1..Len(m) : m[i] \in 0..255
<1> TAKE m \in Messages \cup {UartMessage}
<1>1. m \in Seq(Char) /\ Len(m) < Columns
  BY OutputAssumption
<1>2. Len(m) \in Nat /\ \A i \in 1..Len(m) : m[i] \in Char
  BY ONLY <1>1, LenProperties, ElementOfSeq
<1>3. \A i \in 1..Len(m) : m[i] \in 0..255
  BY ONLY <1>2 DEF Char
<1> QED BY ONLY <1>1, <1>2, <1>3

(* A character goes to its column of the screen.                           *)
LEMMA ScreenInvStep ==
  ASSUME IInv, print_char_on_screen
  PROVE  IInv'
<1> DEFINE s == todo
           t == todo'
           h == Head(todo)
           r == <<>>
<1>1. /\ s # <<>> /\ h.op = "print_char_on_screen" /\ t = Tail(s)
      /\ screen' = [screen EXCEPT ![h.nested] = h.n]
      /\ UNCHANGED <<pc, fmt, cursor, argi, uart_addr, out, count, calls, interrupts>>
  BY DEF print_char_on_screen
<1>2. /\ s \in Seq(Tasks) /\ AllPlaced(s) /\ screen \in [0..(Columns - 1) -> 0..255]
      /\ pc \in {"main", "overflow"} => todo = <<>>
  BY DEF IInv, Typed
<1>3. /\ h = s[1] /\ 1 \in 1..Len(s)
  BY ONLY <1>1, <1>2, TailOf
<1>4. /\ h \in Tasks /\ Tail(s) \in Seq(Tasks) /\ ShowAll(Tail(s)) \in Seq(Int)
      /\ ShowAll(s) = Show(h) \o ShowAll(Tail(s))
  BY ONLY <1>1, <1>2, ShowHead
<1>5. r \in Seq(Tasks) /\ t = r \o Tail(s)
  BY ONLY <1>1, <1>4, ConcatEmptySeq, EmptySeq
<1>6. t \in Seq(Tasks) /\ Among(t, r, s) /\ Keeps(t, s)
  <2> HIDE DEF s, t, r
  <2> QED BY ONLY <1>1, <1>2, <1>5, Replaced
<1>7. \A j \in 1..Len(t) : \E i \in 1..Len(s) : t[j] = s[i]
  <2>1. Len(r) = 0
    OBVIOUS
  <2> HIDE DEF r, t, s
  <2>2. ~\E i \in 1..Len(r) : TRUE
    BY ONLY <2>1
  <2> QED BY ONLY <1>6, <2>2 DEF Among
<1> HIDE DEF r
<1>8. PICK m \in Messages : h.nested \in 0..(Len(m) - 1) /\ h.n = m[h.nested + 1]
  <2>1. Placed(h)
    BY ONLY <1>2, <1>3 DEF AllPlaced
  <2> QED BY ONLY <1>1, <2>1 DEF Placed
<1>9. m \in Messages \cup {UartMessage} /\ Len(m) \in Nat /\ Len(m) < Columns /\ Columns \in Nat
  BY ONLY m \in Messages, MessagesOK, Consts
<1>10. h.n \in 0..255 /\ h.nested \in 0..(Columns - 1) /\ h.nested < Len(m)
  <2>1. h.n \in 0..255
    BY ONLY <1>1, <1>4 DEF Tasks, TaskOK, CharOps
  <2> QED BY ONLY <1>8, <1>9, <2>1
<1> HIDE DEF h
<1>11. /\ screen' \in [0..(Columns - 1) -> 0..255] /\ screen'[h.nested] = h.n
       /\ \A col \in 0..(Columns - 1) : col # h.nested => screen'[col] = screen[col]
  BY ONLY <1>1, <1>2, <1>10, SMTT(40)
<1>12. AllPlaced(t)
  <2> HIDE DEF s, t
  <2> QED BY ONLY <1>2, <1>7 DEF AllPlaced
<1>13. Typed'
  <2>1. pc \notin {"main", "overflow"}
    BY ONLY <1>1, <1>2
  <2>2. todo' \in Seq(Tasks) /\ AllPlaced(todo')
    BY ONLY <1>6, <1>12
  <2> QED BY ONLY <1>1, <1>11, <2>1, <2>2, IInv DEF IInv, Typed
<1>14. DepthInv'
  <2>1. NoLeast(fmt.items) => pc # "overflow" /\ AllShallow(s)
    BY DEF IInv, DepthInv
  <2>2. NoLeast(fmt.items) => AllShallow(t)
    <3> HIDE DEF s, t
    <3> QED BY ONLY <1>7, <2>1 DEF AllShallow
  <2> QED BY ONLY <1>1, <2>1, <2>2 DEF DepthInv
<1>15. CallInv' /\ PositionInv'
  <2>1. Show(h) = <<>>
    BY ONLY <1>1 DEF Show
  <2>2. OnLine(out') = OnLine(out) /\ ShowAll(todo') = ShowAll(todo)
    <3>1. <<>> \o ShowAll(Tail(s)) = ShowAll(Tail(s))
      BY ONLY <1>4, ConcatEmptySeq
    <3> QED BY ONLY <1>1, <1>4, <2>1, <3>1
  <2>3. CallInv /\ PositionInv /\ UNCHANGED <<pc, fmt, cursor, argi, uart_addr>>
    BY ONLY <1>1, IInv DEF IInv
  <2>4. fmt.early = TRUE => OnLine(out') = <<>>
    BY ONLY <2>2, <2>3 DEF CallInv
  <2>5. OnLine(out') \o ShowAll(todo') = OnLine(out) \o ShowAll(todo)
    BY ONLY <2>2
  <2> QED BY ONLY <2>3, <2>4, <2>5, Carried
<1>16. ScreenInv'
  <2>1. Legible(screen')
    <3> SUFFICES ASSUME NEW col \in 0..(Columns - 1)
                 PROVE  \/ screen'[col] = 0
                        \/ \E e \in Messages \cup {UartMessage} : col < Len(e) /\ screen'[col] = e[col + 1]
      BY DEF Legible
    <3>1. CASE col = h.nested
      BY ONLY <1>8, <1>9, <1>10, <1>11, <3>1
    <3>2. CASE col # h.nested
      <4>1. screen'[col] = screen[col]
        BY ONLY <1>11, <3>2, col \in 0..(Columns - 1)
      <4>2. Legible(screen)
        BY DEF IInv, ScreenInv
      <4> QED BY ONLY <4>1, <4>2, col \in 0..(Columns - 1) DEF Legible
    <3> QED BY ONLY <3>1, <3>2
  <2>2. ASSUME Writes(s, fmt.text) PROVE Writes(t, fmt.text)
    <3> HIDE DEF s, t
    <3> QED BY ONLY <1>7, <2>2 DEF Writes
  <2>3. ASSUME fmt.by = "printk", interrupts = 0, NEW i \in 1..Len(fmt.text)
        PROVE  screen'[i - 1] = fmt.text[i] \/ Pending(t, i)
    <3>1. /\ screen[i - 1] = fmt.text[i] \/ Pending(s, i)
          /\ h.n = fmt.text[h.nested + 1]
      <4>1. Writes(s, fmt.text) /\ (screen[i - 1] = fmt.text[i] \/ Pending(s, i))
        BY <2>3 DEF IInv, ScreenInv
      <4> HIDE DEF s
      <4> QED BY ONLY <1>1, <1>3, <4>1 DEF Writes
    <3>2. Len(fmt.text) \in Nat /\ Len(fmt.text) <= Columns
      <4>1. fmt.text \in Seq(Char) /\ Len(fmt.text) <= Columns
        BY <2>3 DEF IInv, CallInv, Verbatim
      <4> QED BY ONLY <4>1, LenProperties
    <3>3. i - 1 \in 0..(Columns - 1) /\ i = (i - 1) + 1
      BY ONLY <1>9, <3>2, i \in 1..Len(fmt.text)
    <3>4. CASE i - 1 = h.nested
      BY ONLY <1>11, <3>1, <3>3, <3>4
    <3>5. CASE i - 1 # h.nested
      <4>1. screen'[i - 1] = screen[i - 1]
        BY ONLY <1>11, <3>3, <3>5
      <4>2. ASSUME Pending(s, i) PROVE Pending(t, i)
        <5> HIDE DEF s, t
        <5>1. PICK j \in 1..Len(s) : s[j].op = "print_char_on_screen" /\ s[j].nested = i - 1
          BY ONLY <4>2 DEF Pending
        <5>2. j # 1
          BY ONLY <1>3, <3>5, <5>1
        <5>3. PICK e \in 1..Len(t) : t[e] = s[j]
          BY ONLY <1>6, <5>2, j \in 1..Len(s) DEF Keeps
        <5> QED BY ONLY <5>1, <5>3 DEF Pending
      <4> QED BY ONLY <3>1, <4>1, <4>2
    <3> QED BY ONLY <3>4, <3>5
  <2>4. fmt.by = "printk" => Writes(s, fmt.text)
    BY DEF IInv, ScreenInv
  <2> QED BY ONLY <1>1, <2>1, <2>2, <2>3, <2>4 DEF ScreenInv
<1> QED BY ONLY <1>13, <1>14, <1>15, <1>16 DEF IInv

(* What a handler prints leaves the call as it is.                         *)
LEMMA HandlerStep ==
  ASSUME IInv, Interrupted, NEW q \in Seq(0..255), out' = out \o Sent("handler", q),
         screen' \in [0..(Columns - 1) -> 0..255], Legible(screen')
  PROVE  IInv'
<1> DEFINE r == Sent("handler", q)
<1>1. /\ UNCHANGED <<pc, fmt, cursor, argi, todo, uart_addr, count, calls>>
      /\ interrupts' = interrupts + 1 /\ interrupts < MaxInterrupts
  BY DEF Interrupted
<1>2. out \in Seq(Message) /\ uart_addr \in {0, SERIAL_PORT} /\ interrupts \in 0..MaxInterrupts
  BY DEF IInv, Typed
<1>3. r \in Seq(Message) /\ \A i \in 1..Len(r) : r[i].by = "handler"
  <2>1. Len(q) \in Nat /\ \A i \in 1..Len(q) : q[i] \in 0..255
    BY ONLY q \in Seq(0..255), LenProperties, ElementOfSeq
  <2>2. \A i \in 1..Len(q) : [by |-> "handler", port |-> uart_addr, c |-> q[i]] \in Message
    BY ONLY <1>2, <2>1 DEF Message
  <2>3. r \in Seq(Message) /\ Len(r) = Len(q)
    BY ONLY <2>1, <2>2 DEF Sent
  <2>4. \A i \in 1..Len(q) : r[i].by = "handler"
    BY ONLY DEF Sent
  <2> QED BY ONLY <2>3, <2>4
<1> HIDE DEF r
<1>4. out' \in Seq(Message) /\ OnLine(out') = OnLine(out)
  <2>1. out' = out \o r
    BY DEF r
  <2> QED BY ONLY <1>2, <1>3, <2>1, LineHandler
<1>5. interrupts' \in 0..MaxInterrupts /\ interrupts' # 0
  BY ONLY <1>1, <1>2, Consts
<1>6. Typed'
  BY ONLY <1>1, <1>4, <1>5, IInv, screen' \in [0..(Columns - 1) -> 0..255] DEF IInv, Typed
<1>7. DepthInv'
  BY ONLY <1>1, IInv DEF IInv, DepthInv
<1>8. CallInv' /\ PositionInv'
  <2>1. /\ CallInv /\ PositionInv /\ UNCHANGED <<pc, fmt, cursor, argi, uart_addr>>
        /\ todo' = todo
    BY ONLY <1>1, IInv DEF IInv
  <2>2. fmt.early = TRUE => OnLine(out') = <<>>
    BY ONLY <1>4, <2>1 DEF CallInv
  <2>3. OnLine(out') \o ShowAll(todo') = OnLine(out) \o ShowAll(todo)
    BY ONLY <1>4, <2>1
  <2> QED BY ONLY <2>1, <2>2, <2>3, Carried
<1>9. ScreenInv'
  BY ONLY <1>1, <1>5, IInv, Legible(screen') DEF IInv, ScreenInv
<1> QED BY ONLY <1>6, <1>7, <1>8, <1>9 DEF IInv

LEMMA KeyboardInv ==
  ASSUME IInv, NEW key \in Keys, keyboard_handler(key)
  PROVE  IInv'
<1> DEFINE q == <<key>>
<1>1. key \in 0..255
  BY OutputAssumption
<1>2. q \in Seq(0..255)
  BY ONLY <1>1
<1>3. Interrupted /\ out' = out \o Sent("handler", q) /\ screen' = screen
  BY DEF keyboard_handler
<1>4. screen' \in [0..(Columns - 1) -> 0..255] /\ Legible(screen')
  BY ONLY <1>3, IInv DEF IInv, Typed, ScreenInv
<1> HIDE DEF q
<1> QED BY ONLY IInv, <1>2, <1>3, <1>4, HandlerStep

LEMMA UartInv ==
  ASSUME IInv, NEW key \in Keys, uart_handler(key)
  PROVE  IInv'
<1> DEFINE u == UartMessage
           w == <<key, C.newline>>
           q == u \o w
<1>1. u \in Messages \cup {UartMessage}
  OBVIOUS
<1>2. u \in Seq(Char) /\ Len(u) \in Nat /\ Len(u) < Columns /\ \A i \in 1..Len(u) : u[i] \in 0..255
  BY ONLY <1>1, MessagesOK
<1>3. q \in Seq(0..255)
  <2>1. key \in 0..255 /\ C.newline \in 0..255
    BY OutputAssumption DEF C
  <2>2. w \in Seq(0..255)
    BY ONLY <2>1
  <2>3. u \in Seq(0..255)
    <3> HIDE DEF u
    <3>1. u \in [1..Len(u) -> Char]
      BY ONLY <1>2, LenProperties
    <3>2. u \in [1..Len(u) -> 0..255]
      BY ONLY <1>2, <3>1
    <3> QED BY ONLY <1>2, <3>2, IsASeq, SMTT(40)
  <2> HIDE DEF u, w
  <2> QED BY ONLY <2>2, <2>3, ConcatProperties
<1>4. /\ Interrupted /\ out' = out \o Sent("handler", q)
      /\ screen' = [col \in DOMAIN screen |-> IF col < Len(u) THEN u[col + 1] ELSE screen[col]]
  BY DEF uart_handler
<1>5. screen \in [0..(Columns - 1) -> 0..255] /\ Legible(screen) /\ Columns \in Nat
  BY Consts, SMTT(40) DEF IInv, Typed, ScreenInv
<1> HIDE DEF q, u
<1>6. \A col \in 0..(Columns - 1) : col < Len(u) => u[col + 1] \in 0..255
  BY ONLY <1>2, <1>5
<1>7. /\ screen' \in [0..(Columns - 1) -> 0..255]
      /\ \A col \in 0..(Columns - 1) : screen'[col] = IF col < Len(u) THEN u[col + 1] ELSE screen[col]
  BY ONLY <1>4, <1>5, <1>6
<1>8. Legible(screen')
  BY ONLY <1>1, <1>5, <1>7 DEF Legible
<1> QED BY ONLY IInv, <1>3, <1>4, <1>7, <1>8, HandlerStep

LEMMA UartInitInv ==
  ASSUME IInv, uart_init
  PROVE  IInv'
<1>1. /\ pc = "main" /\ uart_addr' = SERIAL_PORT
      /\ UNCHANGED <<pc, fmt, cursor, argi, todo, out, screen, count, calls, interrupts>>
  BY DEF uart_init
<1>2. Typed' /\ CallInv'
  BY ONLY <1>1, IInv DEF IInv, Typed, CallInv
<1>3. DepthInv' /\ PositionInv' /\ ScreenInv'
  BY ONLY <1>1, IInv DEF IInv, DepthInv, PositionInv, ScreenInv
<1> QED BY ONLY <1>2, <1>3 DEF IInv

LEMMA StutterInv ==
  ASSUME IInv, UNCHANGED vars
  PROVE  IInv'
BY ZenonT(60) DEF IInv, Typed, CallInv, DepthInv, PositionInv, ScreenInv, vars

(* A call returns when it has nothing left to print.                       *)
LEMMA ReturnInv ==
  ASSUME IInv, kprintf_return \/ printk_return
  PROVE  IInv'
<1>1. /\ todo = <<>> /\ pc' = "main" /\ count' \in Nat
      /\ UNCHANGED <<fmt, cursor, argi, todo, uart_addr, out, screen, calls, interrupts>>
  BY DEF IInv, Typed, kprintf_return, printk_return
<1>2. Typed' /\ CallInv' /\ DepthInv' /\ ScreenInv'
  <2>1. Typed'
    BY ONLY <1>1, IInv DEF IInv, Typed
  <2>2. CallInv'
    BY ONLY <1>1, IInv DEF IInv, CallInv
  <2>3. DepthInv' /\ ScreenInv'
    BY ONLY <1>1, IInv DEF IInv, DepthInv, ScreenInv
  <2> QED BY ONLY <2>1, <2>2, <2>3
<1>3. fmt.by = "kprintf" => cursor > Len(fmt.text)
  BY DEF IInv, CallInv, kprintf_return, printk_return
<1>4. PositionInv'
  <2>1. ASSUME fmt.by = "kprintf"
        PROVE  \E k \in 0..Len(fmt.items) :
                 /\ Reached(fmt.items, k, cursor, argi)
                 /\ k = Len(fmt.items)
                 /\ fmt.early = FALSE /\ AllExact(fmt.items) =>
                      OnLine(out) \o ShowAll(todo) = Upto(Meanings(fmt.items), k)
    <3>1. PICK k \in 0..Len(fmt.items) :
             /\ Reached(fmt.items, k, cursor, argi)
             /\ fmt.early = FALSE /\ AllExact(fmt.items) =>
                  OnLine(out) \o ShowAll(todo) = Upto(Meanings(fmt.items), k)
      BY ONLY <2>1, IInv DEF IInv, PositionInv
    <3>2. WellFormed(fmt.items) /\ fmt.text = FlattenSeq(Pieces(fmt.items))
      BY ONLY <2>1, IInv DEF IInv, CallInv, Formatted
    <3>3. 1 + Len(Upto(Pieces(fmt.items), k)) > Len(FlattenSeq(Pieces(fmt.items)))
      BY ONLY <1>3, <2>1, <3>1, <3>2 DEF Reached
    <3>4. k = Len(fmt.items)
      BY ONLY <3>2, <3>3, k \in 0..Len(fmt.items), AtEnd
    <3> QED BY ONLY <3>1, <3>4
  <2>2. /\ fmt' = fmt /\ cursor' = cursor /\ argi' = argi /\ out' = out /\ todo' = todo
        /\ pc' = "main"
    BY ONLY <1>1
  <2>3. fmt.by = "printk" =>
          /\ cursor = 1 /\ argi = 1
          /\ fmt.early = FALSE => OnLine(out) \o ShowAll(todo) = fmt.text
    BY ONLY IInv DEF IInv, PositionInv
  <2> QED BY ONLY <2>1, <2>2, <2>3 DEF PositionInv
<1> QED BY ONLY <1>2, <1>4 DEF IInv

(* kprintf moves on to the next item of its format.                        *)
LEMMA ItemStep ==
  ASSUME IInv, fmt.by = "kprintf", pc = "kprintf", todo = <<>>,
         NEW k \in 0..(Len(fmt.items) - 1), NEW it, it = fmt.items[k + 1],
         fmt.early = FALSE /\ AllExact(fmt.items) =>
           OnLine(out) \o ShowAll(todo) = Upto(Meanings(fmt.items), k),
         Displays(todo', it), Reached(fmt.items, k + 1, cursor', argi'),
         UNCHANGED <<pc, fmt, uart_addr, out, screen, count, calls, interrupts>>
  PROVE  IInv'
<1> DEFINE items == fmt.items
           N == Len(items)
<1>1. WellFormed(items)
  BY DEF IInv, CallInv, Formatted
<1>2. /\ N \in Nat /\ \A i \in 1..N : Meanings(items)[i] = Meaning(items[i])
      /\ AllExact(items) => Meanings(items) \in [1..N -> Seq(Int)]
  BY ONLY <1>1, ItemsTyped DEF AllExact
<1>3. k \in 0..(N - 1) /\ k + 1 \in 1..N /\ k + 1 \in 0..N
  BY ONLY <1>2, k \in 0..(Len(fmt.items) - 1)
<1>4. /\ todo' \in Seq(Tasks) /\ NotScreen(todo')
      /\ ~LeastInt(it) => AllShallow(todo')
      /\ Exact(it) => ShowAll(todo') = Meaning(it)
  BY DEF Displays
<1>5. Typed'
  <2>1. AllPlaced(todo')
    BY ONLY <1>4 DEF AllPlaced, Placed, NotScreen
  <2> QED BY <1>4, <2>1 DEF IInv, Typed
<1>6. CallInv'
  BY DEF IInv, CallInv
<1>7. DepthInv'
  <2>1. NoLeast(items) => ~LeastInt(it)
    BY ONLY <1>3, it = fmt.items[k + 1] DEF NoLeast
  <2> QED BY <1>4, <2>1 DEF DepthInv
<1>8. ScreenInv'
  <2>1. fmt'.by # "printk" /\ screen' = screen
    OBVIOUS
  <2> QED BY ONLY <2>1, IInv DEF IInv, ScreenInv
<1>9. ASSUME fmt.early = FALSE, AllExact(items)
      PROVE  OnLine(out) \o ShowAll(todo') = Upto(Meanings(items), k + 1)
  <2> DEFINE M == Meanings(items)
  <2>1. OnLine(out) \o ShowAll(todo) = Upto(M, k)
    BY ONLY <1>9, fmt.early = FALSE /\ AllExact(fmt.items) =>
              OnLine(out) \o ShowAll(todo) = Upto(Meanings(fmt.items), k)
  <2>2. ShowAll(todo) = <<>>
    BY ONLY todo = <<>>, ShowEmpty
  <2>3. out \in Seq(Message)
    BY DEF IInv, Typed
  <2>4. OnLine(out) \in Seq(Int)
    BY ONLY <2>3, LineConcat
  <2>5. OnLine(out) = Upto(M, k)
    <3> DEFINE x == OnLine(out)
    <3> HIDE DEF x, M
    <3>1. x \o <<>> = x
      BY ONLY <2>4, ConcatEmptySeq DEF x
    <3> QED BY ONLY <2>1, <2>2, <3>1 DEF x
  <2>6. M[k + 1] = ShowAll(todo')
    <3>1. Exact(it)
      BY ONLY <1>3, <1>9, it = fmt.items[k + 1] DEF AllExact
    <3>2. M[k + 1] = Meaning(it)
      BY ONLY <1>2, <1>3, it = fmt.items[k + 1]
    <3> QED BY ONLY <1>4, <3>1, <3>2
  <2>7. Upto(M, k + 1) = Upto(M, k) \o M[k + 1]
    <3>1. M \in [1..N -> Seq(Int)] /\ N \in Nat
      BY ONLY <1>2, <1>9
    <3> HIDE DEF M, N
    <3> QED BY ONLY <1>3, <3>1, UptoStep, ZenonT(60)
  <2> HIDE DEF M
  <2>8. OnLine(out) \o ShowAll(todo') = Upto(M, k + 1)
    BY ONLY <2>5, <2>6, <2>7
  <2> QED BY ONLY <2>8 DEF M
<1>10. PositionInv'
  <2>1. fmt' = fmt /\ out' = out /\ pc' = "kprintf" /\ fmt.by = "kprintf"
    OBVIOUS
  <2>2. k + 1 \in 0..Len(fmt.items)
    BY ONLY <1>3
  <2> QED BY ONLY <1>9, <2>1, <2>2, Reached(fmt.items, k + 1, cursor', argi') DEF PositionInv
<1> QED BY ONLY <1>5, <1>6, <1>7, <1>8, <1>10 DEF IInv

(* Where kprintf is in its format.                                         *)
LEMMA AtNext ==
  ASSUME IInv, pc = "kprintf", cursor <= Len(fmt.text)
  PROVE  /\ fmt.by = "kprintf" /\ Formatted(fmt.items, fmt.text, fmt.args)
         /\ \E k \in 0..(Len(fmt.items) - 1) :
              /\ Reached(fmt.items, k, cursor, argi)
              /\ fmt.early = FALSE /\ AllExact(fmt.items) =>
                   OnLine(out) \o ShowAll(todo) = Upto(Meanings(fmt.items), k)
<1>1. fmt.by = "kprintf" /\ Formatted(fmt.items, fmt.text, fmt.args)
  BY DEF IInv, CallInv
<1>2. PICK k \in 0..Len(fmt.items) :
         /\ Reached(fmt.items, k, cursor, argi)
         /\ fmt.early = FALSE /\ AllExact(fmt.items) =>
              OnLine(out) \o ShowAll(todo) = Upto(Meanings(fmt.items), k)
  BY ONLY <1>1, IInv DEF IInv, PositionInv
<1>3. WellFormed(fmt.items) /\ fmt.text = FlattenSeq(Pieces(fmt.items))
  BY ONLY <1>1 DEF Formatted
<1>4. /\ k = Len(fmt.items) <=> 1 + Len(Upto(Pieces(fmt.items), k)) > Len(FlattenSeq(Pieces(fmt.items)))
      /\ Len(FlattenSeq(Pieces(fmt.items))) \in Nat
      /\ Len(Upto(Pieces(fmt.items), k)) \in 0..Len(FlattenSeq(Pieces(fmt.items)))
  BY ONLY <1>3, k \in 0..Len(fmt.items), AtEnd
<1>5. 1 + Len(Upto(Pieces(fmt.items), k)) <= Len(FlattenSeq(Pieces(fmt.items)))
  BY ONLY <1>2, <1>3, cursor <= Len(fmt.text) DEF Reached
<1>6. k # Len(fmt.items)
  BY ONLY <1>4, <1>5
<1>7. Len(fmt.items) \in Nat
  BY ONLY <1>3, ItemsTyped
<1>8. k \in 0..(Len(fmt.items) - 1)
  BY ONLY <1>6, <1>7, k \in 0..Len(fmt.items)
<1> QED BY ONLY <1>1, <1>2, <1>8

LEMMA DisplayInv ==
  ASSUME IInv, display_var
  PROVE  IInv'
<1>1. /\ pc = "kprintf" /\ todo = <<>> /\ cursor <= Len(fmt.text) /\ fmt.text[cursor] = C.percent
      /\ todo' = DisplayTasks(fmt.text[cursor + 1], fmt.args[argi])
      /\ argi' = NextArg(fmt.text[cursor + 1]) /\ cursor' = cursor + 2
      /\ UNCHANGED <<pc, fmt, uart_addr, out, screen, count, calls, interrupts>>
  BY DEF display_var
<1>2. fmt.by = "kprintf" /\ Formatted(fmt.items, fmt.text, fmt.args)
  BY ONLY <1>1, IInv, AtNext
<1>3. PICK k \in 0..(Len(fmt.items) - 1) :
         /\ Reached(fmt.items, k, cursor, argi)
         /\ fmt.early = FALSE /\ AllExact(fmt.items) =>
              OnLine(out) \o ShowAll(todo) = Upto(Meanings(fmt.items), k)
  BY ONLY <1>1, IInv, AtNext
<1> DEFINE items == fmt.items
           P == Pieces(items)
           A == Passes(items)
           it == items[k + 1]
           p == Len(Upto(P, k))
           a == Len(Upto(A, k))
<1>4. WellFormed(items) /\ fmt.text = FlattenSeq(P) /\ fmt.args = FlattenSeq(A)
  BY ONLY <1>2 DEF Formatted
<1>5. /\ WellTyped(it) /\ p \in Nat /\ a \in Nat
      /\ it.flag = LITERAL => FlattenSeq(P)[p + 1] = it.arg
      /\ it.flag # LITERAL => Len(Upto(P, k + 1)) = p + 2 /\ FlattenSeq(P)[p + 2] = it.flag
      /\ Takes(it.flag) => Len(Upto(A, k + 1)) = a + 1 /\ FlattenSeq(A)[a + 1] = it.arg
      /\ ~Takes(it.flag) => Len(Upto(A, k + 1)) = a
  <2>1. Found(items, k, it)
    <3>1. it = items[k + 1] /\ k \in 0..(Len(items) - 1)
      OBVIOUS
    <3> HIDE DEF it, items, P, A, p, a
    <3> QED BY ONLY <1>4, <3>1, AtItem
  <2> HIDE DEF it, items
  <2> QED BY ONLY <2>1 DEF Found
<1>6. cursor = 1 + p /\ argi = 1 + a
  BY ONLY <1>3 DEF Reached
<1> HIDE DEF items, P, A, it, p, a
<1>7. cursor = p + 1 /\ cursor + 1 = p + 2 /\ argi = a + 1
  BY ONLY <1>5, <1>6
<1>8. it.flag # LITERAL
  <2> SUFFICES ASSUME it.flag = LITERAL PROVE FALSE
    OBVIOUS
  <2>1. it.arg = C.percent
    BY ONLY <1>1, <1>4, <1>5, <1>7, it.flag = LITERAL
  <2>2. it.arg # C.percent
    BY ONLY <1>5, it.flag = LITERAL DEF WellTyped
  <2> QED BY ONLY <2>1, <2>2
<1>9. fmt.text[cursor + 1] = it.flag /\ (Takes(it.flag) => fmt.args[argi] = it.arg)
  BY ONLY <1>4, <1>5, <1>7, <1>8
<1>10. Displays(todo', it)
  <2> DEFINE v == fmt.args[argi]
  <2>1. todo' = DisplayTasks(it.flag, v)
    BY ONLY <1>1, <1>9
  <2>2. Takes(it.flag) => v = it.arg
    BY ONLY <1>9
  <2> HIDE DEF v
  <2>3. Displays(DisplayTasks(it.flag, v), it)
    BY ONLY <1>5, <1>8, <2>2, DisplayShown
  <2> QED BY ONLY <2>1, <2>3
<1>11. cursor' = 1 + Len(Upto(P, k + 1)) /\ argi' = 1 + Len(Upto(A, k + 1))
  <2>1. cursor' = 1 + (p + 2)
    BY ONLY <1>1, <1>5, <1>7
  <2>2. Takes(it.flag) => argi' = 1 + (a + 1)
    BY ONLY <1>1, <1>5, <1>7, <1>9 DEF NextArg
  <2>3. ~Takes(it.flag) => argi' = 1 + a
    BY ONLY <1>1, <1>6, <1>9 DEF NextArg
  <2> QED BY ONLY <1>5, <1>8, <2>1, <2>2, <2>3
<1>12. Reached(fmt.items, k + 1, cursor', argi')
  BY ONLY <1>11 DEF Reached, items, P, A
<1>13. it = fmt.items[k + 1]
  BY ONLY DEF it, items
<1> QED BY ONLY IInv, <1>1, <1>2, <1>3, <1>10, <1>12, <1>13, ItemStep

LEMMA TextInv ==
  ASSUME IInv, kprintf_text
  PROVE  IInv'
<1>1. /\ pc = "kprintf" /\ todo = <<>> /\ cursor <= Len(fmt.text) /\ fmt.text[cursor] # C.percent
      /\ todo' = <<Chr(fmt.text[cursor])>> /\ cursor' = cursor + 1
      /\ UNCHANGED <<pc, fmt, argi, uart_addr, out, screen, count, calls, interrupts>>
  BY DEF kprintf_text
<1>2. fmt.by = "kprintf" /\ Formatted(fmt.items, fmt.text, fmt.args)
  BY ONLY <1>1, IInv, AtNext
<1>3. PICK k \in 0..(Len(fmt.items) - 1) :
         /\ Reached(fmt.items, k, cursor, argi)
         /\ fmt.early = FALSE /\ AllExact(fmt.items) =>
              OnLine(out) \o ShowAll(todo) = Upto(Meanings(fmt.items), k)
  BY ONLY <1>1, IInv, AtNext
<1> DEFINE items == fmt.items
           P == Pieces(items)
           A == Passes(items)
           it == items[k + 1]
           p == Len(Upto(P, k))
           a == Len(Upto(A, k))
<1>4. WellFormed(items) /\ fmt.text = FlattenSeq(P) /\ fmt.args = FlattenSeq(A)
  BY ONLY <1>2 DEF Formatted
<1>5. /\ WellTyped(it) /\ p \in Nat /\ a \in Nat
      /\ it.flag = LITERAL => Len(Upto(P, k + 1)) = p + 1 /\ FlattenSeq(P)[p + 1] = it.arg
      /\ it.flag # LITERAL => FlattenSeq(P)[p + 1] = C.percent
      /\ ~Takes(it.flag) => Len(Upto(A, k + 1)) = a
  <2>1. Found(items, k, it)
    <3>1. it = items[k + 1] /\ k \in 0..(Len(items) - 1)
      OBVIOUS
    <3> HIDE DEF it, items, P, A, p, a
    <3> QED BY ONLY <1>4, <3>1, AtItem
  <2> HIDE DEF it, items
  <2> QED BY ONLY <2>1 DEF Found
<1>6. cursor = 1 + p /\ argi = 1 + a
  BY ONLY <1>3 DEF Reached
<1> HIDE DEF items, P, A, it, p, a
<1>7. cursor = p + 1
  BY ONLY <1>5, <1>6
<1>8. it.flag = LITERAL /\ it.flag = 0 /\ it.flag \in Nat
  <2>1. it.flag = LITERAL
    BY ONLY <1>1, <1>4, <1>5, <1>7
  <2> QED BY ONLY <2>1 DEF LITERAL
<1>9. fmt.text[cursor] = it.arg
  BY ONLY <1>4, <1>5, <1>7, <1>8
<1>10. Displays(todo', it)
  <2>1. it.arg \in Char
    BY ONLY <1>5, <1>8, TypedForms
  <2>2. it.arg \in 0..255
    BY ONLY <2>1 DEF Char
  <2>3. Meaning(it) = <<it.arg>>
    BY ONLY <1>8, MeaningForms
  <2>4. Prints(todo', <<it.arg>>)
    BY ONLY <1>1, <1>9, <2>2, PrintsChr
  <2>5. Prints(todo', ShowAll(todo')) /\ ShowAll(todo') = Meaning(it)
    BY ONLY <2>3, <2>4 DEF Prints
  <2> QED BY ONLY <2>5, PrintsDisplays
<1>11. cursor' = 1 + Len(Upto(P, k + 1)) /\ argi' = 1 + Len(Upto(A, k + 1))
  <2>1. ~Takes(it.flag)
    BY ONLY <1>8, Codes DEF Takes
  <2>2. cursor' = 1 + (p + 1)
    BY ONLY <1>1, <1>5, <1>7
  <2> QED BY ONLY <1>1, <1>5, <1>6, <1>8, <2>1, <2>2
<1>12. Reached(fmt.items, k + 1, cursor', argi')
  BY ONLY <1>11 DEF Reached, items, P, A
<1>13. it = fmt.items[k + 1] /\ UNCHANGED <<pc, fmt, uart_addr, out, screen, count, calls, interrupts>>
  BY ONLY <1>1 DEF it, items
<1> QED BY ONLY IInv, <1>1, <1>2, <1>3, <1>10, <1>12, <1>13, ItemStep

LEMMA NothingOnLine == OnLine(<<>>) = <<>> /\ <<>> \in Seq(Message)
<1>1. [i \in 1..Len(<<>>) |-> Wire(<<>>[i])] = <<>>
  OBVIOUS
<1> QED BY <1>1, FlattenEmpty DEF OnLine

(* A call begins: what it is, and that nothing is on the line yet.         *)
LEMMA Begins ==
  ASSUME IInv, NEW name \in {"kprintf", "printk"}, NEW items, Begin(name, items)
  PROVE  /\ pc' = name /\ fmt'.by = name /\ fmt'.items = items
         /\ fmt'.text = Text(items) /\ fmt'.args = Args(items)
         /\ fmt'.early \in BOOLEAN
         /\ fmt'.early = FALSE => uart_addr' = SERIAL_PORT
         /\ fmt'.early = TRUE => uart_addr' = 0
         /\ cursor' = 1 /\ argi' = 1 /\ out' = <<>>
         /\ calls' \in 0..MaxCalls /\ UNCHANGED <<uart_addr, screen, count, interrupts>>
<1> DEFINE e == uart_addr = 0
<1>1. /\ pc' = name /\ cursor' = 1 /\ argi' = 1 /\ out' = <<>>
      /\ calls' = calls + 1 /\ calls < MaxCalls
      /\ UNCHANGED <<uart_addr, screen, count, interrupts>>
      /\ fmt' = [by |-> name, early |-> e, items |-> items, text |-> Text(items), args |-> Args(items)]
  BY DEF Begin
<1>2. uart_addr \in {0, SERIAL_PORT} /\ calls \in 0..MaxCalls
  BY DEF IInv, Typed
<1>3. calls' \in 0..MaxCalls
  BY ONLY <1>1, <1>2, Consts
<1>4. e \in BOOLEAN /\ (e = FALSE => uart_addr = SERIAL_PORT) /\ (e = TRUE => uart_addr = 0)
  BY <1>2
<1> HIDE DEF e
<1>5. /\ fmt'.by = name /\ fmt'.early = e /\ fmt'.items = items
      /\ fmt'.text = Text(items) /\ fmt'.args = Args(items)
  BY ONLY <1>1
<1>6. uart_addr' = uart_addr
  BY ONLY <1>1
<1>7. /\ fmt'.early \in BOOLEAN
      /\ fmt'.early = FALSE => uart_addr' = SERIAL_PORT
      /\ fmt'.early = TRUE => uart_addr' = 0
  BY ONLY <1>4, <1>5, <1>6, Zenon
<1> QED BY ONLY <1>1, <1>3, <1>5, <1>7

LEMMA KprintfInv ==
  ASSUME IInv, NEW f \in Formats, kprintf(f)
  PROVE  IInv'
<1>1. Begin("kprintf", f) /\ todo' = <<>>
  BY DEF kprintf
<1>2. /\ pc' = "kprintf" /\ fmt'.by = "kprintf" /\ fmt'.items = f
      /\ fmt'.text = Text(f) /\ fmt'.args = Args(f)
      /\ fmt'.early \in BOOLEAN
      /\ fmt'.early = FALSE => uart_addr' = SERIAL_PORT
      /\ fmt'.early = TRUE => uart_addr' = 0
      /\ cursor' = 1 /\ argi' = 1 /\ out' = <<>>
      /\ calls' \in 0..MaxCalls /\ UNCHANGED <<uart_addr, screen, count, interrupts>>
  BY ONLY <1>1, IInv, Begins
<1>3. WellFormed(f)
  BY OutputAssumption DEF WellFormed
<1>4. Formatted(f, Text(f), Args(f))
  BY ONLY <1>3 DEF Formatted, Text, Args, Pieces, Passes
<1>5. todo' \in Seq(Tasks) /\ AllPlaced(todo') /\ AllShallow(todo')
  BY ONLY <1>1, EmptySeq DEF AllPlaced, AllShallow
<1>6. Typed'
  BY ONLY <1>2, <1>5, IInv, NothingOnLine DEF IInv, Typed
<1>7. CallInv'
  BY ONLY <1>2, <1>4, NothingOnLine DEF CallInv
<1>8. DepthInv'
  BY ONLY <1>2, <1>5 DEF DepthInv
<1>9. ScreenInv'
  BY ONLY <1>2, IInv DEF IInv, ScreenInv
<1>10. PositionInv'
  <2> DEFINE N == Len(f)
  <2>1. /\ N \in Nat /\ Pieces(f) \in [1..N -> Seq(Int)] /\ Passes(f) \in [1..N -> Seq(ArgsOf(f))]
        /\ AllExact(f) => Meanings(f) \in [1..N -> Seq(Int)]
    BY ONLY <1>3, ItemsTyped DEF AllExact
  <2>2. Upto(Pieces(f), 0) = <<>>
    BY ONLY <2>1, UptoStep
  <2>3. Upto(Passes(f), 0) = <<>>
    BY ONLY <2>1, UptoStep
  <2>4. AllExact(f) => Upto(Meanings(f), 0) = <<>>
    BY ONLY <2>1, UptoStep
  <2>5. Reached(f, 0, 1, 1)
    BY ONLY <2>2, <2>3 DEF Reached
  <2>6. OnLine(<<>>) \o ShowAll(<<>>) = <<>>
    <3>1. <<>> \o <<>> = <<>>
      OBVIOUS
    <3> QED BY ONLY <3>1, NothingOnLine, ShowEmpty
  <2>7. 0 \in 0..Len(f)
    BY ONLY <2>1
  <2>8. /\ Reached(fmt'.items, 0, cursor', argi') /\ 0 \in 0..Len(fmt'.items)
        /\ AllExact(fmt'.items) => OnLine(out') \o ShowAll(todo') = Upto(Meanings(fmt'.items), 0)
    BY ONLY <1>1, <1>2, <2>4, <2>5, <2>6, <2>7
  <2>9. pc' # "main" /\ fmt'.by # "printk"
    BY ONLY <1>2
  <2> QED BY ONLY <2>8, <2>9 DEF PositionInv
<1> QED BY ONLY <1>6, <1>7, <1>8, <1>9, <1>10 DEF IInv

(* What printk has to do for a message.                                    *)
LEMMA PrintkTasks ==
  ASSUME NEW m \in Messages, NEW w, w = ScreenTasks(m) \o LineTasks(m)
  PROVE  /\ w \in Seq(Tasks) /\ AllPlaced(w) /\ AllShallow(w) /\ ShowAll(w) = m
         /\ Writes(w, m) /\ \A i \in 1..Len(m) : Pending(w, i)
<1> DEFINE s == ScreenTasks(m)
           l == LineTasks(m)
           n == Len(m)
<1>1. m \in Messages \cup {UartMessage}
  OBVIOUS
<1>2. m \in Seq(Char) /\ n \in Nat /\ \A i \in 1..n : m[i] \in 0..255
  BY ONLY <1>1, MessagesOK
<1>3. ASSUME NEW i \in 1..n
      PROVE  /\ [op |-> "print_char_on_screen", n |-> m[i], base |-> <<>>, nested |-> i - 1] \in Tasks
             /\ [op |-> "uart_putchar", n |-> m[i], base |-> <<>>, nested |-> 0] \in Tasks
  <2>1. m[i] \in 0..255 /\ m[i] \in Int /\ i - 1 \in Nat /\ <<>> \in Seq(Int)
    <3>1. m[i] \in 0..255
      BY ONLY <1>2, i \in 1..n
    <3>2. i - 1 \in Nat
      BY ONLY <1>2, i \in 1..n
    <3>3. m[i] \in Int
      <4> DEFINE v == m[i]
      <4>1. v \in 0..255
        BY ONLY <3>1
      <4> HIDE DEF v
      <4>2. v \in Int
        BY ONLY <4>1
      <4> QED BY ONLY <4>2 DEF v
    <3>4. <<>> \in Seq(Int)
      OBVIOUS
    <3> QED BY ONLY <3>1, <3>2, <3>3, <3>4
  <2>2. [op |-> "print_char_on_screen", n |-> m[i], base |-> <<>>, nested |-> i - 1] \in Tasks
    BY ONLY <2>1 DEF Tasks, Task, TaskOK, CharOps
  <2>3. [op |-> "uart_putchar", n |-> m[i], base |-> <<>>, nested |-> 0] \in Tasks
    BY ONLY <2>1 DEF Tasks, Task, TaskOK, CharOps
  <2> QED BY ONLY <2>2, <2>3
<1>4. /\ s \in Seq(Tasks) /\ Len(s) = n
      /\ \A i \in 1..n : s[i].op = "print_char_on_screen" /\ s[i].n = m[i] /\ s[i].nested = i - 1
  <2>1. s \in Seq(Tasks) /\ Len(s) = n
    <3>1. s = [i \in 1..n |-> [op |-> "print_char_on_screen", n |-> m[i], base |-> <<>>, nested |-> i - 1]]
      BY ONLY DEF ScreenTasks
    <3>2. s \in [1..n -> Tasks]
      BY ONLY <1>3, <3>1
    <3> HIDE DEF s, n
    <3>3. s \in Seq(Tasks)
      BY ONLY <1>2, <3>2, IsASeq
    <3>4. DOMAIN s = 1..n /\ DOMAIN s = 1..Len(s) /\ Len(s) \in Nat
      BY ONLY <3>2, <3>3, LenProperties
    <3> QED BY ONLY <1>2, <3>3, <3>4
  <2>2. \A i \in 1..n : s[i].op = "print_char_on_screen" /\ s[i].n = m[i] /\ s[i].nested = i - 1
    BY ONLY DEF ScreenTasks
  <2> QED BY ONLY <2>1, <2>2
<1>5. /\ l \in Seq(Tasks) /\ Len(l) = n
      /\ \A i \in 1..n : l[i].op = "uart_putchar" /\ l[i].n = m[i]
  <2>1. l \in Seq(Tasks) /\ Len(l) = n
    <3>1. l = [i \in 1..n |-> [op |-> "uart_putchar", n |-> m[i], base |-> <<>>, nested |-> 0]]
      BY ONLY DEF LineTasks
    <3>2. l \in [1..n -> Tasks]
      BY ONLY <1>3, <3>1
    <3> HIDE DEF l, n
    <3>3. l \in Seq(Tasks)
      BY ONLY <1>2, <3>2, IsASeq
    <3>4. DOMAIN l = 1..n /\ DOMAIN l = 1..Len(l) /\ Len(l) \in Nat
      BY ONLY <3>2, <3>3, LenProperties
    <3> QED BY ONLY <1>2, <3>3, <3>4
  <2>2. \A i \in 1..n : l[i].op = "uart_putchar" /\ l[i].n = m[i]
    BY ONLY DEF LineTasks
  <2> QED BY ONLY <2>1, <2>2
<1> HIDE DEF s, l, n
<1>6. /\ w \in Seq(Tasks) /\ Len(w) = n + n
      /\ \A i \in 1..(n + n) : w[i] = IF i <= n THEN s[i] ELSE l[i - n]
  <2>1. w = s \o l /\ s \in Seq(Tasks) /\ l \in Seq(Tasks)
    BY ONLY <1>4, <1>5, w = ScreenTasks(m) \o LineTasks(m) DEF s, l
  <2>2. /\ s \o l \in Seq(Tasks) /\ Len(s \o l) = Len(s) + Len(l)
        /\ \A i \in 1..(Len(s) + Len(l)) : (s \o l)[i] = IF i <= Len(s) THEN s[i] ELSE l[i - Len(s)]
    BY ONLY <2>1, ConcatProperties
  <2> QED BY ONLY <1>4, <1>5, <2>1, <2>2
<1>7. ASSUME NEW j \in 1..Len(w)
      PROVE  \/ j \in 1..n /\ w[j].op = "print_char_on_screen" /\ w[j].n = m[j] /\ w[j].nested = j - 1
             \/ w[j].op = "uart_putchar"
  <2>1. CASE j <= n
    <3>1. j \in 1..n /\ w[j] = s[j]
      BY ONLY <1>2, <1>6, <2>1, j \in 1..Len(w)
    <3> QED BY ONLY <1>4, <3>1
  <2>2. CASE ~(j <= n)
    <3>1. j - n \in 1..n /\ w[j] = l[j - n]
      BY ONLY <1>2, <1>6, <2>2, j \in 1..Len(w)
    <3> QED BY ONLY <1>5, <3>1
  <2> QED BY ONLY <2>1, <2>2
<1>8. AllShallow(w)
  BY ONLY <1>7 DEF AllShallow, Shallow
<1>9. ASSUME NEW j \in 1..Len(w), w[j].op = "print_char_on_screen"
      PROVE  /\ w[j].nested + 1 \in 1..n /\ w[j].n = m[w[j].nested + 1]
             /\ w[j].nested \in 0..(n - 1)
  <2>1. j \in 1..n /\ w[j].n = m[j] /\ w[j].nested = j - 1
    BY ONLY <1>7, <1>9
  <2>2. w[j].nested + 1 = j /\ w[j].nested \in 0..(n - 1)
    BY ONLY <1>2, <2>1
  <2> QED BY ONLY <2>1, <2>2
<1>10. AllPlaced(w) /\ Writes(w, m)
  <2>1. Writes(w, m)
    BY ONLY <1>9 DEF Writes, n
  <2>2. ASSUME NEW j \in 1..Len(w) PROVE Placed(w[j])
    BY ONLY <1>9, m \in Messages DEF Placed, n
  <2> QED BY ONLY <2>1, <2>2 DEF AllPlaced
<1>11. ASSUME NEW i \in 1..n PROVE Pending(w, i)
  <2>1. i \in 1..Len(w) /\ w[i] = s[i]
    BY ONLY <1>2, <1>6, i \in 1..n
  <2>2. w[i].op = "print_char_on_screen" /\ w[i].nested = i - 1
    BY ONLY <1>4, <2>1, i \in 1..n
  <2> QED BY ONLY <2>1, <2>2 DEF Pending
<1>12. ShowAll(w) = m
  <2>1. w = s \o l
    BY ONLY w = ScreenTasks(m) \o LineTasks(m) DEF s, l
  <2>2. ShowAll(w) = ShowAll(s) \o ShowAll(l) /\ ShowAll(l) \in Seq(Int)
    BY ONLY <1>4, <1>5, <2>1, ShowConcat
  <2>3. ShowAll(s) = <<>>
    <3> DEFINE g == [i \in 1..Len(s) |-> Show(s[i])]
    <3>1. \A i \in 1..n : Show(s[i]) = <<>>
      BY ONLY <1>4 DEF Show
    <3>2. g \in [1..n -> Seq(Int)] /\ \A i \in 1..n : g[i] = <<>>
      BY ONLY <1>4, <3>1, EmptySeq
    <3>3. ShowAll(s) = FlattenSeq(g)
      BY ONLY DEF ShowAll
    <3> HIDE DEF g
    <3> QED BY ONLY <1>2, <3>2, <3>3, FlattenNothing
  <2>4. ShowAll(l) = m
    <3>1. \A i \in 1..n : Show(l[i]) = <<m[i]>>
      BY ONLY <1>5 DEF Show
    <3>2. [i \in 1..Len(l) |-> Show(l[i])] = [i \in 1..Len(m) |-> <<m[i]>>]
      BY ONLY <1>5, <3>1 DEF n
    <3>3. FlattenSeq([i \in 1..Len(m) |-> <<m[i]>>]) = m
      BY ONLY <1>2, FlattenSingles
    <3> QED BY ONLY <3>2, <3>3 DEF ShowAll
  <2>5. <<>> \o ShowAll(l) = ShowAll(l)
    BY ONLY <2>2, ConcatEmptySeq
  <2> QED BY ONLY <2>2, <2>3, <2>4, <2>5
<1> QED BY ONLY <1>6, <1>8, <1>10, <1>11, <1>12 DEF n

LEMMA PrintkInv ==
  ASSUME IInv, NEW m \in Messages, printk(m)
  PROVE  IInv'
<1> DEFINE items == Literals(m)
<1>1. Begin("printk", items) /\ todo' = ScreenTasks(m) \o LineTasks(m)
  BY DEF printk, Literals
<1>2. m \in Seq(Char) /\ Len(m) \in Nat /\ Len(m) <= Columns
  <2>1. m \in Messages \cup {UartMessage} /\ Columns \in Nat
    BY ONLY m \in Messages, Consts
  <2>2. m \in Seq(Char) /\ Len(m) \in Nat /\ Len(m) < Columns
    BY ONLY <2>1, MessagesOK
  <2> QED BY ONLY <2>1, <2>2
<1>3. Text(items) = m /\ Args(items) = <<>>
  BY ONLY <1>2, LiteralItems
<1>4. /\ todo' \in Seq(Tasks) /\ AllPlaced(todo') /\ AllShallow(todo') /\ ShowAll(todo') = m
      /\ Writes(todo', m) /\ \A i \in 1..Len(m) : Pending(todo', i)
  BY ONLY <1>1, m \in Messages, PrintkTasks
<1> HIDE DEF items
<1>5. /\ pc' = "printk" /\ fmt'.by = "printk" /\ fmt'.items = items
      /\ fmt'.text = m /\ fmt'.args = <<>>
      /\ fmt'.early \in BOOLEAN
      /\ fmt'.early = FALSE => uart_addr' = SERIAL_PORT
      /\ fmt'.early = TRUE => uart_addr' = 0
      /\ cursor' = 1 /\ argi' = 1 /\ out' = <<>>
      /\ calls' \in 0..MaxCalls /\ UNCHANGED <<uart_addr, screen, count, interrupts>>
  BY ONLY <1>1, <1>3, IInv, Begins
<1>6. Typed'
  BY ONLY <1>4, <1>5, IInv, NothingOnLine DEF IInv, Typed
<1>7. Verbatim(items, m, <<>>)
  BY ONLY <1>2 DEF Verbatim, items
<1>8. CallInv'
  BY ONLY <1>5, <1>7, NothingOnLine DEF CallInv
<1>9. DepthInv'
  BY ONLY <1>4, <1>5 DEF DepthInv
<1>10. ScreenInv'
  BY ONLY <1>4, <1>5, IInv DEF IInv, ScreenInv
<1>11. PositionInv'
  <2>1. OnLine(out') \o ShowAll(todo') = m
    <3>1. <<>> \o m = m
      BY ONLY <1>2, ConcatEmptySeq
    <3> QED BY ONLY <1>4, <1>5, <3>1, NothingOnLine
  <2> QED BY ONLY <1>5, <2>1 DEF PositionInv
<1> QED BY ONLY <1>6, <1>8, <1>9, <1>10, <1>11 DEF IInv

-----------------------------------------------------------------------------
(* The invariant *)

LEMMA InitInv == Init => IInv
<1> SUFFICES ASSUME Init PROVE IInv
  OBVIOUS
<1>1. /\ pc = "main" /\ cursor = 1 /\ argi = 1 /\ todo = <<>> /\ uart_addr = 0 /\ out = <<>>
      /\ screen = [col \in 0..(Columns - 1) |-> 0] /\ count = 0 /\ calls = 0 /\ interrupts = 0
      /\ fmt = [by |-> "printk", early |-> TRUE, items |-> <<>>, text |-> <<>>, args |-> <<>>]
  BY DEF Init
<1>2. /\ fmt.by = "printk" /\ fmt.early = TRUE /\ fmt.items = <<>> /\ fmt.text = <<>> /\ fmt.args = <<>>
  BY ONLY <1>1
<1>3. <<>> \in Seq(Tasks) /\ AllPlaced(<<>>) /\ AllShallow(<<>>)
  BY ONLY EmptySeq DEF AllPlaced, AllShallow
<1>4. Typed
  <2>1. screen \in [0..(Columns - 1) -> 0..255]
    BY ONLY <1>1
  <2>2. count \in Nat /\ calls \in 0..MaxCalls /\ interrupts \in 0..MaxInterrupts
    BY ONLY <1>1, Consts
  <2> QED BY ONLY <1>1, <1>3, <2>1, <2>2, NothingOnLine DEF Typed
<1>5. CallInv
  <2>1. <<>> \in Seq(Char) /\ Len(<<>>) <= Columns /\ <<>> = Literals(<<>>)
    BY Consts DEF Literals
  <2> QED BY ONLY <1>1, <1>2, <2>1, NothingOnLine DEF CallInv, Verbatim
<1>6. DepthInv
  BY ONLY <1>1, <1>3 DEF DepthInv
<1>7. PositionInv
  BY ONLY <1>1, <1>2 DEF PositionInv
<1>8. ScreenInv
  <2>1. Legible(screen)
    BY ONLY <1>1 DEF Legible
  <2>2. Writes(<<>>, <<>>)
    BY DEF Writes
  <2>3. Len(<<>>) = 0
    OBVIOUS
  <2>4. \A i \in 1..Len(<<>>) : FALSE
    BY ONLY <2>3
  <2> QED BY ONLY <1>1, <1>2, <2>1, <2>2, <2>4 DEF ScreenInv
<1> QED BY ONLY <1>4, <1>5, <1>6, <1>7, <1>8 DEF IInv

LEMMA NextInv == IInv /\ [Next]_vars => IInv'
<1> SUFFICES ASSUME IInv, [Next]_vars PROVE IInv'
  OBVIOUS
<1>1. CASE uart_init
  BY <1>1, UartInitInv
<1>2. CASE \E f \in Formats : kprintf(f)
  BY <1>2, KprintfInv
<1>3. CASE \E m \in Messages : printk(m)
  BY <1>3, PrintkInv
<1>4. CASE display_var
  BY <1>4, DisplayInv
<1>5. CASE kprintf_text
  BY <1>5, TextInv
<1>6. CASE kprintf_return \/ printk_return
  BY <1>6, ReturnInv
<1>7. CASE kprintf_putchar \/ uart_putchar
  BY <1>7, PutCharInv
<1>8. CASE my_put_nbr_base
  BY <1>8, NbrInv
<1>9. CASE my_put_uint_base
  BY <1>9, UintInv
<1>10. CASE print_char_on_screen
  BY <1>10, ScreenInvStep
<1>11. CASE \E key \in Keys : keyboard_handler(key)
  BY <1>11, KeyboardInv
<1>12. CASE \E key \in Keys : uart_handler(key)
  BY <1>12, UartInv
<1>13. CASE crashed \/ done \/ UNCHANGED vars
  BY <1>13, StutterInv DEF crashed, done
<1> QED BY <1>1, <1>2, <1>3, <1>4, <1>5, <1>6, <1>7, <1>8, <1>9, <1>10, <1>11, <1>12, <1>13
      DEF Next, Running

(* The invariant of the module holds for every width of a word, every set  *)
(* of well-typed formats and every number of calls and interrupts: what    *)
(* kprintf (src/src/tools/kprintf.c) and printk have put on the line and   *)
(* what they have still to print are always what the part of the format    *)
(* that they have read means.                                              *)
THEOREM OutputInvariant == Spec => []IInv
<1>1. Init => IInv
  BY InitInv
<1>2. IInv /\ [Next]_vars => IInv'
  BY NextInv
<1> QED BY <1>1, <1>2, PTL DEF Spec

LEMMA InvTypeOK == IInv => TypeOK
<1> SUFFICES ASSUME IInv PROVE TypeOK
  OBVIOUS
<1>1. Typed /\ CallInv /\ PositionInv
  BY DEF IInv
<1>2. ASSUME fmt.by = "printk"
      PROVE  cursor \in 1..(Len(fmt.text) + 1) /\ argi \in 1..(Len(fmt.args) + 1)
  <2>1. cursor = 1 /\ argi = 1 /\ fmt.text \in Seq(Char) /\ fmt.args = <<>>
    BY ONLY <1>1, <1>2 DEF CallInv, Verbatim, PositionInv
  <2>2. Len(fmt.text) \in Nat /\ Len(fmt.args) = 0
    <3>1. Len(fmt.text) \in Nat
      BY ONLY <2>1, LenProperties
    <3>2. Len(<<>>) = 0
      OBVIOUS
    <3> QED BY ONLY <2>1, <3>1, <3>2
  <2> QED BY ONLY <2>1, <2>2
<1>3. ASSUME fmt.by = "kprintf"
      PROVE  cursor \in 1..(Len(fmt.text) + 1) /\ argi \in 1..(Len(fmt.args) + 1)
  <2>1. PICK k \in 0..Len(fmt.items) : Reached(fmt.items, k, cursor, argi)
    BY ONLY <1>1, <1>3 DEF PositionInv
  <2> DEFINE P == Pieces(fmt.items)
             A == Passes(fmt.items)
  <2>2. WellFormed(fmt.items) /\ fmt.text = FlattenSeq(P) /\ fmt.args = FlattenSeq(A)
    BY ONLY <1>1, <1>3 DEF CallInv, Formatted
  <2>3. /\ Len(Upto(P, k)) \in 0..Len(FlattenSeq(P)) /\ Len(Upto(A, k)) \in 0..Len(FlattenSeq(A))
        /\ Len(FlattenSeq(P)) \in Nat /\ Len(FlattenSeq(A)) \in Nat
    BY ONLY <2>2, k \in 0..Len(fmt.items), AtEnd
  <2>4. cursor = 1 + Len(Upto(P, k)) /\ argi = 1 + Len(Upto(A, k))
    BY ONLY <2>1 DEF Reached
  <2> HIDE DEF P, A
  <2> QED BY ONLY <2>2, <2>3, <2>4
<1>4. cursor \in 1..(Len(fmt.text) + 1) /\ argi \in 1..(Len(fmt.args) + 1)
  BY ONLY <1>1, <1>2, <1>3 DEF CallInv
<1>5. ASSUME NEW i \in 1..Len(todo)
      PROVE  todo[i].n \in (-WIDTH)..WIDTH /\ todo[i].nested \in Nat
  <2> DEFINE t == todo[i]
  <2>1. t \in Tasks
    BY ONLY <1>1, i \in 1..Len(todo), ElementOfSeq DEF Typed
  <2> HIDE DEF t
  <2>2. t \in Task /\ TaskOK(t)
    BY ONLY <2>1 DEF Tasks
  <2>3. t.nested \in Nat /\ t.op \in CharOps \cup {"my_put_nbr_base", "my_put_uint_base"}
    BY ONLY <2>2 DEF Task
  <2>4. t.n \in 0..255 \/ t.n \in 0..(WIDTH - 1) \/ t.n \in (-Half)..(Half - 1)
    BY ONLY <2>2, <2>3 DEF TaskOK
  <2>5. t.n \in (-WIDTH)..WIDTH
    <3> DEFINE v == t.n
    <3>1. v \in 0..255 \/ v \in 0..(WIDTH - 1) \/ v \in (-Half)..(Half - 1)
      BY ONLY <2>4
    <3> HIDE DEF v
    <3>2. WIDTH \in Nat /\ WIDTH > 512 /\ Half \in Nat /\ WIDTH = 2 * Half
      BY ONLY Consts
    <3>3. v \in (-WIDTH)..WIDTH
      <4>1. CASE v \in 0..255
        BY ONLY <3>2, <4>1
      <4>2. CASE v \in 0..(WIDTH - 1)
        BY ONLY <3>2, <4>2
      <4>3. CASE v \in (-Half)..(Half - 1)
        <5>1. v \in Int /\ -Half <= v /\ v <= Half - 1
          BY ONLY <3>2, <4>3
        <5>2. -WIDTH <= v /\ v <= WIDTH
          BY ONLY <3>2, <5>1
        <5> QED BY ONLY <3>2, <5>1, <5>2
      <4> QED BY ONLY <3>1, <4>1, <4>2, <4>3
    <3> QED BY ONLY <3>3 DEF v
  <2> QED BY ONLY <2>3, <2>5 DEF t
<1>6. ASSUME NEW i \in 1..Len(out)
      PROVE  out[i].c \in 0..255 /\ out[i].port \in {0, SERIAL_PORT}
  <2>1. out[i] \in Message
    BY ONLY <1>1, i \in 1..Len(out), ElementOfSeq DEF Typed
  <2> QED BY ONLY <2>1 DEF Message
<1>7. \A col \in 0..(Columns - 1) : screen[col] \in 0..255
  BY ONLY <1>1 DEF Typed
<1> QED BY ONLY <1>1, <1>4, <1>5, <1>6, <1>7 DEF TypeOK, Typed

LEMMA InvCallShown == IInv => CallShown
<1> SUFFICES ASSUME IInv PROVE CallShown
  OBVIOUS
<1>1. Typed /\ CallInv /\ DepthInv /\ PositionInv /\ ScreenInv
  BY DEF IInv
<1>2. Shown = OnLine(out)
  BY DEF Shown, OnLine
<1>3. out \in Seq(Message) /\ todo \in Seq(Tasks)
  BY ONLY <1>1 DEF Typed
<1> DEFINE x == OnLine(out)
           y == ShowAll(todo)
           R == FlattenSeq(Meanings(fmt.items))
<1>4. x \in Seq(Int)
  BY ONLY <1>3, LineConcat
<1>5. y \in Seq(Int)
  BY ONLY <1>3, ShowConcat
<1>6. Rendering = R
  BY DEF Rendering, Meanings
<1>7. pc = "main" => y = <<>>
  BY ONLY <1>1, ShowEmpty DEF Typed
<1> HIDE DEF x, y, R
<1>8. IsPrefix(x, x \o y) /\ (pc = "main" => x \o y = x)
  <2>1. x \o <<>> = x
    BY ONLY <1>4, ConcatEmptySeq
  <2>2. IsPrefix(x, x \o y)
    BY ONLY <1>4, <1>5, PrefixOf
  <2> QED BY ONLY <1>7, <2>1, <2>2
<1>9. ASSUME fmt.early = FALSE, AllExact(fmt.items)
      PROVE  IsPrefix(x, R) /\ (pc = "main" => x = R)
  <2>1. CASE fmt.by = "printk"
    <3>1. x \o y = fmt.text
      BY ONLY <1>1, <1>9, <2>1 DEF PositionInv, x, y
    <3>2. fmt.text \in Seq(Char) /\ fmt.items = Literals(fmt.text)
      BY ONLY <1>1, <2>1 DEF CallInv, Verbatim
    <3>3. R = fmt.text
      BY ONLY <3>2, LiteralItems DEF R
    <3> QED BY ONLY <1>8, <3>1, <3>3
  <2>2. CASE fmt.by = "kprintf"
    <3>1. PICK k \in 0..Len(fmt.items) :
             /\ pc = "main" => k = Len(fmt.items)
             /\ x \o y = Upto(Meanings(fmt.items), k)
      BY ONLY <1>1, <1>9, <2>2 DEF PositionInv, x, y
    <3> DEFINE M == Meanings(fmt.items)
               N == Len(fmt.items)
    <3>2. WellFormed(fmt.items)
      BY ONLY <1>1, <2>2 DEF CallInv, Formatted
    <3>3. N \in Nat /\ M \in [1..N -> Seq(Int)]
      BY ONLY <1>9, <3>2, ItemsTyped DEF AllExact
    <3>4. k \in 0..N /\ x \o y = Upto(M, k) /\ R = FlattenSeq(M) /\ (pc = "main" => k = N)
      BY ONLY <3>1 DEF R
    <3> HIDE DEF M, N
    <3>5. pc = "main" => x = R
      <4>1. Upto(M, N) = FlattenSeq(M)
        BY ONLY <3>3, UptoStep
      <4> QED BY ONLY <1>8, <3>4, <4>1
    <3>6. IsPrefix(x, R)
      <4> DEFINE z == After(M, N, k)
      <4>1. \A e \in 0..N : FlattenSeq(M) = Upto(M, e) \o After(M, N, e) /\ After(M, N, e) \in Seq(Int)
        BY ONLY <3>3, UptoRest
      <4>2. R = (x \o y) \o z /\ z \in Seq(Int)
        BY ONLY <3>4, <4>1
      <4> HIDE DEF z
      <4>3. (x \o y) \o z = x \o (y \o z) /\ y \o z \in Seq(Int)
        BY ONLY <1>4, <1>5, <4>2, ConcatAssociative, ConcatProperties, SMTT(40)
      <4> DEFINE v == y \o z
      <4>4. R = x \o v /\ v \in Seq(Int)
        BY ONLY <4>2, <4>3
      <4> HIDE DEF v
      <4> QED BY ONLY <1>4, <4>4, PrefixOf
    <3> QED BY ONLY <3>5, <3>6
  <2> QED BY ONLY <1>1, <2>1, <2>2 DEF CallInv
<1>10. LineShowsCall
  <2>1. CASE fmt.early = TRUE
    BY ONLY <2>1 DEF LineShowsCall
  <2>2. CASE fmt.early = FALSE
    <3>1. Shown = x
      BY ONLY <1>2 DEF x
    <3> QED BY ONLY <1>6, <1>9, <2>2, <3>1 DEF LineShowsCall, AllExact
  <2> QED BY ONLY <1>1, <2>1, <2>2 DEF CallInv
<1>11. ScreenShows
  <2>1. Legible(screen)
    BY ONLY <1>1 DEF ScreenInv
  <2>2. ASSUME pc = "main", fmt.by = "printk", interrupts = 0
        PROVE  \A i \in 1..Len(fmt.text) : screen[i - 1] = fmt.text[i]
    <3>1. \A i \in 1..Len(fmt.text) : screen[i - 1] = fmt.text[i] \/ Pending(todo, i)
      BY ONLY <1>1, <2>2 DEF ScreenInv
    <3>2. todo = <<>>
      BY ONLY <1>1, <2>2 DEF Typed
    <3>3. \A i : ~Pending(todo, i)
      BY <3>2 DEF Pending
    <3> QED BY ONLY <3>1, <3>3
  <2> QED BY ONLY <2>1, <2>2 DEF ScreenShows, Legible
<1> QED BY ONLY <1>10, <1>11 DEF CallShown

(* Every call keeps the types of the state: the cursor and the next        *)
(* argument stay inside the format and the arguments of the call, so       *)
(* kprintf never reads past either, and what goes to the line and the      *)
(* screen is a character.                                                  *)
THEOREM OutputTypeOK == Spec => []TypeOK
BY OutputInvariant, InvTypeOK, PTL

(* A call of kprintf or printk after uart_init sends to the line what its  *)
(* format and arguments stand for, in order and once, with the numerals    *)
(* and units of my_put_nbr_base, my_put_uint_base and format_bytes_size    *)
(* and the escapes of my_full_putstr, between any characters of the        *)
(* handlers, if all arguments are Exact; and the screen shows the message  *)
(* of printk.                                                              *)
THEOREM OutputCallShown == Spec => []CallShown
BY OutputInvariant, InvCallShown, PTL

(* The recursion of my_put_nbr_base runs over the stack for no argument    *)
(* but the least int, which is its own negation.                           *)
THEOREM OutputNoOverflow ==
  Spec => [](pc = "overflow" => \E i \in 1..Len(fmt.items) : LeastInt(fmt.items[i]))
<1>1. IInv => (pc = "overflow" => \E i \in 1..Len(fmt.items) : LeastInt(fmt.items[i]))
  BY DEF IInv, DepthInv, NoLeast
<1> QED BY <1>1, OutputInvariant, PTL
=============================================================================
