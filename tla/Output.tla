------------------------------- MODULE Output --------------------------------
(***************************************************************************)
(* What the kernel prints: kprintf with its number conversions, which      *)
(* writes to the serial line, and printk, which writes to the first row of *)
(* the screen and to the line.  Both are interrupted between any two       *)
(* characters by the handlers of the keyboard and of the serial line,      *)
(* which print as well.                                                    *)
(*                                                                         *)
(* A character is its code.  A word has WIDTH values (2^32), and 1024 and  *)
(* 1000, the numbers behind %B, are KB and THOUSAND.  The functions that   *)
(* kprintf has called and that have still to print are the sequence todo,  *)
(* the innermost first.                                                    *)
(***************************************************************************)
EXTENDS Integers, Sequences, SequencesExt

CONSTANTS
  WIDTH, KB, THOUSAND,
  Formats,       \* arguments of kprintf: sequences of characters and directives
  Messages,      \* arguments of printk: sequences of characters
  UartMessage,   \* what uart_handler prints with printk
  Keys,          \* characters typed or received, 0 if it is none
  Columns,       \* columns of a row of the screen
  MaxNested,     \* bound: recursive calls the kernel stack has room for
  MaxCalls,      \* bound: calls of kprintf and printk
  MaxInterrupts  \* bound: interrupts while these run

VARIABLES
  pc,          \* main, kprintf, printk or overflow
  fmt,         \* the call that runs, or that ran last
  cursor,      \* next character of the format
  argi,        \* next argument
  todo,        \* what display_var has still to print
  uart_addr,   \* port of the serial line, 0 until uart_init
  out,         \* characters sent since the call began, with port and sender
  screen,      \* first row of the screen
  count,       \* nbr_disp_bytes
  calls,       \* calls so far
  interrupts   \* interrupts so far

vars == <<pc, fmt, cursor, argi, todo, uart_addr, out, screen, count, calls, interrupts>>

SERIAL_PORT == 1016
C == [percent |-> 37, s |-> 115, d |-> 100, i |-> 105, c |-> 99, o |-> 111, u |-> 117,
      x |-> 120, X |-> 88, p |-> 112, b |-> 98, B |-> 66, S |-> 83,
      zero |-> 48, minus |-> 45, dot |-> 46, backslash |-> 92, newline |-> 10]
BIN == <<48, 49>>
OCT == [i \in 1..8 |-> 47 + i]
DEC == [i \in 1..10 |-> 47 + i]
HEX_LOWER == [i \in 1..16 |-> IF i <= 10 THEN 47 + i ELSE 86 + i]
HEX_UPPER == [i \in 1..16 |-> IF i <= 10 THEN 47 + i ELSE 54 + i]
NULL == <<-1>>
LITERAL == 0    \* in an item of Formats: a character that stands for itself
NIL == <<40, 110, 105, 108, 41>>
MB == KB * KB
GB == KB * KB * KB
Signed(w) == IF w < WIDTH \div 2 THEN w ELSE w - WIDTH

(* b to the power of k.                                                    *)
Power(b, k) ==
  LET p[i \in 0..k] == IF i = 0 THEN 1 ELSE b * p[i - 1]
  IN p[k]

(* What callers pass: a format whose arguments have the types of its       *)
(* directives, and strings that hold no 0.                                 *)
Char == 1..255
WellTyped(it) ==
  /\ it.flag \in 0..255
  /\ it.flag = LITERAL => it.arg \in Char \ {C.percent}
  /\ it.flag \in {C.d, C.i, C.o, C.u, C.x, C.X, C.p, C.b, C.B} => it.arg \in 0..(WIDTH - 1)
  /\ it.flag = C.c => it.arg \in 0..255
  /\ it.flag = C.s => it.arg = NULL \/ it.arg \in Seq(Char)
  /\ it.flag = C.S => it.arg \in Seq(Char)

ASSUME OutputAssumption ==
  /\ WIDTH \in Nat /\ WIDTH % 2 = 0 /\ WIDTH > 512   \* a word has more values than a char
  /\ KB \in Nat /\ KB >= 2 /\ THOUSAND \in Nat \ {0}
  /\ GB < WIDTH /\ MB * THOUSAND <= WIDTH
  /\ \A f \in Formats : f \in Seq(Range(f)) /\ \A it \in Range(f) : WellTyped(it)
  /\ Columns \in Nat
  /\ Messages \cup {UartMessage} \subseteq Seq(Char)
  /\ \A m \in Messages \cup {UartMessage} : Len(m) < Columns
  /\ Keys \subseteq 0..255
  /\ MaxNested \in Nat /\ Power(2, MaxNested) > WIDTH
  /\ MaxCalls \in Nat /\ MaxInterrupts \in Nat

-----------------------------------------------------------------------------
(* What is left to print *)

Chr(c) == [op |-> "kprintf_putchar", n |-> c, base |-> <<>>, nested |-> 0]
Nbr(n, base, nested) == [op |-> "my_put_nbr_base", n |-> n, base |-> base, nested |-> nested]
UInt(n, base) == [op |-> "my_put_uint_base", n |-> n, base |-> base, nested |-> 0]
Chars(s) == [i \in 1..Len(s) |-> Chr(s[i])]

my_putstr(s) == IF s = NULL THEN <<>> ELSE Chars(s)

display_uint(n) == IF n = 0 THEN <<Chr(C.zero)>> ELSE <<UInt(n, DEC)>>

display_pointer(n) ==
  IF n = 0 THEN Chars(NIL) ELSE Chars(<<48, 120>>) \o <<UInt(n, HEX_LOWER)>>

(* The value of a char is negative from 128 on.                            *)
Escaped(byte) ==
  LET c == IF byte < 128 THEN byte ELSE byte - 256
      pad == IF c < 8 THEN <<48, 48>> ELSE IF c < 32 THEN <<48>> ELSE <<>>
  IN IF c < 32 \/ c >= 127
     THEN <<Chr(C.backslash)>> \o Chars(pad) \o <<Nbr(c, OCT, 1)>>
     ELSE <<Chr(byte)>>
my_full_putstr(s) == FlattenSeq([i \in 1..Len(s) |-> Escaped(s[i])])

(* The product with THOUSAND has the width of a word.                      *)
format_bytes_size_value(n, unit_name, unit_size) ==
  LET decimal == (((n % unit_size) * THOUSAND) % WIDTH) \div unit_size
  IN display_uint(n \div unit_size)
     \o (IF unit_size # 1 /\ decimal > 0 THEN <<Chr(C.dot)>> \o display_uint(decimal) ELSE <<>>)
     \o Chars(unit_name)

format_bytes_size(n) ==
  CASE n < KB              -> format_bytes_size_value(n, <<66>>, 1)
    [] n >= KB /\ n < MB   -> format_bytes_size_value(n, <<75, 98>>, KB)
    [] n >= MB /\ n < GB   -> format_bytes_size_value(n, <<77, 98>>, MB)
    [] n >= GB             -> format_bytes_size_value(n, <<71, 98>>, GB)

Takes(flag) == flag \in {C.s, C.d, C.i, C.c, C.o, C.u, C.x, C.X, C.p, C.b, C.B, C.S}

DisplayTasks(flag, arg) ==
  CASE flag = C.percent      -> <<Chr(C.percent)>>
    [] flag = C.s            -> my_putstr(arg)
    [] flag \in {C.d, C.i}   -> <<Nbr(Signed(arg), DEC, 1)>>
    [] flag = C.c            -> <<Chr(arg)>>
    [] flag = C.o            -> <<UInt(arg, OCT)>>
    [] flag = C.u            -> display_uint(arg)
    [] flag = C.x            -> <<UInt(arg, HEX_LOWER)>>
    [] flag = C.X            -> <<UInt(arg, HEX_UPPER)>>
    [] flag = C.p            -> display_pointer(arg)
    [] flag = C.b            -> <<Nbr(Signed(arg), BIN, 1)>>
    [] flag = C.B            -> format_bytes_size(arg)
    [] flag = C.S            -> my_full_putstr(arg)
    [] OTHER                 -> <<Chr(C.percent), Chr(flag)>>

-----------------------------------------------------------------------------

Init ==
  /\ pc = "main"
  /\ fmt = [by |-> "printk", early |-> TRUE, items |-> <<>>, text |-> <<>>, args |-> <<>>]
  /\ cursor = 1 /\ argi = 1
  /\ todo = <<>>
  /\ uart_addr = 0
  /\ out = <<>>
  /\ screen = [col \in 0..(Columns - 1) |-> 0]
  /\ count = 0
  /\ calls = 0
  /\ interrupts = 0

(* main_new calls it once, with the one address it accepts.                *)
uart_init ==
  /\ pc = "main" /\ uart_addr = 0
  /\ uart_addr' = SERIAL_PORT
  /\ UNCHANGED <<pc, fmt, cursor, argi, todo, out, screen, count, calls, interrupts>>

Piece(it) == IF it.flag = LITERAL THEN <<it.arg>> ELSE <<C.percent, it.flag>>
Text(items) == FlattenSeq([i \in 1..Len(items) |-> Piece(items[i])])
Passed(it) == IF Takes(it.flag) THEN <<it.arg>> ELSE <<>>
Args(items) == FlattenSeq([i \in 1..Len(items) |-> Passed(items[i])])

Begin(name, items) ==
  /\ pc = "main" /\ calls < MaxCalls
  /\ pc' = name
  /\ fmt' = [by |-> name, early |-> uart_addr = 0, items |-> items,
            text |-> Text(items), args |-> Args(items)]
  /\ cursor' = 1 /\ argi' = 1
  /\ out' = <<>>
  /\ calls' = calls + 1
  /\ UNCHANGED <<uart_addr, screen, count, interrupts>>

kprintf(f) == Begin("kprintf", f) /\ todo' = <<>>

(* Mutant: takes an argument for %% as well.                               *)
NextArgAlways(flag) == argi + 1

(* va_arg moves on where it is used.                                       *)
NextArg(flag) == IF Takes(flag) THEN argi + 1 ELSE argi

display_var ==
  /\ pc = "kprintf" /\ todo = <<>> /\ cursor <= Len(fmt.text)
  /\ fmt.text[cursor] = C.percent
  /\ todo' = DisplayTasks(fmt.text[cursor + 1], fmt.args[argi])
  /\ argi' = NextArg(fmt.text[cursor + 1])
  /\ cursor' = cursor + 2
  /\ UNCHANGED <<pc, fmt, uart_addr, out, screen, count, calls, interrupts>>

kprintf_text ==
  /\ pc = "kprintf" /\ todo = <<>> /\ cursor <= Len(fmt.text)
  /\ fmt.text[cursor] # C.percent
  /\ todo' = <<Chr(fmt.text[cursor])>>
  /\ cursor' = cursor + 1
  /\ UNCHANGED <<pc, fmt, argi, uart_addr, out, screen, count, calls, interrupts>>

kprintf_return ==
  /\ pc = "kprintf" /\ todo = <<>> /\ cursor > Len(fmt.text)
  /\ count' = count + 1
  /\ pc' = "main"
  /\ UNCHANGED <<fmt, cursor, argi, todo, uart_addr, out, screen, calls, interrupts>>

Sent(by, s) == [i \in 1..Len(s) |-> [by |-> by, port |-> uart_addr, c |-> s[i]]]

(* kwrite, uart_send_buffer and uart_send, which waits for nothing.        *)
kprintf_putchar ==
  /\ todo # <<>> /\ Head(todo).op = "kprintf_putchar"
  /\ out' = out \o Sent("kernel", <<Head(todo).n>>)
  /\ count' = count + 1
  /\ todo' = Tail(todo)
  /\ UNCHANGED <<pc, fmt, cursor, argi, uart_addr, screen, calls, interrupts>>

(* The body: - num has the width of an int, so the least int is its own    *)
(* negation.                                                               *)
NbrTasks(t) ==
  LET len == Len(t.base)
      start == t.n \div len
  IN IF t.n < 0
     THEN <<Chr(C.minus), Nbr(Signed((-t.n) % WIDTH), t.base, t.nested + 1)>>
     ELSE (IF start # 0 THEN <<Nbr(start, t.base, t.nested + 1)>> ELSE <<>>)
          \o <<Chr(t.base[(t.n % len) + 1])>>

(* A recursion that is too deep runs over the end of the stack.            *)
my_put_nbr_base ==
  /\ todo # <<>> /\ Head(todo).op = "my_put_nbr_base"
  /\ IF Head(todo).nested > MaxNested
     THEN pc' = "overflow" /\ todo' = <<>>
     ELSE UNCHANGED pc /\ todo' = NbrTasks(Head(todo)) \o Tail(todo)
  /\ UNCHANGED <<fmt, cursor, argi, uart_addr, out, screen, count, calls, interrupts>>

(* Mutant: does not end with 0.                                            *)
UintNeverEnds(t) ==
  <<UInt(t.n \div Len(t.base), t.base)>>
  \o (IF t.n = 0 THEN <<>> ELSE <<Chr(t.base[(t.n % Len(t.base)) + 1])>>)

UintTasks(t) ==
  IF t.n = 0 THEN <<>>
  ELSE <<UInt(t.n \div Len(t.base), t.base), Chr(t.base[(t.n % Len(t.base)) + 1])>>

(* my_put_uint_base and my_put_ulong_base, which are the same in 32 bits.  *)
my_put_uint_base ==
  /\ todo # <<>> /\ Head(todo).op = "my_put_uint_base"
  /\ todo' = UintTasks(Head(todo)) \o Tail(todo)
  /\ UNCHANGED <<pc, fmt, cursor, argi, uart_addr, out, screen, count, calls, interrupts>>

-----------------------------------------------------------------------------
(* printk, and the handlers, whose output comes in one piece *)

(* Mutant: the column of every character is that of the first.             *)
ScreenTasksSameColumn(s) ==
  [i \in 1..Len(s) |-> [op |-> "print_char_on_screen", n |-> s[i], base |-> <<>>, nested |-> 0]]

(* printk_on_screen: the column goes where other functions keep the depth. *)
ScreenTasks(s) ==
  [i \in 1..Len(s) |-> [op |-> "print_char_on_screen", n |-> s[i], base |-> <<>>, nested |-> i - 1]]
LineTasks(s) ==
  [i \in 1..Len(s) |-> [op |-> "uart_putchar", n |-> s[i], base |-> <<>>, nested |-> 0]]

printk(m) ==
  /\ Begin("printk", [i \in 1..Len(m) |-> [flag |-> LITERAL, arg |-> m[i]]])
  /\ todo' = ScreenTasks(m) \o LineTasks(m)

print_char_on_screen ==
  /\ todo # <<>> /\ Head(todo).op = "print_char_on_screen"
  /\ screen' = [screen EXCEPT ![Head(todo).nested] = Head(todo).n]
  /\ todo' = Tail(todo)
  /\ UNCHANGED <<pc, fmt, cursor, argi, uart_addr, out, count, calls, interrupts>>

uart_putchar ==
  /\ todo # <<>> /\ Head(todo).op = "uart_putchar"
  /\ out' = out \o Sent("kernel", <<Head(todo).n>>)
  /\ todo' = Tail(todo)
  /\ UNCHANGED <<pc, fmt, cursor, argi, uart_addr, screen, count, calls, interrupts>>

printk_return ==
  /\ pc = "printk" /\ todo = <<>>
  /\ pc' = "main"
  /\ UNCHANGED <<fmt, cursor, argi, todo, uart_addr, out, screen, count, calls, interrupts>>

(* Interrupts are enabled after uart_init.                                 *)
Interrupted ==
  /\ uart_addr # 0 /\ pc \in {"kprintf", "printk"} /\ interrupts < MaxInterrupts
  /\ interrupts' = interrupts + 1
  /\ UNCHANGED <<pc, fmt, cursor, argi, todo, uart_addr, count, calls>>

keyboard_handler(key) ==
  /\ Interrupted
  /\ out' = out \o Sent("handler", <<key>>)
  /\ UNCHANGED screen

uart_handler(key) ==
  /\ Interrupted
  /\ screen' = [col \in DOMAIN screen |->
                  IF col < Len(UartMessage) THEN UartMessage[col + 1] ELSE screen[col]]
  /\ out' = out \o Sent("handler", UartMessage \o <<key, C.newline>>)

-----------------------------------------------------------------------------

(* The kernel has run over its stack.                                      *)
crashed ==
  /\ pc = "overflow"
  /\ UNCHANGED vars

(* The bound on calls is reached.                                          *)
done ==
  /\ pc = "main" /\ calls = MaxCalls /\ uart_addr # 0
  /\ UNCHANGED vars

Running ==
  \/ display_var \/ kprintf_text \/ kprintf_return \/ kprintf_putchar
  \/ my_put_nbr_base \/ my_put_uint_base
  \/ print_char_on_screen \/ uart_putchar \/ printk_return

Next ==
  \/ uart_init
  \/ \E f \in Formats : kprintf(f)
  \/ \E m \in Messages : printk(m)
  \/ Running
  \/ \E key \in Keys : keyboard_handler(key)
  \/ \E key \in Keys : uart_handler(key)
  \/ crashed
  \/ done

(* A call that has begun goes on; interrupts end.                          *)
Spec == Init /\ [][Next]_vars /\ WF_vars(Running)

-----------------------------------------------------------------------------
(* The text that the directives of a format stand for, whatever kprintf    *)
(* makes of them: numbers in positional notation, of their sign and width. *)

NumDigits(n, b) == CHOOSE k \in 0..MaxNested : Power(b, k) > n /\ (k = 0 \/ Power(b, k - 1) <= n)
(* The last k digits of n, and all of them.                                *)
Fixed(n, digits, k) == [i \in 1..k |-> digits[((n \div Power(Len(digits), k - i)) % Len(digits)) + 1]]
Numeral(n, digits) == Fixed(n, digits, NumDigits(n, Len(digits)))

Number(n, digits) ==
  CASE n = 0 -> <<C.zero>>
    [] n > 0 -> Numeral(n, digits)
    [] n < 0 -> <<C.minus>> \o Numeral(-n, digits)

(* In the largest unit that fits, rounded down to thousandths: 2000 bytes  *)
(* are 1.953Kb and 1050 bytes 1.025Kb, with the zero.                      *)
UnitOf(n) == CHOOSE k \in 0..3 : (k = 0 \/ n >= Power(KB, k)) /\ (k = 3 \/ n < Power(KB, k + 1))
Thousandths(n) ==
  LET unit == Power(KB, UnitOf(n))
  IN ((n * THOUSAND) \div unit) - ((n \div unit) * THOUSAND)
FractionDigits == NumDigits(THOUSAND - 1, 10)
Amount(n) ==
  Number(n \div Power(KB, UnitOf(n)), DEC)
  \o (IF Thousandths(n) > 0 THEN <<C.dot>> \o Fixed(Thousandths(n), DEC, FractionDigits) ELSE <<>>)
  \o << <<66>>, <<75, 98>>, <<77, 98>>, <<71, 98>> >>[UnitOf(n) + 1]

(* Three octal digits for what is not printable.                           *)
Visible(c) ==
  IF c \in 32..126 THEN <<c>>
  ELSE <<C.backslash>> \o Fixed(c, OCT, 3)

Rendered(flag, arg) ==
  CASE flag = C.s -> IF arg = NULL THEN <<>> ELSE arg
    [] flag \in {C.d, C.i} -> Number(Signed(arg), DEC)
    [] flag = C.b -> Number(arg, BIN)
    [] flag = C.c -> <<arg>>
    [] flag = C.o -> Number(arg, OCT)
    [] flag = C.u -> Number(arg, DEC)
    [] flag = C.x -> Number(arg, HEX_LOWER)
    [] flag = C.X -> Number(arg, HEX_UPPER)
    [] flag = C.p -> IF arg = 0 THEN NIL ELSE <<48, 120>> \o Numeral(arg, HEX_LOWER)
    [] flag = C.B -> Amount(arg)
    [] flag = C.S -> FlattenSeq([i \in 1..Len(arg) |-> Visible(arg[i])])

Meaning(it) ==
  CASE it.flag = LITERAL -> <<it.arg>>
    [] it.flag = C.percent -> <<C.percent>>
    [] Takes(it.flag) -> Rendered(it.flag, it.arg)
    [] OTHER -> <<C.percent, it.flag>>
Rendering == FlattenSeq([i \in 1..Len(fmt.items) |-> Meaning(fmt.items[i])])

(* Arguments whose text is not that: the least int, which is its own       *)
(* negation; 0 in %o, %x and %X, which print nothing for it; a word from   *)
(* WIDTH \div 2 on in %b, which takes it for a negative number; an amount  *)
(* whose thousandths need more than a word, or begin with zeros, which %B  *)
(* leaves out; characters beyond ASCII in %S.                              *)
LeastInt(it) == it.flag \in {C.d, C.i, C.b} /\ it.arg = WIDTH \div 2
ExactAmount(n) ==
  /\ n < GB \/ (n % GB) * THOUSAND < WIDTH
  /\ Thousandths(n) = 0 \/ NumDigits(Thousandths(n), 10) = FractionDigits
Exact(it) ==
  /\ ~LeastInt(it)
  /\ it.flag \in {C.o, C.x, C.X} => it.arg # 0
  /\ it.flag = C.b => it.arg < WIDTH \div 2
  /\ it.flag = C.B => ExactAmount(it.arg)
  /\ it.flag = C.S => \A i \in 1..Len(it.arg) : it.arg[i] < 128

-----------------------------------------------------------------------------

(* What the kernel has put on the line since the call began.               *)
Wire(m) == IF m.by = "kernel" /\ m.port = SERIAL_PORT THEN <<m.c>> ELSE <<>>
Shown == FlattenSeq([i \in 1..Len(out) |-> Wire(out[i])])

(* Type invariant.                                                         *)
TypeOK ==
  /\ pc \in {"main", "kprintf", "printk", "overflow"}
  /\ cursor \in 1..(Len(fmt.text) + 1) /\ argi \in 1..(Len(fmt.args) + 1)
  /\ \A i \in 1..Len(todo) : todo[i].n \in (-WIDTH)..WIDTH /\ todo[i].nested \in Nat
  /\ uart_addr \in {0, SERIAL_PORT}
  /\ \A i \in 1..Len(out) : out[i].c \in 0..255 /\ out[i].port \in {0, SERIAL_PORT}
  /\ \A col \in 0..(Columns - 1) : screen[col] \in 0..255
  /\ count \in Nat /\ calls \in 0..MaxCalls /\ interrupts \in 0..MaxInterrupts

(* The characters that a call after uart_init sends to the line are those  *)
(* that its format and arguments stand for, in this order, none lost and   *)
(* none sent twice, however often handlers interrupt it, if every argument *)
(* is one that kprintf prints exactly.  What handlers print may stand      *)
(* between them, and nothing is said of a call before uart_init, whose     *)
(* characters go to port 0.                                                *)
LineShowsCall ==
  ~fmt.early /\ (\A i \in 1..Len(fmt.items) : Exact(fmt.items[i])) =>
    IF pc = "main" THEN Shown = Rendering ELSE IsPrefix(Shown, Rendering)

(* Each cell of the row shows a character that some message has in that    *)
(* column, and the message of a call that no handler interrupted is shown  *)
(* whole.                                                                  *)
ScreenShows ==
  /\ \A col \in 0..(Columns - 1) :
       \/ screen[col] = 0
       \/ \E m \in Messages \cup {UartMessage} : col < Len(m) /\ screen[col] = m[col + 1]
  /\ pc = "main" /\ fmt.by = "printk" /\ interrupts = 0 =>
       \A i \in 1..Len(fmt.text) : screen[i - 1] = fmt.text[i]

(* Both: kprintf and printk put the text of a call on the line, and printk *)
(* on the row of the screen, with what handlers print in between.          *)
CallShown == LineShowsCall /\ ScreenShows

(* Every call returns, unless it is to print the least int: the recursion  *)
(* of the conversions stays within the digits of a word, and so within the *)
(* stack.                                                                  *)
Returns ==
  (pc \in {"kprintf", "printk"} /\ \A i \in 1..Len(fmt.items) : ~LeastInt(fmt.items[i]))
    ~> pc = "main"
=============================================================================
