-------------------------------- MODULE Entry --------------------------------
(***************************************************************************)
(* How the processor enters and leaves the kernel: the descriptor tables   *)
(* that segmentation.c and interrupts.c build, the entry stubs of          *)
(* isr_handler.S with every word they push and pop, and irq_handler, which *)
(* reads those words through struct regs.                                  *)
(*                                                                         *)
(* Addresses have the digits of the code with 256 replaced by BYTE and 16  *)
(* by NIBBLE: a word has four bytes, a limit two bytes and a nibble.  The  *)
(* stack is a sequence with its top at the end, and the stack pointer its  *)
(* length, in words.  Hardware interrupts only come while main_new runs;   *)
(* an exception may strike a handler as well.  User mode is never entered, *)
(* so nothing is pushed for it, and vector 17 (alignment check), which     *)
(* only user mode can raise, does not occur.                               *)
(***************************************************************************)
EXTENDS Integers, Sequences, SequencesExt

CONSTANTS
  BYTE, NIBBLE,    \* values of a byte and of half a byte (256 and 16)
  SIZEOF_TSS,      \* sizeof(tss_entry_t)
  TssBases,        \* where the linker may put g_tss
  Exceptions,      \* exceptions that occur
  Irqs,            \* hardware interrupts that occur
  MaxDepth         \* bound: frames on the stack

HALF == BYTE * BYTE
WORD == BYTE * BYTE * BYTE * BYTE
LIMITS == BYTE * BYTE * NIBBLE

ASSUME EntryAssumption ==
  /\ BYTE \in Nat \ {0} /\ NIBBLE \in Nat \ {0} /\ WORD % LIMITS = 0
  /\ HALF > 8                                        \* the code selector fits
  /\ SIZEOF_TSS \in 1..(LIMITS - 1)
  /\ TssBases \subseteq Nat
  /\ \A b \in TssBases : /\ b + SIZEOF_TSS < WORD    \* g_tss does not end within
                         /\ (b % LIMITS) + SIZEOF_TSS < LIMITS   \* its size of 1 MB
  /\ Exceptions \subseteq ((0..14) \cup (16..20)) \ {17}
  /\ Irqs \subseteq {32, 33, 36}
  /\ MaxDepth \in Nat

VARIABLES
  pc,        \* what runs: boot, main_new, a stub, irq_handler, or nothing
  tss,       \* address of g_tss
  g_tss,     \* the fields of g_tss that set_tss_entry sets
  gdt,       \* g_gdt
  tr,        \* task register
  gates,     \* g_idt, vector -> selector of its present gates
  ctx,       \* the registers
  stack,     \* the kernel stack
  seen       \* history: what each frame on the stack interrupted

vars == <<pc, tss, g_tss, gdt, tr, gates, ctx, stack, seen>>

Pushal == <<"eax", "ecx", "edx", "ebx", "esp", "ebp", "esi", "edi">>
Segments == <<"ds", "es", "fs", "gs", "ss">>
Reg == (ToSet(Pushal) \ {"esp"}) \cup ToSet(Segments) \cup {"cs", "eip", "eflags"}

-----------------------------------------------------------------------------
(* Segmentation *)

(* Mutant: the middle byte of the base is not shifted.                     *)
EntryBaseMidUnshifted(base, limit, access, gran) ==
  [limit_low |-> limit % (BYTE * BYTE), base_low |-> base % (BYTE * BYTE),
   base_mid |-> base % BYTE, access |-> access,
   limit_high |-> (limit \div (BYTE * BYTE)) % NIBBLE, g |-> gran,
   base_high |-> (base \div (BYTE * BYTE * BYTE)) % BYTE]

(* Mutant: the base is not cut to the width of its middle field.           *)
EntryBaseMidUncut(base, limit, access, gran) ==
  [EntryBaseMidUnshifted(base, limit, access, gran) EXCEPT
     !.base_mid = base \div (BYTE * BYTE)]

(* A segment descriptor, base and limit cut into the fields of gdt_entry.  *)
set_gdt_entry(base, limit, access, gran) ==
  [limit_low |-> limit % (BYTE * BYTE), base_low |-> base % (BYTE * BYTE),
   base_mid |-> (base \div (BYTE * BYTE)) % BYTE, access |-> access,
   limit_high |-> (limit \div (BYTE * BYTE)) % NIBBLE, g |-> gran,
   base_high |-> (base \div (BYTE * BYTE * BYTE)) % BYTE]

(* What the processor reads in a descriptor.                               *)
Base(e) == e.base_low + BYTE * BYTE * (e.base_mid + BYTE * e.base_high)
Limit(e) ==
  LET field == e.limit_low + BYTE * BYTE * e.limit_high
      unit == WORD \div LIMITS
  IN IF e.g = 1 THEN field * unit + unit - 1 ELSE field

Access(type, ring, present, dtype) ==
  [type |-> type, dpl |-> ring, p |-> present, s |-> dtype]
CODE_ER == 10
DATA_RW == 2
TSS_32 == 9

NullEntry == set_gdt_entry(0, 0, Access(0, 0, 0, 0), 0)

(* The limit of the TSS is the address of its end, not its size.  The      *)
(* stack for kernel mode is the one init_flat_gdt runs on.                 *)
TssEntry == set_gdt_entry(tss, tss + SIZEOF_TSS, Access(TSS_32, 3, 1, 0), 0)
set_tss_entry == g_tss' = [ss0 |-> 16, esp0 |-> Len(stack), cs |-> 11, data |-> 19]

FlatGdt ==
  [n \in 0..5 |->
     CASE n = 0 -> NullEntry
       [] n = 1 -> set_gdt_entry(0, WORD - 1, Access(CODE_ER, 0, 1, 1), 1)
       [] n = 2 -> set_gdt_entry(0, WORD - 1, Access(DATA_RW, 0, 1, 1), 1)
       [] n = 3 -> set_gdt_entry(0, WORD - 1, Access(CODE_ER, 3, 1, 1), 1)
       [] n = 4 -> set_gdt_entry(0, WORD - 1, Access(DATA_RW, 3, 1, 1), 1)
       [] n = 5 -> TssEntry]

(* gdt_flush: every data segment register, then the far jump into .flush.  *)
gdt_flush == [r \in Reg |-> CASE r \in ToSet(Segments) -> 16
                              [] r = "cs" -> 8
                              [] OTHER -> ctx[r]]

-----------------------------------------------------------------------------

(* Registers with values that tell them apart; the loader's segments.      *)
Init ==
  /\ pc = "init_flat_gdt"
  /\ tss \in TssBases
  /\ g_tss = [ss0 |-> 0, esp0 |-> 0, cs |-> 0, data |-> 0]
  /\ gdt = [n \in 0..5 |-> NullEntry]
  /\ tr = 0
  /\ gates = [v \in {} |-> 0]
  /\ ctx = [r \in Reg |-> CASE r = "cs" -> 8
                            [] r \in ToSet(Segments) -> 16
                            [] r = "eip" -> 60
                            [] r = "eflags" -> 35
                            [] OTHER -> 100 + CHOOSE i \in 1..8 : Pushal[i] = r]
  /\ stack = <<>>
  /\ seen = <<>>

init_flat_gdt ==
  /\ pc = "init_flat_gdt"
  /\ gdt' = FlatGdt
  /\ set_tss_entry
  /\ ctx' = gdt_flush
  /\ tr' = 43
  /\ pc' = "interrupts_init"
  /\ UNCHANGED <<tss, gates, stack, seen>>

(* Every gate leads to the kernel's code segment; then interrupts are on.  *)
InterruptGates == (0..14) \cup (16..20) \cup {30, 31, 32, 33, 36}
interrupts_set_isr == [v \in InterruptGates |-> 8]

interrupts_init ==
  /\ pc = "interrupts_init"
  /\ gates' = interrupts_set_isr
  /\ pc' = "main"
  /\ UNCHANGED <<tss, g_tss, gdt, tr, ctx, stack, seen>>

-----------------------------------------------------------------------------
(* Interrupts and exceptions *)

(* The vectors for which the processor pushes an error code, some value.   *)
CpuPushesError(v) == v \in {8, 10, 11, 12, 13, 14, 17}
ERROR_CODE == 50

(* Without a gate there is nothing to run but a reset.                     *)
enter(v) ==
  /\ Len(seen) < MaxDepth
  /\ IF v \in DOMAIN gates
     THEN /\ stack' = stack \o <<ctx["eflags"], ctx["cs"], ctx["eip"]>>
                            \o (IF CpuPushesError(v) THEN <<ERROR_CODE>> ELSE <<>>)
          /\ ctx' = [ctx EXCEPT !["cs"] = gates[v], !["eip"] = v]
          /\ seen' = Append(seen, [ctx |-> ctx, stack |-> stack, int_no |-> v,
                                   err_code |-> IF CpuPushesError(v) THEN ERROR_CODE ELSE 0])
          /\ pc' = "stub"
     ELSE /\ pc' = "reset"
          /\ UNCHANGED <<stack, ctx, seen>>
  /\ UNCHANGED <<tss, g_tss, gdt, tr, gates>>

interrupt(v) == pc = "main" /\ enter(v)
exception(v) == pc \in {"init_flat_gdt", "interrupts_init", "main", "handler"} /\ enter(v)

(* The stubs made with ISR_WITH_ERROR.                                     *)
WithError(v) == v \in {8, 10, 11, 12, 13, 14}

(* isr_handler up to the call, on a stack of n words: the segments, and    *)
(* pushal, which saves the stack pointer it starts from.                   *)
Saved(n) ==
  [i \in 1..5 |-> ctx[Segments[i]]]
    \o [i \in 1..8 |-> IF Pushal[i] = "esp" THEN n + 5 ELSE ctx[Pushal[i]]]

(* Mutant: no word takes the place of the missing error code.              *)
IsrEntryNoDummy ==
  LET v == ctx["eip"]
      code == stack \o <<v>>
      words == code \o Saved(Len(code))
  IN /\ pc = "stub"
     /\ stack' = Append(words, Len(words))
     /\ pc' = "handler"
     /\ UNCHANGED <<tss, g_tss, gdt, tr, gates, ctx, seen>>

(* The stub of the vector, to the call of irq_handler, whose argument is   *)
(* the stack pointer before it was pushed.                                 *)
isr_entry ==
  LET v == ctx["eip"]
      code == stack \o (IF WithError(v) THEN <<v>> ELSE <<0, v>>)
      words == code \o Saved(Len(code))
  IN /\ pc = "stub"
     /\ stack' = Append(words, Len(words))
     /\ pc' = "handler"
     /\ UNCHANGED <<tss, g_tss, gdt, tr, gates, ctx, seen>>

(* struct regs lies over the stack from the argument of irq_handler down.  *)
(* It is packed and cs has half a word in it, the upper half of the word   *)
(* that the processor pushed being left to the field behind: from eflags   *)
(* on each field takes half of one word and half of the next, the last two *)
(* out of the stack of the interrupted code.                               *)
RegsStruct == <<"edi", "esi", "ebp", "esp", "ebx", "edx", "ecx", "eax",
                "ss", "gs", "fs", "es", "ds", "int_no", "err_code", "eip",
                "cs", "eflags", "useresp", "_ss">>
Offset(i) == IF i <= 17 THEN 2 * (i - 1) ELSE 2 * (i - 1) - 1
regs(k) ==
  LET word == stack[Last(stack) - (k \div 2)]
  IN IF k % 2 = 0 THEN word % HALF ELSE word \div HALF
RegsField(f) ==
  LET o == Offset(CHOOSE i \in 1..Len(RegsStruct) : RegsStruct[i] = f)
  IN IF f = "cs" THEN regs(o) ELSE regs(o) + HALF * regs(o + 1)

(* Mutant: an exception is handled and returned from.                      *)
HandlerReturnsAlways ==
  /\ pc = "handler"
  /\ pc' = "exit"
  /\ ctx' = [ctx EXCEPT !["eax"] = 0, !["ecx"] = 0, !["edx"] = 0]
  /\ UNCHANGED <<tss, g_tss, gdt, tr, gates, stack, seen>>

(* irq_handler returns from 32 on and leaves its scratch registers         *)
(* changed; below it stops the kernel, page_fault_handler included.        *)
irq_handler ==
  /\ pc = "handler"
  /\ pc' = IF RegsField("int_no") < 32 THEN "stop" ELSE "exit"
  /\ ctx' = [ctx EXCEPT !["eax"] = 0, !["ecx"] = 0, !["edx"] = 0]
  /\ UNCHANGED <<tss, g_tss, gdt, tr, gates, stack, seen>>

(* isr_handler behind the call: popl esp takes the argument back, popal    *)
(* skips the saved esp, and what the stub pushed is dropped, one word in a *)
(* stub with an error code, two in the others.  iret takes the rest.       *)
isr_exit ==
  LET p == Last(stack)
      general == [i \in 1..8 |-> stack[p - 8 + i]]
      segs == [i \in 1..5 |-> stack[p - 13 + i]]
      q == p - 13 - (IF WithError(ctx["eip"]) THEN 1 ELSE 2)
  IN /\ pc = "exit"
     /\ ctx' = [r \in Reg |->
                  CASE r = "eip" -> stack[q]
                    [] r = "cs" -> stack[q - 1]
                    [] r = "eflags" -> stack[q - 2]
                    [] r \in ToSet(Segments) -> segs[CHOOSE i \in 1..5 : Segments[i] = r]
                    [] OTHER -> general[CHOOSE i \in 1..8 : Pushal[i] = r]]
     /\ stack' = SubSeq(stack, 1, q - 3)
     /\ seen' = Front(seen)
     /\ pc' = "main"
     /\ UNCHANGED <<tss, g_tss, gdt, tr, gates>>

(* Nothing runs any more: irq_handler's endless loop, or a reset.          *)
halted ==
  /\ pc \in {"stop", "reset"}
  /\ UNCHANGED vars

Next ==
  \/ init_flat_gdt
  \/ interrupts_init
  \/ \E v \in Irqs : interrupt(v)
  \/ \E v \in Exceptions : exception(v)
  \/ isr_entry
  \/ irq_handler
  \/ isr_exit
  \/ halted

Spec == Init /\ [][Next]_vars

-----------------------------------------------------------------------------

(* Type invariant.                                                         *)
TypeOK ==
  /\ pc \in {"init_flat_gdt", "interrupts_init", "main", "stub", "handler", "exit",
             "stop", "reset"}
  /\ tss \in TssBases
  /\ DOMAIN gdt = 0..5
  /\ \A n \in 0..5 : /\ {gdt[n].limit_low, gdt[n].base_low} \subseteq 0..(BYTE * BYTE - 1)
                      /\ {gdt[n].base_mid, gdt[n].base_high} \subseteq 0..(BYTE - 1)
                      /\ gdt[n].limit_high \in 0..(NIBBLE - 1) /\ gdt[n].g \in 0..1
  /\ g_tss.ss0 \in Nat /\ g_tss.esp0 \in Nat
  /\ tr \in {0, 43}
  /\ DOMAIN gates \in {{}, InterruptGates}
  /\ ctx \in [Reg -> Nat]
  /\ stack \in Seq(Nat)
  /\ Len(seen) \in 0..MaxDepth

(* irq_handler and page_fault_handler read the vector, the error code and  *)
(* the registers of what was interrupted, up to cs, where struct regs has  *)
(* them, although the processor pushes an error code for some vectors and  *)
(* the stubs push one word less for those; and esp is ten words above      *)
(* where the interrupted code left it, for every vector.  Not claimed of   *)
(* eflags, useresp and _ss: the half word that cs lacks moves them.        *)
RegsMatch ==
  pc = "handler" =>
    LET top == Last(seen)
    IN /\ RegsField("int_no") = top.int_no
       /\ RegsField("err_code") = top.err_code
       /\ RegsField("esp") = Len(top.stack) + 10
       /\ \A i \in 1..17 : RegsStruct[i] \in Reg => RegsField(RegsStruct[i]) = top.ctx[RegsStruct[i]]

(* Whatever was interrupted goes on as if nothing had happened: a handler  *)
(* that returns leaves every register and the stack as they were.          *)
Resumes ==
  [][Len(seen') < Len(seen) =>
       LET top == Last(seen)
       IN stack' = top.stack /\ ctx' = top.ctx]_vars

(* The descriptor that a selector names.                                   *)
Named(selector) == gdt[selector \div 8]

(* From the first segment register that is loaded on, every selector in    *)
(* use, the gates' included, names a present descriptor of its kind in     *)
(* ring 0 that spans all of memory; no interrupt ends in a second fault.   *)
SelectorsValid ==
  pc # "init_flat_gdt" /\ pc # "reset" =>
    /\ \A r \in ToSet(Segments) \cup {"cs"} :
         LET e == Named(ctx[r])
         IN /\ ctx[r] \in 8..47
            /\ e.access = Access(IF r = "cs" THEN CODE_ER ELSE DATA_RW, 0, 1, 1)
            /\ Base(e) = 0 /\ Limit(e) = WORD - 1
    /\ \A v \in DOMAIN gates : Named(gates[v]).access = Access(CODE_ER, 0, 1, 1)

(* The task register names a TSS descriptor at g_tss that reaches its      *)
(* end, for every address of g_tss, although set_tss_entry stores an       *)
(* address where the size belongs; and the stack segment it holds for      *)
(* kernel mode can be loaded.                                              *)
TssReachable ==
  tr # 0 =>
    LET e == Named(tr)
    IN /\ e.access.type = TSS_32 /\ e.access.p = 1
       /\ Base(e) = tss
       /\ Limit(e) >= SIZEOF_TSS - 1
       /\ Named(g_tss.ss0).access = Access(DATA_RW, 0, 1, 1)

(* Both: every descriptor that the processor is told to use, for segments, *)
(* gates and the task, is the one meant and holds what it should.          *)
DescriptorsValid == SelectorsValid /\ TssReachable
=============================================================================
