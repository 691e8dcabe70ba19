----------------------------- MODULE Interrupts -----------------------------
(***************************************************************************)
(* The kernel's two flows of control: main_new, which sets up the          *)
(* interrupt hardware and then sleeps in a loop, and the interrupt         *)
(* handlers that preempt it (interrupts.c, irq.c, pit.c, time.c, kb.c,     *)
(* uart.c).  The interrupt controllers, the timer, the keyboard and the    *)
(* serial line are external: they raise requests at any time.              *)
(*                                                                         *)
(* The memory set-up that main_new does between interrupts_init and its    *)
(* first sleep is module Paging; it shares no state with the handlers.     *)
(* Characters are abstracted to the fact that one was received or echoed.  *)
(***************************************************************************)
EXTENDS Integers, FiniteSetsExt

CONSTANTS
  Keys,        \* scan codes of the keys; a release has the negative code
  Stray,       \* request lines for which the kernel has no gate
  HZ,          \* ticks per second (100)
  WIDTH,       \* 2^32: the counter of ticks wraps around here
  Durations,   \* arguments of sleep; main_new only uses 1
  MaxElapsed   \* bound: where the history of elapsed periods saturates

ASSUME InterruptsAssumption ==
  /\ Keys \subseteq 1..127          \* the release bit of a code is its 128
  /\ Stray \subseteq (0..15) \ {0, 1, 2, 4}
  /\ HZ \in Nat \ {0}
  /\ WIDTH \in Nat \ {0}
  /\ Durations \subseteq Nat /\ MaxElapsed \in Nat
  /\ \A d \in Durations : d * HZ < MaxElapsed

VARIABLES
  pc,          \* main_new: what it does next
  handlers,    \* g_handlers, interrupt number -> function
  gates,       \* present entries of g_idt
  iflag,       \* the processor accepts interrupts
  int_no,      \* interrupt number that irq_handler runs for, or NONE
  hpc,         \* irq_handler: "none", "call", "after" or "stop"
  base, mask, irr, isr,   \* interrupt controllers: vector base, masked,
                          \* requested and in-service lines
  ticks,       \* pit.c: ticks
  start, duration,        \* locals of sleep
  asked, elapsed,         \* history: seconds asked for, periods since then
  kbuf,        \* keyboard output buffer, scan code or NONE
  send_char,   \* kb_get_key: the last scan code
  down,        \* keys that are held down
  fresh,       \* history: kbuf is the code of a key that was up before
  owed,        \* history: keys pressed and not echoed yet
  early,       \* history: kbuf was filled before irq_init
  uart_addr,   \* uart.c: uart_addr is set
  rx           \* the serial line has received a byte that was not read

main == <<pc, start, duration, asked>>
pic == <<base, mask, irr, isr>>
tables == <<handlers, gates>>
cpu == <<iflag, int_no, hpc>>
kb == <<kbuf, send_char, down, fresh, owed, early>>
uart == <<uart_addr, rx>>
vars == <<main, pic, tables, cpu, ticks, elapsed, kb, uart>>

NONE == -999
Lines == {0, 1, 2, 4} \cup Stray
PIC1 == 0..7
PIC2 == 8..15
PICS_BASE == 32
GENERAL_PROTECTION == 13

-----------------------------------------------------------------------------

(* The loader enters the kernel with interrupts disabled and the masks and *)
(* vector base of the BIOS.                                                *)
Init ==
  /\ pc = "finalize_pagination"
  /\ handlers = [v \in {} |-> ""]
  /\ gates = {}
  /\ iflag = FALSE
  /\ int_no = NONE
  /\ hpc = "none"
  /\ base = 8
  /\ mask \in SUBSET Lines
  /\ irr = {}
  /\ isr = {}
  /\ ticks = 0
  /\ start = 0
  /\ duration = 0
  /\ asked = 0
  /\ elapsed = 0
  /\ kbuf = NONE
  /\ send_char = 0
  /\ down = {}
  /\ fresh = FALSE
  /\ owed = 0
  /\ early = FALSE
  /\ uart_addr = FALSE
  /\ rx = FALSE

-----------------------------------------------------------------------------
(* main_new *)

register_irq_handler(v, h) ==
  handlers' = [w \in DOMAIN handlers \cup {v} |-> IF w = v THEN h ELSE handlers[w]]

irq_unmask(line) == mask' = IF line >= 16 THEN mask ELSE mask \ {line}

Step(from, to) == hpc = "none" /\ pc = from /\ pc' = to

finalize_pagination ==
  /\ Step("finalize_pagination", "irq_init")
  /\ register_irq_handler(14, "page_fault_handler")
  /\ UNCHANGED <<start, duration, asked, pic, gates, cpu, ticks, elapsed, kb, uart>>

(* The initialisation words reset both controllers, pending requests       *)
(* included; the masks are saved and restored.                             *)
irq_init ==
  /\ Step("irq_init", "kb_init")
  /\ base' = PICS_BASE
  /\ irr' = {}
  /\ isr' = {}
  /\ early' = (kbuf # NONE)
  /\ UNCHANGED <<start, duration, asked, mask, tables, cpu, ticks, elapsed,
                 kbuf, send_char, down, fresh, owed, uart>>

(* Mutant: the keyboard's line stays as the BIOS left it.                  *)
KbInitMasked ==
  /\ Step("kb_init", "pit_init")
  /\ register_irq_handler(33, "keyboard_handler")
  /\ UNCHANGED <<start, duration, asked, pic, gates, cpu, ticks, elapsed, kb, uart>>

kb_init ==
  /\ Step("kb_init", "pit_init")
  /\ irq_unmask(1)
  /\ register_irq_handler(33, "keyboard_handler")
  /\ UNCHANGED <<start, duration, asked, base, irr, isr, gates, cpu, ticks,
                 elapsed, kb, uart>>

pit_init ==
  /\ Step("pit_init", "uart_init")
  /\ irq_unmask(0)
  /\ register_irq_handler(32, "pit_handler")
  /\ UNCHANGED <<start, duration, asked, base, irr, isr, gates, cpu, ticks, elapsed, kb, uart>>

(* Enabling the receive interrupt raises a request for a byte that is      *)
(* already there.                                                          *)
uart_init ==
  /\ Step("uart_init", "interrupts_init")
  /\ uart_addr' = TRUE
  /\ irr' = IF rx THEN irr \cup {4} ELSE irr
  /\ irq_unmask(4)
  /\ register_irq_handler(36, "uart_handler")
  /\ UNCHANGED <<start, duration, asked, base, isr, gates, cpu, ticks, elapsed, kb, rx>>

(* Mutant: the gate of the serial line is forgotten.                       *)
GatesWithoutUart == (0..14) \cup (16..20) \cup {30, 31, 32, 33}

(* The vectors that interrupts_init has an entry for.                      *)
InterruptGates == (0..14) \cup (16..20) \cup {30, 31, 32, 33, 36}

interrupts_init ==
  /\ Step("interrupts_init", "run")
  /\ gates' = InterruptGates
  /\ iflag' = TRUE
  /\ UNCHANGED <<start, duration, asked, pic, handlers, int_no, hpc, ticks, elapsed, kb, uart>>

(* sleep(d): remember the ticks, then poll them.                           *)
sleep(d) ==
  /\ Step("run", "sleep")
  /\ start' = ticks
  /\ duration' = (d * HZ) % WIDTH
  /\ asked' = d
  /\ elapsed' = 0
  /\ UNCHANGED <<pic, tables, cpu, ticks, kb, uart>>

(* Mutant: >= for >.                                                       *)
SleepReturnEarly ==
  /\ Step("sleep", "run")
  /\ (ticks - start) % WIDTH >= duration
  /\ UNCHANGED <<start, duration, asked, pic, tables, cpu, ticks, elapsed, kb, uart>>

(* Mutant: compares with the tick at which to wake up.                     *)
SleepReturnDeadline ==
  /\ Step("sleep", "run")
  /\ ticks > start + duration
  /\ UNCHANGED <<start, duration, asked, pic, tables, cpu, ticks, elapsed, kb, uart>>

sleep_return ==
  /\ Step("sleep", "run")
  /\ (ticks - start) % WIDTH > duration
  /\ UNCHANGED <<start, duration, asked, pic, tables, cpu, ticks, elapsed, kb, uart>>

Boot ==
  \/ finalize_pagination
  \/ irq_init
  \/ kb_init
  \/ pit_init
  \/ uart_init
  \/ interrupts_init

-----------------------------------------------------------------------------
(* Interrupts *)

(* The slave controller hangs on line 2 of the master.                     *)
Level(line) == IF line \in PIC2 THEN 2 ELSE line
Requested == {l \in irr \ mask : l \in PIC2 => 2 \notin mask}

(* The processor takes the most urgent request.  Gates are interrupt       *)
(* gates: they disable interrupts.  A vector without a gate is a general   *)
(* protection fault instead.                                               *)
deliver(line) ==
  /\ iflag
  /\ line \in Requested
  /\ \A l \in Requested : Level(line) <= Level(l)
  /\ \A l \in isr : Level(line) < Level(l)
  /\ irr' = irr \ {line}
  /\ isr' = isr \cup {line, Level(line)}
  /\ iflag' = FALSE
  /\ int_no' = IF base + line \in gates THEN base + line ELSE GENERAL_PROTECTION
  /\ hpc' = "call"
  /\ UNCHANGED <<main, base, mask, tables, ticks, elapsed, kb, uart>>

Running(h) ==
  /\ hpc = "call"
  /\ int_no \in DOMAIN handlers
  /\ handlers[int_no] = h
  /\ hpc' = "after"
  /\ UNCHANGED <<main, pic, tables, iflag, int_no, elapsed>>

(* Mutant: the counter does not wrap around.                               *)
PitHandlerUnbounded ==
  /\ Running("pit_handler")
  /\ ticks' = ticks + 1
  /\ UNCHANGED <<kb, uart>>

pit_handler ==
  /\ Running("pit_handler")
  /\ ticks' = (ticks + 1) % WIDTH
  /\ UNCHANGED <<kb, uart>>

(* Mutant: the comparison ignores the release bit.                         *)
EchoesIgnoringRelease(c) == c \notin {send_char, -send_char} /\ c > 0

(* kb_get_key: a code equal to the last one is dropped, so are releases.   *)
EchoesKey(c) == c # send_char /\ c > 0

keyboard_handler ==
  /\ Running("keyboard_handler")
  /\ send_char' = IF kbuf = NONE THEN send_char ELSE kbuf
  /\ owed' = IF fresh /\ EchoesKey(kbuf) THEN owed - 1 ELSE owed
  /\ kbuf' = NONE
  /\ fresh' = FALSE
  /\ UNCHANGED <<down, early, ticks, uart>>

(* Mutant: the byte is not read.                                           *)
UartHandlerNoRead ==
  /\ Running("uart_handler")
  /\ UNCHANGED <<uart, ticks, kb>>

(* uart_recv reads the byte when the line says there is one.               *)
uart_handler ==
  /\ Running("uart_handler")
  /\ rx' = FALSE
  /\ UNCHANGED <<uart_addr, ticks, kb>>

no_handler ==
  /\ hpc = "call"
  /\ int_no \notin DOMAIN handlers
  /\ hpc' = "after"
  /\ UNCHANGED <<main, pic, tables, iflag, int_no, elapsed, ticks, kb, uart>>

(* A non-specific end of interrupt clears the most urgent line in service. *)
Eoi(S, chip) == IF S \cap chip = {} THEN S ELSE S \ {Min(S \cap chip)}

(* Mutant: the slave is told instead of the master.                        *)
EoiSlaveOnly(n) == isr' = IF n >= 8 THEN Eoi(isr, PIC2) ELSE Eoi(isr, PIC1)

(* irq_send_eoi gets the interrupt number, which is never below 8, so both *)
(* controllers are told.                                                   *)
irq_send_eoi(n) == isr' = Eoi(IF n >= 8 THEN Eoi(isr, PIC2) ELSE isr, PIC1)

irq_handler_return ==
  /\ hpc = "after"
  /\ int_no \in 32..47
  /\ irq_send_eoi(int_no)
  /\ hpc' = "none"
  /\ int_no' = NONE
  /\ iflag' = TRUE
  /\ UNCHANGED <<main, base, mask, irr, tables, ticks, elapsed, kb, uart>>

irq_handler_stop ==
  /\ hpc = "after"
  /\ int_no < 32
  /\ hpc' = "stop"
  /\ UNCHANGED <<main, pic, tables, iflag, int_no, ticks, elapsed, kb, uart>>

stopped ==
  /\ hpc = "stop"
  /\ UNCHANGED vars

Handler ==
  \/ pit_handler
  \/ keyboard_handler
  \/ uart_handler
  \/ no_handler
  \/ irq_handler_return
  \/ irq_handler_stop

-----------------------------------------------------------------------------
(* Devices: a request is latched when a line goes up.                      *)

pit_period ==
  /\ irr' = irr \cup {0}
  /\ elapsed' = IF elapsed < MaxElapsed THEN elapsed + 1 ELSE elapsed
  /\ UNCHANGED <<main, base, mask, isr, tables, cpu, ticks, kb, uart>>

(* The keyboard gives its next code when the last one was read; a key that *)
(* is held down repeats its code.                                          *)
key_code(c) ==
  /\ kbuf = NONE
  /\ kbuf' = c
  /\ irr' = irr \cup {1}
  /\ UNCHANGED <<main, base, mask, isr, tables, cpu, ticks, elapsed,
                 send_char, early, uart>>

key_press(k) ==
  /\ key_code(k)
  /\ down' = down \cup {k}
  /\ fresh' = (k \notin down)
  /\ owed' = IF k \notin down THEN owed + 1 ELSE owed

key_release(k) ==
  /\ k \in down
  /\ key_code(-k)
  /\ down' = down \ {k}
  /\ fresh' = FALSE
  /\ UNCHANGED owed

uart_byte ==
  /\ rx' = TRUE
  /\ irr' = IF ~rx /\ uart_addr THEN irr \cup {4} ELSE irr
  /\ UNCHANGED <<main, base, mask, isr, tables, cpu, ticks, elapsed, kb, uart_addr>>

stray_request(line) ==
  /\ irr' = irr \cup {line}
  /\ UNCHANGED <<main, base, mask, isr, tables, cpu, ticks, elapsed, kb, uart>>

Device ==
  \/ pit_period
  \/ \E k \in Keys : key_press(k) \/ key_release(k)
  \/ uart_byte
  \/ \E line \in Stray : stray_request(line)

Next ==
  \/ Boot
  \/ \E d \in Durations : sleep(d)
  \/ sleep_return
  \/ \E line \in Lines : deliver(line)
  \/ Handler
  \/ stopped
  \/ Device

Spec == Init /\ [][Next]_vars

(* Handlers run to their end; the timer keeps running; a request that is   *)
(* deliverable time and again is delivered, and main_new, which runs       *)
(* between two interrupts time and again, polls there: strong fairness.    *)
FairSpec ==
  /\ Spec
  /\ WF_vars(Boot)
  /\ WF_vars(Handler)
  /\ WF_vars(pit_period)
  /\ SF_vars(sleep_return)
  /\ \A line \in {0, 1, 4} : SF_vars(deliver(line))

-----------------------------------------------------------------------------

(* Type invariant.                                                         *)
TypeOK ==
  /\ pc \in {"finalize_pagination", "irq_init", "kb_init", "pit_init", "uart_init",
             "interrupts_init", "run", "sleep"}
  /\ DOMAIN handlers \subseteq 0..255
  /\ gates \subseteq 0..255
  /\ iflag \in BOOLEAN
  /\ int_no \in (0..255) \cup {NONE}
  /\ hpc \in {"none", "call", "after", "stop"}
  /\ mask \subseteq Lines /\ irr \subseteq Lines /\ isr \subseteq Lines
  /\ ticks \in 0..(WIDTH - 1) /\ start \in 0..(WIDTH - 1) /\ duration \in 0..(WIDTH - 1)
  /\ elapsed \in 0..MaxElapsed
  /\ kbuf \in Keys \cup {-k : k \in Keys} \cup {NONE}
  /\ send_char \in Keys \cup {-k : k \in Keys} \cup {0}
  /\ down \subseteq Keys
  /\ fresh \in BOOLEAN /\ early \in BOOLEAN /\ uart_addr \in BOOLEAN /\ rx \in BOOLEAN

(* The end of interrupt always ends the interrupt that was handled:        *)
(* handlers do not nest, so the line of the running handler is the only    *)
(* one in service, and none is while main_new runs, although irq_send_eoi  *)
(* also tells the slave controller.                                        *)
EoiMatches ==
  /\ hpc = "none" => isr = {}
  /\ hpc \in {"call", "after"} /\ int_no # GENERAL_PROTECTION => isr = {int_no - base}

(* The kernel only stops for a line that the BIOS left unmasked and that   *)
(* has no gate; its own devices are never delivered before their gates     *)
(* and handlers exist.                                                     *)
StopsOnlyForStray ==
  hpc = "stop" => (isr \cap Stray # {}) /\ (isr \cap Stray) \cap mask = {}

(* A code or a byte that waits to be read has its request pending or its   *)
(* handler about to run, unless irq_init discarded the request.  Only a    *)
(* byte that arrives before uart_init enables the interrupt waits for it.  *)
NoLostInterrupt ==
  /\ kbuf # NONE => 1 \in irr \/ early \/ (hpc = "call" /\ int_no = 33)
  /\ rx /\ uart_addr => 4 \in irr \/ (hpc = "call" /\ int_no = 36)

(* Every key that goes down is echoed once it is read: kb_get_key drops    *)
(* repeated codes, and never the code of a key that was up.                *)
KeysEchoed == kbuf = NONE => owed = 0

(* sleep(d) does not return before d seconds, HZ timer periods each, have  *)
(* passed, even when the counter of ticks wraps around meanwhile.          *)
SleepLongEnough ==
  [][pc = "sleep" /\ pc' = "run" => elapsed >= asked * HZ]_vars

(* sleep returns, unless the kernel was stopped.                           *)
SleepReturns == (pc = "sleep") ~> (pc = "run" \/ hpc = "stop")

(* The timer's period of 10 ms is far longer than a handler: time and      *)
(* again there is a moment between two interrupts with no tick pending.    *)
TimerIsSlow == []<>(hpc = "none" /\ 0 \notin irr)

(* With such a timer, which is more urgent than the keyboard, every scan   *)
(* code is read, unless irq_init discarded its request.                    *)
KeyRead == TimerIsSlow => ((kbuf # NONE) ~> (kbuf = NONE \/ early))
=============================================================================
