-------------------------- MODULE InterruptsProofs --------------------------
(***************************************************************************)
(* Proofs about Interrupts: what holds of boot, delivery, acknowledgement, *)
(* the keyboard and sleep for every set of keys and stray lines, every     *)
(* tick rate and every width of the tick counter.                          *)
(***************************************************************************)
EXTENDS Interrupts, TLAPS

Booting == {"finalize_pagination", "irq_init", "kb_init", "pit_init", "uart_init",
            "interrupts_init"}

(* What boot has done when main_new stands at pc; interrupts come last.    *)
BootInv ==
  /\ pc \in Booting => hpc = "none" /\ iflag = FALSE /\ gates = {}
  /\ pc \in {"finalize_pagination", "irq_init", "kb_init", "pit_init", "uart_init"}
       => uart_addr = FALSE
  /\ DOMAIN handlers \subseteq {14, 32, 33, 36}
  /\ pc \in {"pit_init", "uart_init", "interrupts_init", "run", "sleep"}
       => 33 \in DOMAIN handlers /\ handlers[33] = "keyboard_handler"
  /\ pc \in {"uart_init", "interrupts_init", "run", "sleep"}
       => 32 \in DOMAIN handlers /\ handlers[32] = "pit_handler"
  /\ pc \in {"interrupts_init", "run", "sleep"}
       => 36 \in DOMAIN handlers /\ handlers[36] = "uart_handler"
  /\ pc \notin {"finalize_pagination", "irq_init"} => base = PICS_BASE
  /\ pc \in {"run", "sleep"} => gates = InterruptGates

(* What is in service while a handler runs: the line it was called for, or *)
(* an unmasked line that ended in a general protection fault.              *)
ServiceInv ==
  /\ irr \subseteq {0, 1, 4} \cup Stray
  /\ hpc = "none" => isr = {} /\ int_no = NONE
  /\ hpc # "none" => iflag = FALSE
  /\ hpc # "none" =>
       \/ int_no \in {32, 33, 36} /\ isr = {int_no - 32} /\ hpc # "stop"
       \/ /\ int_no = GENERAL_PROTECTION
          /\ isr \cap Stray # {}
          /\ (isr \cap Stray) \cap mask = {}

(* A code of a key that was up is new to kb_get_key, and is owed an echo   *)
(* until it is read; a key whose code was read last is still down.         *)
KeyInv ==
  /\ owed = IF fresh THEN 1 ELSE 0
  /\ kbuf = NONE => fresh = FALSE
  /\ kbuf = NONE /\ send_char \in Keys => send_char \in down
  /\ kbuf \in Keys => kbuf \in down
  /\ fresh => kbuf \in Keys /\ kbuf # send_char

IInv == TypeOK /\ BootInv /\ ServiceInv /\ NoLostInterrupt /\ KeyInv

-----------------------------------------------------------------------------

(* The assumptions that need no multiplication.                            *)
LEMMA Constants ==
  /\ Keys \subseteq 1..127
  /\ Stray \subseteq (0..15) \ {0, 1, 2, 4}
  /\ WIDTH \in Nat \ {0}
  /\ MaxElapsed \in Nat
BY InterruptsAssumption

(* NONE is the code of no key.                                             *)
LEMMA CodesAreNotNone ==
  \A k \in Keys : k \in Int /\ k > 0 /\ k # NONE /\ -k # NONE /\ -k \notin Keys
BY Constants DEF NONE

(* The end of interrupt with one line of the master in service.            *)
LEMMA EoiOfOne ==
  ASSUME NEW l \in {0, 1, 4}
  PROVE  Eoi(Eoi({l}, PIC2), PIC1) = {}
<1>0. l \notin 8..15 /\ l \in 0..7
  OBVIOUS
<1>1. {l} \cap PIC2 = {} /\ {l} \cap PIC1 = {l}
  BY <1>0, Zenon DEF PIC1, PIC2
<1>2. Min({l}) = l
  BY DEF Min
<1> QED BY <1>1, <1>2 DEF Eoi

LEMMA InitInv == Init => IInv
<1> SUFFICES ASSUME Init PROVE IInv
  OBVIOUS
<1>1. TypeOK
  <2>1. 0 \in 0..(WIDTH - 1) /\ 0 \in 0..MaxElapsed
    BY Constants
  <2> QED BY <2>1 DEF Init, TypeOK, Lines
<1>2. BootInv
  BY DEF Init, BootInv, Booting
<1>3. ServiceInv /\ NoLostInterrupt
  BY DEF Init, ServiceInv, NoLostInterrupt
<1>4. KeyInv
  BY CodesAreNotNone DEF Init, KeyInv
<1> QED BY <1>1, <1>2, <1>3, <1>4 DEF IInv

-----------------------------------------------------------------------------

(* Which steps touch the keyboard, the tables, main_new's place, and so on *)
(* (the frame conditions of Next).                                         *)
LEMMA KeyFrame ==
  [Next]_vars =>
    \/ UNCHANGED <<kbuf, send_char, down, fresh, owed>>
    \/ keyboard_handler
    \/ \E k \in Keys : key_press(k) \/ key_release(k)
BY DEF Next, Boot, Handler, Device, vars, kb, finalize_pagination, irq_init, kb_init,
       pit_init, uart_init, interrupts_init, sleep, sleep_return, deliver,
       pit_handler, uart_handler, no_handler, irq_handler_return, irq_handler_stop,
       stopped, pit_period, uart_byte, stray_request

LEMMA TablesFrame ==
  [Next]_vars =>
    \/ UNCHANGED <<handlers, gates, base, uart_addr, mask>> /\ (pc' = pc \/ {pc, pc'} \subseteq {"run", "sleep"})
    \/ Boot
BY DEF Next, Handler, Running, Device, vars, main, tables, pic, uart, sleep, sleep_return, Step, deliver,
       pit_handler, keyboard_handler, uart_handler, no_handler, irq_handler_return, irq_handler_stop,
       stopped, pit_period, key_press, key_release, key_code, uart_byte, stray_request

LEMMA CpuFrame ==
  [Next]_vars =>
    \/ UNCHANGED <<iflag, int_no, hpc, isr, mask>>
    \/ Boot
    \/ \E line \in Lines : deliver(line)
    \/ UNCHANGED <<iflag, int_no, isr, mask>> /\ hpc = "call" /\ hpc' = "after"
    \/ irq_handler_return
    \/ irq_handler_stop
BY DEF Next, Handler, Running, Device, vars, pic, cpu, sleep, sleep_return,
       pit_handler, keyboard_handler, uart_handler, no_handler,
       stopped, pit_period, key_press, key_release, key_code, uart_byte, stray_request

LEMMA ClockFrame ==
  [Next]_vars =>
    \/ UNCHANGED <<ticks, start, duration, asked, elapsed>>
    \/ \E d \in Durations : sleep(d)
    \/ pit_handler
    \/ pit_period
BY DEF Next, Boot, Handler, Running, Device, vars, main, finalize_pagination, irq_init,
       kb_init, pit_init, uart_init, interrupts_init, sleep_return, deliver,
       keyboard_handler, uart_handler, no_handler, irq_handler_return,
       irq_handler_stop, stopped, key_press, key_release, key_code, uart_byte,
       stray_request

LEMMA FlagsFrame ==
  [Next]_vars =>
    \/ UNCHANGED <<early, uart_addr, rx>>
    \/ irq_init
    \/ uart_init
    \/ uart_handler
    \/ uart_byte
BY DEF Next, Boot, Handler, Running, Device, vars, kb, uart, finalize_pagination,
       kb_init, pit_init, interrupts_init, sleep, sleep_return, deliver, pit_handler,
       keyboard_handler, no_handler, irq_handler_return, irq_handler_stop, stopped,
       pit_period, key_press, key_release, key_code, stray_request

-----------------------------------------------------------------------------

LEMMA KeyStep == TypeOK /\ KeyInv /\ [Next]_vars => KeyInv'
<1> SUFFICES ASSUME TypeOK, KeyInv, [Next]_vars PROVE KeyInv'
  OBVIOUS
<1> USE CodesAreNotNone
<1>1. CASE UNCHANGED <<kbuf, send_char, down, fresh, owed>>
  BY <1>1 DEF KeyInv
<1>2. CASE keyboard_handler
  <2>1. fresh => EchoesKey(kbuf)
    BY DEF KeyInv, EchoesKey
  <2> QED BY <1>2, <2>1 DEF keyboard_handler, KeyInv, TypeOK
<1>3. ASSUME NEW k \in Keys, key_press(k) PROVE KeyInv'
  <2>1. owed = 0 /\ kbuf' = k /\ UNCHANGED send_char /\ k \in down'
    BY <1>3 DEF key_press, key_code, KeyInv
  <2>2. CASE k \in down
    <3>1. fresh' = FALSE /\ owed' = 0
      BY <1>3, <2>1, <2>2 DEF key_press
    <3> QED BY <2>1, <3>1 DEF KeyInv
  <2>3. CASE k \notin down
    <3>1. fresh' = TRUE
      BY <1>3, <2>3, Zenon DEF key_press
    <3>3. owed' = 1
      BY <1>3, <2>1, <2>3 DEF key_press
    <3>2. k # send_char
      BY <1>3, <2>3 DEF key_press, key_code, KeyInv
    <3> QED BY <2>1, <3>1, <3>2, <3>3 DEF KeyInv
  <2> QED BY <2>2, <2>3
<1>4. ASSUME NEW k \in Keys, key_release(k) PROVE KeyInv'
  BY <1>4 DEF key_release, key_code, KeyInv, TypeOK
<1> QED BY <1>1, <1>2, <1>3, <1>4, KeyFrame

LEMMA BootStep == BootInv /\ ServiceInv /\ [Next]_vars => BootInv'
<1> SUFFICES ASSUME BootInv, ServiceInv, [Next]_vars PROVE BootInv'
  OBVIOUS
<1> USE DEF BootInv, Booting
<1>1. CASE Boot
  <2> USE DEF Step, register_irq_handler, cpu, tables, pic, uart
  <2>1. CASE finalize_pagination
    BY <2>1 DEF finalize_pagination
  <2>2. CASE irq_init
    BY <2>2 DEF irq_init
  <2>3. CASE kb_init
    BY <2>3 DEF kb_init
  <2>4. CASE pit_init
    BY <2>4 DEF pit_init
  <2>5. CASE uart_init
    BY <2>5 DEF uart_init
  <2>6. CASE interrupts_init
    BY <2>6 DEF interrupts_init
  <2> QED BY <1>1, <2>1, <2>2, <2>3, <2>4, <2>5, <2>6 DEF Boot
<1>2. CASE UNCHANGED <<handlers, gates, base, uart_addr, mask>> /\ (pc' = pc \/ {pc, pc'} \subseteq {"run", "sleep"})
  <2>1. pc' \in Booting => hpc' = "none" /\ iflag' = FALSE
    <3>1. ASSUME pc' \in Booting PROVE pc' = pc /\ hpc = "none" /\ iflag = FALSE
      BY <1>2, <3>1
    <3>2. ~Boot
      BY <1>2 DEF Boot, Step, finalize_pagination, irq_init, kb_init, pit_init, uart_init,
           interrupts_init
    <3> QED BY <3>1, <3>2, CpuFrame DEF deliver, irq_handler_return, irq_handler_stop
  <2> QED BY <1>2, <2>1
<1> QED BY <1>1, <1>2, TablesFrame

(* The line of a device that the kernel has set up gets its vector; a      *)
(* stray line has none.                                                    *)
LEMMA Vectors ==
  ASSUME TypeOK, BootInv, ServiceInv, NEW line \in Lines, deliver(line)
  PROVE  /\ pc \in {"run", "sleep"} /\ hpc = "none" /\ isr = {} /\ line \notin mask
         /\ \/ /\ line \in {0, 1, 4}
               /\ int_no' = 32 + line
               /\ isr' = {line}
            \/ /\ line \in Stray
               /\ int_no' = GENERAL_PROTECTION
               /\ isr' = {line, Level(line)}
<1>1. iflag /\ line \in irr /\ line \notin mask
  BY DEF deliver, Requested
<1>2. pc \in {"run", "sleep"} /\ hpc = "none" /\ isr = {}
  BY <1>1 DEF BootInv, ServiceInv, TypeOK, Booting
<1>3. base = 32 /\ gates = InterruptGates /\ isr' = {line, Level(line)}
  BY <1>2 DEF BootInv, PICS_BASE, deliver
<1>4. CASE line \in {0, 1, 4}
  <2>1. 32 + line \in InterruptGates /\ Level(line) = line
    BY <1>4 DEF InterruptGates, Level, PIC2
  <2> QED BY <1>1, <1>2, <1>3, <1>4, <2>1 DEF deliver
<1>5. CASE line \in Stray
  <2>1. 32 + line \notin InterruptGates
    BY <1>5, Constants DEF InterruptGates
  <2> QED BY <1>1, <1>2, <1>3, <1>5, <2>1 DEF deliver
<1> QED BY <1>1, <1>4, <1>5 DEF ServiceInv

LEMMA ServiceStep == TypeOK /\ BootInv /\ ServiceInv /\ [Next]_vars => ServiceInv'
<1> SUFFICES ASSUME TypeOK, BootInv, ServiceInv, [Next]_vars PROVE ServiceInv'
  OBVIOUS
<1>1. irr' \subseteq {0, 1, 4} \cup Stray
  BY DEF ServiceInv, Next, Boot, Handler, Running, Device, vars, pic,
       finalize_pagination, irq_init, kb_init, pit_init, uart_init, interrupts_init,
       sleep, sleep_return, deliver,
       pit_handler, keyboard_handler, uart_handler, no_handler, irq_handler_return,
       irq_handler_stop, stopped, pit_period, key_press, key_release, key_code,
       uart_byte, stray_request
<1>2. CASE Boot
  <2>1. UNCHANGED <<int_no, hpc>> /\ hpc = "none" /\ (isr' = isr \/ isr' = {})
    BY <1>2 DEF Boot, Step, cpu, pic, finalize_pagination, irq_init, kb_init, pit_init,
         uart_init, interrupts_init
  <2> QED BY <1>1, <2>1 DEF ServiceInv
<1>3. ASSUME NEW line \in Lines, deliver(line) PROVE ServiceInv'
  <2>1. hpc' = "call" /\ iflag' = FALSE /\ mask' = mask
    BY <1>3 DEF deliver
  <2>2. CASE line \in {0, 1, 4} /\ int_no' = 32 + line /\ isr' = {line}
    BY <1>1, <2>1, <2>2 DEF ServiceInv
  <2>3. CASE /\ line \in Stray /\ int_no' = GENERAL_PROTECTION
             /\ isr' = {line, Level(line)} /\ line \notin mask
    <3>1. isr' \cap Stray = {line}
      BY <2>3, Constants DEF Level
    <3> QED BY <1>1, <2>1, <2>3, <3>1 DEF ServiceInv
  <2> QED BY <1>3, <2>2, <2>3, Vectors
<1>4. CASE irq_handler_return
  <2>1. int_no \in {32, 33, 36} /\ isr = {int_no - 32}
    BY <1>4 DEF irq_handler_return, ServiceInv, GENERAL_PROTECTION
  <2>2. int_no - 32 \in {0, 1, 4} /\ int_no >= 8
    BY <2>1
  <2>3. isr' = {}
    BY <1>4, <2>1, <2>2, EoiOfOne DEF irq_handler_return, irq_send_eoi
  <2> QED BY <1>1, <1>4, <2>3 DEF irq_handler_return, ServiceInv
<1>5. CASE irq_handler_stop
  BY <1>1, <1>5 DEF irq_handler_stop, ServiceInv, pic
<1>6. CASE UNCHANGED <<iflag, int_no, isr, mask>> /\ hpc = "call" /\ hpc' = "after"
  BY <1>1, <1>6 DEF ServiceInv
<1>7. CASE UNCHANGED <<iflag, int_no, hpc, isr, mask>>
  BY <1>1, <1>7 DEF ServiceInv
<1> QED BY <1>2, <1>3, <1>4, <1>5, <1>6, <1>7, CpuFrame

(* While a handler is about to run, it is the one of the line in service.  *)
LEMMA HandlerOf ==
  ASSUME BootInv, ServiceInv, TypeOK, hpc = "call"
  PROVE  /\ int_no = 33 => 33 \in DOMAIN handlers /\ handlers[33] = "keyboard_handler"
         /\ int_no = 36 => 36 \in DOMAIN handlers /\ handlers[36] = "uart_handler"
         /\ int_no = 32 => 32 \in DOMAIN handlers /\ handlers[32] = "pit_handler"
<1>1. pc \in {"run", "sleep"}
  BY DEF BootInv, TypeOK, Booting
<1> QED BY <1>1 DEF BootInv

LEMMA LostStep ==
  TypeOK /\ BootInv /\ ServiceInv /\ NoLostInterrupt /\ [Next]_vars => NoLostInterrupt'
<1> SUFFICES ASSUME TypeOK, BootInv, ServiceInv, NoLostInterrupt, [Next]_vars
             PROVE  NoLostInterrupt'
  OBVIOUS
<1> USE DEF NoLostInterrupt, pic, kb, cpu, uart
<1>1. CASE irq_init
  BY <1>1 DEF irq_init, Step, BootInv
<1>2. CASE uart_init
  BY <1>2 DEF uart_init, Step
<1>3. CASE finalize_pagination \/ kb_init \/ pit_init \/ interrupts_init
  BY <1>3 DEF finalize_pagination, kb_init, pit_init, interrupts_init
<1>4. CASE sleep_return \/ (\E d \in Durations : sleep(d)) \/ stopped \/ UNCHANGED vars
  BY <1>4 DEF sleep_return, sleep, stopped, vars
<1>5. ASSUME NEW line \in Lines, deliver(line) PROVE NoLostInterrupt'
  <2>1. hpc = "none" /\ hpc' = "call" /\ (line \in {1, 4} => int_no' = 32 + line)
    BY <1>5, Vectors, Constants DEF deliver
  <2> QED BY <1>5, <2>1 DEF deliver
<1>6. CASE keyboard_handler
  BY <1>6, HandlerOf DEF keyboard_handler, Running
<1>7. CASE uart_handler
  BY <1>7, HandlerOf DEF uart_handler, Running
<1>8. CASE pit_handler \/ no_handler
  BY <1>8, HandlerOf DEF pit_handler, no_handler, Running
<1>9. CASE irq_handler_return \/ irq_handler_stop
  BY <1>9 DEF irq_handler_return, irq_handler_stop
<1>10. CASE Device
  BY <1>10 DEF Device, pit_period, key_press, key_release, key_code, uart_byte, stray_request
<1> QED BY <1>1, <1>2, <1>3, <1>4, <1>5, <1>6, <1>7, <1>8, <1>9, <1>10
        DEF Next, Boot, Handler

LEMMA TypeStep == TypeOK /\ BootInv /\ ServiceInv /\ [Next]_vars => TypeOK'
<1> SUFFICES ASSUME TypeOK, BootInv, ServiceInv, [Next]_vars PROVE TypeOK'
  OBVIOUS
<1>1. /\ pc' \in {"finalize_pagination", "irq_init", "kb_init", "pit_init", "uart_init",
                  "interrupts_init", "run", "sleep"}
      /\ DOMAIN handlers' \subseteq 0..255 /\ gates' \subseteq 0..255
  <2>1. CASE Boot
    BY <2>1 DEF TypeOK, Boot, Step, register_irq_handler, tables, finalize_pagination,
         irq_init, kb_init, pit_init, uart_init, interrupts_init, InterruptGates
  <2> QED BY <2>1, TablesFrame, ZenonT(40) DEF TypeOK
<1>2. /\ iflag' \in BOOLEAN /\ int_no' \in (0..255) \cup {NONE}
      /\ hpc' \in {"none", "call", "after", "stop"}
      /\ mask' \subseteq Lines /\ isr' \subseteq Lines
  <2>1. CASE Boot
    <3>1. /\ iflag' = iflag \/ iflag' = TRUE
          /\ UNCHANGED <<int_no, hpc>> /\ mask' \subseteq mask /\ (isr' = isr \/ isr' = {})
      BY <2>1 DEF Boot, irq_unmask, cpu, pic, finalize_pagination,
           irq_init, kb_init, pit_init, uart_init, interrupts_init
    <3> QED BY <3>1, Zenon DEF TypeOK
  <2>2. ASSUME NEW line \in Lines, deliver(line)
        PROVE  /\ iflag' = FALSE /\ int_no' \in 0..255 /\ hpc' = "call" /\ mask' = mask
               /\ isr' \subseteq Lines
    <3>1. iflag' = FALSE /\ hpc' = "call" /\ mask' = mask
      BY <2>2 DEF deliver
    <3>2. int_no' \in 0..255 /\ isr' \subseteq Lines
      BY <2>2, Vectors, Constants DEF GENERAL_PROTECTION, Lines, Level
    <3> QED BY <3>1, <3>2
  <2>3. CASE irq_handler_return
    <3>1. iflag' = TRUE /\ hpc' = "none" /\ mask' = mask /\ int_no' = NONE
      BY <2>3 DEF irq_handler_return
    <3>2. isr' = {}
      BY <3>1, ServiceStep DEF ServiceInv
    <3> QED BY <3>1, <3>2 DEF TypeOK
  <2>4. CASE irq_handler_stop
    BY <2>4 DEF irq_handler_stop, TypeOK, pic
  <2>5. CASE UNCHANGED <<iflag, int_no, isr, mask>> /\ (hpc' = hpc \/ hpc' = "after")
    BY <2>5 DEF TypeOK
  <2>6. CASE \E line \in Lines : deliver(line)
    BY <2>2, <2>6 DEF TypeOK
  <2> QED BY <2>1, <2>3, <2>4, <2>5, <2>6, CpuFrame
<1>3. irr' \subseteq Lines
  BY ServiceStep DEF ServiceInv, Lines
<1>4. /\ ticks' \in 0..(WIDTH - 1) /\ start' \in 0..(WIDTH - 1)
      /\ duration' \in 0..(WIDTH - 1) /\ elapsed' \in 0..MaxElapsed
  <2>0. WIDTH \in Nat \ {0} /\ MaxElapsed \in Nat
    BY Constants
  <2>1. ASSUME NEW d \in Durations, sleep(d)
        PROVE  /\ start' = ticks /\ ticks' = ticks /\ elapsed' = 0
               /\ duration' \in 0..(WIDTH - 1)
    <3>1. d * HZ \in Int
      BY InterruptsAssumption
    <3>2. (d * HZ) % WIDTH \in 0..(WIDTH - 1)
      BY <2>0, <3>1
    <3> QED BY <2>1, <3>2 DEF sleep
  <2>2. CASE pit_handler
    BY <2>0, <2>2 DEF pit_handler, Running, main, TypeOK
  <2>3. CASE pit_period
    BY <2>0, <2>3 DEF pit_period, main, TypeOK
  <2> QED BY <2>0, <2>1, <2>2, <2>3, ClockFrame DEF TypeOK
<1>5. /\ kbuf' \in Keys \cup {-k : k \in Keys} \cup {NONE}
      /\ send_char' \in Keys \cup {-k : k \in Keys} \cup {0}
      /\ down' \subseteq Keys /\ fresh' \in BOOLEAN
  <2>1. CASE keyboard_handler
    BY <2>1 DEF keyboard_handler, TypeOK
  <2>2. ASSUME NEW k \in Keys, key_press(k)
        PROVE  /\ kbuf' = k /\ send_char' = send_char /\ down' = down \cup {k}
               /\ fresh' \in BOOLEAN
    BY <2>2 DEF key_press, key_code
  <2>3. ASSUME NEW k \in Keys, key_release(k)
        PROVE  /\ kbuf' = -k /\ send_char' = send_char /\ down' = down \ {k}
               /\ fresh' = FALSE
    BY <2>3 DEF key_release, key_code
  <2>4. CASE \E k \in Keys : key_press(k) \/ key_release(k)
    BY <2>2, <2>3, <2>4, ZenonT(40) DEF TypeOK
  <2>5. CASE UNCHANGED <<kbuf, send_char, down, fresh, owed>>
    BY <2>5 DEF TypeOK
  <2> QED BY <2>1, <2>4, <2>5, KeyFrame
<1>6. early' \in BOOLEAN /\ uart_addr' \in BOOLEAN /\ rx' \in BOOLEAN
  BY FlagsFrame DEF TypeOK, irq_init, uart_init, uart_handler, uart_byte, uart, kb
<1> QED BY <1>1, <1>2, <1>3, <1>4, <1>5, <1>6 DEF TypeOK

(* The inductive invariant, for every instance.                            *)
THEOREM InterruptsInvariant == Spec => []IInv
<1>1. IInv /\ [Next]_vars => IInv'
  BY TypeStep, BootStep, ServiceStep, LostStep, KeyStep DEF IInv
<1> QED BY InitInv, <1>1, PTL DEF Spec

(* Type correctness of every variable.                                     *)
THEOREM InterruptsTypeOK == Spec => []TypeOK
<1>1. IInv => TypeOK
  BY DEF IInv
<1> QED BY InterruptsInvariant, <1>1, PTL

(* The end of interrupt ends the interrupt that was handled.               *)
THEOREM InterruptsEoiMatches == Spec => []EoiMatches
<1>1. IInv => EoiMatches
  <2> SUFFICES ASSUME IInv PROVE EoiMatches
    OBVIOUS
  <2>1. hpc # "none" => base = 32
    BY DEF IInv, BootInv, TypeOK, Booting, PICS_BASE
  <2> QED BY <2>1 DEF IInv, ServiceInv, EoiMatches
<1> QED BY InterruptsInvariant, <1>1, PTL

(* Only an unmasked line without gate stops the kernel.                    *)
THEOREM InterruptsStopsOnlyForStray == Spec => []StopsOnlyForStray
<1>1. IInv => StopsOnlyForStray
  BY DEF IInv, ServiceInv, StopsOnlyForStray
<1> QED BY InterruptsInvariant, <1>1, PTL

(* No code and no byte waits without a request or a handler that reads it. *)
THEOREM InterruptsNoLostInterrupt == Spec => []NoLostInterrupt
<1>1. IInv => NoLostInterrupt
  BY DEF IInv
<1> QED BY InterruptsInvariant, <1>1, PTL

(* Every press of a key that was up is echoed once it is read.             *)
THEOREM InterruptsKeysEchoed == Spec => []KeysEchoed
<1>1. IInv => KeysEchoed
  BY DEF IInv, KeyInv, KeysEchoed
<1> QED BY InterruptsInvariant, <1>1, PTL

-----------------------------------------------------------------------------
(* sleep *)

(* A tick that was requested or is about to be counted.                    *)
PendingTicks ==
  (IF 0 \in irr THEN 1 ELSE 0) + (IF hpc = "call" /\ int_no = 32 THEN 1 ELSE 0)

(* The ticks counted since sleep began, and those still to be counted, are *)
(* at most the periods that have passed and one that was pending before.   *)
SleepInv ==
  pc = "sleep" =>
    /\ asked \in Durations
    /\ duration = (asked * HZ) % WIDTH
    /\ \/ elapsed = MaxElapsed
       \/ ((ticks - start) % WIDTH) + PendingTicks <= elapsed + 1

LEMMA ModSmall ==
  ASSUME NEW W \in Nat \ {0}, NEW x \in Int, -W < x, x < W
  PROVE  x % W = IF x >= 0 THEN x ELSE x + W
OBVIOUS

(* One more tick, modulo the width of the counter.                         *)
LEMMA ModStep ==
  ASSUME NEW W \in Nat \ {0}, NEW t \in 0..(W - 1), NEW s \in 0..(W - 1)
  PROVE  /\ (t - s) % W \in Nat
         /\ (((t + 1) % W) - s) % W \in Nat
         /\ (((t + 1) % W) - s) % W <= ((t - s) % W) + 1
<1>0. /\ t - s \in Int /\ -W < t - s /\ t - s < W
      /\ 0 - s \in Int /\ -W < 0 - s /\ 0 - s < W
  OBVIOUS
<1>1. (t - s) % W = IF t - s >= 0 THEN t - s ELSE t - s + W
  BY ONLY <1>0, ModSmall, W \in Nat \ {0}
<1>2. CASE t + 1 < W
  <2>0. /\ t + 1 \in Int /\ -W < t + 1 /\ t + 1 < W
        /\ t + 1 - s \in Int /\ -W < t + 1 - s /\ t + 1 - s < W
    BY <1>2
  <2>1. (t + 1) % W = IF t + 1 >= 0 THEN t + 1 ELSE t + 1 + W
    BY ONLY <2>0, ModSmall, W \in Nat \ {0}
  <2>2. (t + 1 - s) % W = IF t + 1 - s >= 0 THEN t + 1 - s ELSE t + 1 - s + W
    BY ONLY <2>0, ModSmall, W \in Nat \ {0}
  <2> QED BY <1>1, <1>2, <2>1, <2>2
<1>3. CASE t + 1 = W
  <2>1. (t + 1) % W = 0
    BY <1>3
  <2>2. (0 - s) % W = IF 0 - s >= 0 THEN 0 - s ELSE 0 - s + W
    BY ONLY <1>0, ModSmall, W \in Nat \ {0}
  <2> QED BY <1>1, <1>3, <2>1, <2>2
<1> QED BY <1>2, <1>3

(* How a step while main_new sleeps changes the clock.                     *)
LEMMA TickFrame ==
  ASSUME IInv, [Next]_vars, pc = "sleep", pc' = "sleep"
  PROVE  /\ UNCHANGED <<start, duration, asked>>
         /\ \/ UNCHANGED <<ticks, elapsed>> /\ PendingTicks' <= PendingTicks
            \/ /\ ticks' = (ticks + 1) % WIDTH
               /\ UNCHANGED elapsed /\ PendingTicks' + 1 <= PendingTicks
            \/ /\ elapsed' = IF elapsed < MaxElapsed THEN elapsed + 1 ELSE elapsed
               /\ UNCHANGED ticks /\ PendingTicks' <= PendingTicks + 1
<1> USE DEF PendingTicks, pic, cpu, main
<1>1. ~Boot /\ ~sleep_return /\ \A d \in Durations : ~sleep(d)
  BY DEF Boot, Step, finalize_pagination, irq_init, kb_init, pit_init, uart_init,
       interrupts_init, sleep_return, sleep
<1>2. ASSUME NEW line \in Lines, deliver(line)
      PROVE  UNCHANGED <<start, duration, asked, ticks, elapsed>> /\ PendingTicks' <= PendingTicks
  <2>1. hpc = "none" /\ (line # 0 => int_no' # 32)
    BY <1>2, Vectors DEF IInv, GENERAL_PROTECTION
  <2>2. line \in irr /\ irr' = irr \ {line}
    BY <1>2 DEF deliver, Requested
  <2>3. PendingTicks' <= PendingTicks
    BY <2>1, <2>2
  <2> QED BY <1>2, <2>3 DEF deliver
<1>3. CASE pit_handler
  <2>1. int_no = 32
    BY <1>3, HandlerOf DEF pit_handler, Running, IInv, ServiceInv, GENERAL_PROTECTION, BootInv
  <2> QED BY <1>3, <2>1 DEF pit_handler, Running
<1>4. CASE keyboard_handler \/ uart_handler \/ no_handler
  BY <1>4 DEF keyboard_handler, uart_handler, no_handler, Running
<1>5. CASE irq_handler_return \/ irq_handler_stop \/ stopped \/ UNCHANGED vars
  BY <1>5 DEF irq_handler_return, irq_handler_stop, stopped, vars
<1>6. CASE pit_period
  BY <1>6 DEF pit_period
<1>7. ASSUME NEW k \in Keys, key_press(k) \/ key_release(k)
      PROVE  UNCHANGED <<start, duration, asked, ticks, elapsed>> /\ PendingTicks' <= PendingTicks
  BY <1>7 DEF key_press, key_release, key_code
<1>8. CASE uart_byte
  BY <1>8 DEF uart_byte
<1>9. ASSUME NEW line \in Stray, stray_request(line)
      PROVE  UNCHANGED <<start, duration, asked, ticks, elapsed>> /\ PendingTicks' <= PendingTicks
  BY <1>9, Constants DEF stray_request
<1> QED BY <1>1, <1>2, <1>3, <1>4, <1>5, <1>6, <1>7, <1>8, <1>9 DEF Next, Handler, Device

LEMMA CountedForPending ==
  ASSUME NEW a \in Nat, NEW b \in Nat, NEW p \in Nat, NEW q \in Nat,
         b <= a + 1, q + 1 <= p
  PROVE  b + q <= a + p
OBVIOUS

LEMMA SleepStep == IInv /\ SleepInv /\ [Next]_vars => SleepInv'
<1> SUFFICES ASSUME IInv, SleepInv, [Next]_vars, pc' = "sleep" PROVE SleepInv'
  BY DEF SleepInv
<1>0. /\ WIDTH \in Nat \ {0} /\ MaxElapsed \in Nat
      /\ ticks \in 0..(WIDTH - 1) /\ start \in 0..(WIDTH - 1) /\ elapsed \in 0..MaxElapsed
  BY Constants DEF IInv, TypeOK
<1>1. CASE pc # "sleep"
  <2>1. PICK d \in Durations : sleep(d)
    BY <1>1 DEF Next, Boot, Step, Handler, Running, Device, vars, main, finalize_pagination,
         irq_init, kb_init, pit_init, uart_init, interrupts_init, sleep_return, deliver,
         pit_handler, keyboard_handler, uart_handler, no_handler, irq_handler_return,
         irq_handler_stop, stopped, pit_period, key_press, key_release, key_code,
         uart_byte, stray_request
  <2>2. /\ asked' = d /\ duration' = (d * HZ) % WIDTH /\ elapsed' = 0
        /\ start' = ticks /\ ticks' = ticks /\ hpc' = "none"
    BY <2>1 DEF sleep, Step, cpu
  <2>3. PendingTicks' <= 1
    BY <2>2 DEF PendingTicks
  <2>4. (ticks - ticks) % WIDTH = 0
    BY <1>0, ModSmall
  <2>5. PendingTicks' \in Nat
    BY DEF PendingTicks
  <2>6. ((ticks' - start') % WIDTH) + PendingTicks' <= elapsed' + 1
    BY <2>2, <2>3, <2>4, <2>5
  <2> QED BY <2>2, <2>6 DEF SleepInv
<1>2. CASE pc = "sleep"
  <2> DEFINE counted == (ticks - start) % WIDTH
  <2>1. counted \in Nat /\ PendingTicks \in Nat /\ PendingTicks' \in Nat
    BY <1>0, ModStep DEF PendingTicks
  <2>2. asked' \in Durations /\ duration' = (asked' * HZ) % WIDTH
    BY <1>2, TickFrame DEF SleepInv
  <2>3. elapsed = MaxElapsed \/ counted + PendingTicks <= elapsed + 1
    BY <1>2 DEF SleepInv
  <2>4. elapsed' = MaxElapsed \/ counted' + PendingTicks' <= elapsed' + 1
    <3>1. CASE UNCHANGED <<ticks, elapsed>> /\ PendingTicks' <= PendingTicks
      <4>1. counted' = counted
        BY <1>2, <3>1, TickFrame
      <4> QED BY <1>0, <2>1, <2>3, <3>1, <4>1
    <3>2. CASE /\ ticks' = (ticks + 1) % WIDTH
               /\ UNCHANGED elapsed /\ PendingTicks' + 1 <= PendingTicks
      <4>1. counted' \in Nat /\ counted' <= counted + 1
        BY <1>0, <1>2, <3>2, TickFrame, ModStep
      <4>2. counted' + PendingTicks' <= counted + PendingTicks
        BY ONLY <2>1, <3>2, <4>1, CountedForPending
      <4> QED BY <1>0, <2>1, <2>3, <3>2, <4>1, <4>2
    <3>3. CASE /\ elapsed' = IF elapsed < MaxElapsed THEN elapsed + 1 ELSE elapsed
               /\ UNCHANGED ticks /\ PendingTicks' <= PendingTicks + 1
      <4>1. counted' = counted
        BY <1>2, <3>3, TickFrame
      <4> QED BY <1>0, <2>1, <2>3, <3>3, <4>1
    <3> QED BY <1>2, <3>1, <3>2, <3>3, TickFrame
  <2> QED BY <2>2, <2>4 DEF SleepInv
<1> QED BY <1>1, <1>2

(* Every argument of sleep, in ticks, fits in the counter; 1 does.         *)
DurationsFit == \A d \in Durations : d * HZ < WIDTH

(* sleep(d) lasts d seconds, whatever requests were pending when it began  *)
(* and however often the counter wraps around.                             *)
THEOREM InterruptsSleepLongEnough ==
  ASSUME DurationsFit
  PROVE  Spec => SleepLongEnough
<1>1. Init => SleepInv
  BY DEF Init, SleepInv
<1>2. IInv /\ SleepInv /\ [Next]_vars
        => [pc = "sleep" /\ pc' = "run" => elapsed >= asked * HZ]_vars
  <2> SUFFICES ASSUME IInv, SleepInv, [Next]_vars, pc = "sleep", pc' = "run"
               PROVE  elapsed >= asked * HZ
    OBVIOUS
  <2>1. (ticks - start) % WIDTH > duration
    BY DEF Next, Boot, Step, Handler, Running, Device, vars, main, finalize_pagination,
         irq_init, kb_init, pit_init, uart_init, interrupts_init, sleep, sleep_return, deliver,
         pit_handler, keyboard_handler, uart_handler, no_handler, irq_handler_return,
         irq_handler_stop, stopped, pit_period, key_press, key_release, key_code,
         uart_byte, stray_request
  <2>2. /\ WIDTH \in Nat \ {0} /\ MaxElapsed \in Nat /\ elapsed \in 0..MaxElapsed
        /\ ticks \in 0..(WIDTH - 1) /\ start \in 0..(WIDTH - 1)
    BY Constants DEF IInv, TypeOK
  <2>3. asked \in Durations /\ duration = (asked * HZ) % WIDTH
    BY DEF SleepInv
  <2>4. asked * HZ \in Nat /\ asked * HZ < WIDTH /\ asked * HZ < MaxElapsed
    BY <2>3, InterruptsAssumption DEF DurationsFit
  <2>5. duration = asked * HZ
    <3> DEFINE x == asked * HZ
    <3>1. x % WIDTH = x
      <4> HIDE DEF x
      <4> QED BY <2>2, <2>4, ModSmall DEF x
    <3> QED BY <2>3, <3>1
  <2>6. (ticks - start) % WIDTH \in Nat /\ PendingTicks \in Nat
    BY <2>2, ModStep DEF PendingTicks
  <2>7. elapsed = MaxElapsed \/ ((ticks - start) % WIDTH) + PendingTicks <= elapsed + 1
    BY DEF SleepInv
  <2> QED BY <2>1, <2>2, <2>4, <2>5, <2>6, <2>7
<1> QED BY <1>1, <1>2, SleepStep, InterruptsInvariant, PTL DEF Spec, SleepLongEnough
=============================================================================
