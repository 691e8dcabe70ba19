# A TLA+ verification of kernel-x86

kernel-x86 is a small 32-bit x86 kernel in C. It boots through multiboot, sets
up paging, a physical frame allocator, a heap (`kmalloc`), the interrupt
controllers, the timer, the keyboard and a serial line, and then sleeps in a
loop while interrupt handlers run. This directory models its memory management,
its interrupt entry and handling, and its output, model-checks them with TLC, and
proves with TLAPS, for every value of the constants, the safety properties of the
frame allocator, the heap, paging, the heap on paging, interrupt handling,
interrupt entry and output.

`PROJECT.json` holds the machine-readable side: the map from definitions to
source lines, the runs, the mutants, the hazards, the findings and the theorems.
Paths are relative to the directory that holds `src/` (so the frame allocator is
`src/src/frame.c`); below they are shortened to the file name.

## 1. Inventory

| Component | State | Operations | Used by | Module |
|---|---|---|---|---|
| Frame allocator (`frame.c`) | table of `struct frame` (ref_count, addr, vaddr) | `init_frame_alloc`, `alloc_frame`, `alloc_frames`, `free_frame`, `frame_to_phys`, `phys_to_frame` | paging | `Frames`, `FrameSpec`, `FramesProofs`; the set-up in `Paging` |
| Paging (`pages.c`) | page directory, page tables, `g_kds_size`, the TLB | `init_page_directory`, `finalize_pagination`, `init_page_tables`, `map_pages`, `unmap_pages`, `alloc_pages`, `map_io`, `sbrk`, `get_physaddr`, `page_fault_handler` | heap, boot | `Paging`, `PagingProofs` |
| Heap (`kmalloc/`) | `page_infos` (nb_pages, max_pos) and a list of `t_mem_infos`, all in the heap itself | `kmalloc`, `calloc`, `realloc`, `free`, `mem_dump` | kernel code | `KMalloc`, `HeapSpec`, `KMallocProofs`; with paging `KernelHeap`, `KernelHeapProofs` |
| Interrupts (`interrupts.c`, `irq.c`) | `g_handlers`, `g_idt`, controller masks and registers | `irq_init`, `irq_mask`, `irq_unmask`, `irq_send_eoi`, `interrupts_init`, `register_irq_handler`, `irq_handler` | all drivers | `Interrupts`, `InterruptsProofs` |
| Timer (`pit.c`, `time.c`) | `ticks` | `pit_init`, `pit_handler`, `sleep` | `main_new` | `Interrupts` |
| Keyboard (`kb.c`) | `send_char` | `kb_init`, `keyboard_handler`, `kb_get_key` | | `Interrupts` |
| Serial line (`uart.c`) | `uart_addr` | `uart_init`, `uart_handler`, `uart_recv`, `uart_send` | kprintf, printk | `Interrupts` (receiving), `Output` (sending) |
| Boot (`main.c`, `crt0.S`) | order of the calls | `main`, `main_new` | | split over `Paging`, `Interrupts` and `Entry` |
| Segmentation (`segmentation.c`, `crt0.S`) | `g_gdt`, `g_tss`, segment and task registers | `set_gdt_entry`, `set_tss_entry`, `init_flat_gdt`, `gdt_flush`, `tss_flush` | boot | `Entry` |
| Entry stubs (`isr_handler.S`) | the kernel stack, the registers | one stub per vector, around `irq_handler` | the processor | `Entry`, `EntryProofs` |
| Formatted output (`tools/kprintf/`, `kwrite.c`) | the count of characters | `kprintf` and its conversions | all of the kernel | `Output`, `OutputProofs` |
| Screen (`vga.c`) | video memory | `print_char_on_screen`, `printk_on_screen`, `clear_screen` | `printk` | `Output` |
| String and port helpers, tests, old serial driver | | | | not modelled (section 7) |

How they interact:

* `kmalloc` and `free` call `sbrk`; `sbrk` calls `alloc_frames` and `map_pages`,
  or `unmap_pages`; `map_pages` takes a reference on each frame. Three separate
  counts of the same memory (heap pages, `g_kds_size`, frame references) have to
  agree, and any of the calls may fail half way.
* Interrupt handlers preempt `main_new`. They share `ticks` with `sleep`, and
  `g_handlers` and `g_idt` with the boot code. No handler touches memory
  management, so that part is sequential.
* Handlers do not nest: interrupt gates clear the interrupt flag. An exception may
  strike a handler, though.
* Handlers print: on the serial line, between any two characters of `kprintf` or
  `printk`, and `uart_handler` on the screen.

What is hard about it, and what makes each part correct:

* **Frames.** A first-fit search with a run counter: off-by-one at the end of the
  table, runs that are not reset. Correct: counts are exact, a granted frame is
  never in use, the search finds the first run if there is one, and it ends.
* **Paging.** Tables are reached through the mappings they define; entries are
  read through two overlapping views; calls fail after changing some entries.
  Correct: the kernel stays mapped, the heap is mapped up to the break, each
  mapped heap page has one frame, frames that hold the kernel are never free.
* **Heap.** Metadata in the memory that is handed out; splits, merges on both
  sides and page releases in any order. Correct: the list tiles the heap, blocks
  of callers are never merged or handed out again, free blocks are coalesced, and
  the list never outgrows the memory `sbrk` gave.
* **Interrupts.** Requests at any time, also before handlers exist; masks left by
  the BIOS; a request discarded by reinitialisation; a counter that wraps around.
  Correct: acknowledgements match, no request or key is lost, `sleep` neither
  returns early nor hangs, only a line without a gate stops the kernel.
* **Entry.** The processor pushes an error code for some vectors and not for others;
  two kinds of stub make up for it by hand; C reads the result through one struct.
  Correct: the struct shows what was interrupted, up to its 16-bit `cs`, and what is
  returned to goes on as if nothing had happened; selectors name the descriptors they are meant to.
* **Output.** Recursive conversions at the edges of a word, and characters of
  handlers in between. Correct: a call sends what its format stands for, in order,
  nothing lost or repeated, and every call returns.

## 2. Modules

```
FrameSpec <--implements-- Frames <--EXTENDS-- FramesProofs, MCFrames
HeapSpec  <--implements-- KMalloc <--EXTENDS-- KMallocProofs, MCKMalloc
                             ^
                          EXTENDS
                          KernelHeap --INSTANCE--> Paging <--EXTENDS-- PagingProofs, MCPaging
                             ^
                          EXTENDS
                          MCKernelHeap, KernelHeapProofs --INSTANCE--> PagingProofs
Interrupts <--EXTENDS-- InterruptsProofs, MCInterrupts
Entry      <--EXTENDS-- EntryProofs, MCEntry
Output     <--EXTENDS-- OutputProofs, MCOutput
Arithmetic <--EXTENDS-- PagingProofs, EntryProofs, OutputProofs
```

### Frames and FrameSpec

`FrameSpec` is the promise: one step grants the lowest run of `n` free frames, or
fails if there is none. `Frames` is the code: `alloc_frame` and `alloc_frames`
one loop iteration per step, with the locals `cursor`, `count` and `fsaved` as
variables. `free_frame` is one step, clamp included. The reference that
`map_pages` takes is `map_pages_ref`. `held` is a history variable: the
references that callers hold. A caller frees what it holds, or a frame whose
count is 0, which the clamp absorbs. `Reserved` stands for the frames that
`init_ram_frames` marks at boot; the address computation behind it is in
`Paging`.

### KMalloc and HeapSpec

`HeapSpec` is an allocator seen from its callers: live regions that lie below the
break and do not overlap. `KMalloc` is the code: `hdr` is the memory's headers by
address, `mem_search_place` and `mem_rm_value` walk it one node per step along
the stored `next`, and a header that was absorbed or cut off leaves the domain,
so that following a stale pointer is an error. `ok` is the answer of `sbrk`.
A call of `realloc` that has to move leaves its old block in use; the model
records it in `lost`, which is what `Ownership` allows for. `calloc` differs from
`kmalloc` in clearing its bytes and in the product it forms. `mem_dump` is a third
walk; like `free` it may be the call that sets the heap up.

A word has `WIDTH` values. `Wrap` is an address after an addition, as an offset
from `HEAP_BASE`; `SbrkGrows` says whether an amount is positive as the `ssize_t`
that `sbrk` takes. A step that gives out memory that is not there (`Phantom`) ends
the behaviour in `wrapped`: the writes that would follow hit arbitrary addresses.
In the passing runs no request reaches that size; `heap_wraps` is the run in which
they do. `asked` is what the caller of an allocation needs, before `calloc`'s
product is cut to a word.

The module assumes memory that reads back what was written. `KernelHeap` is where
that is examined.

### Paging

`pde` and `pte` are the directory and the tables. A directory entry has its two
flags and its address field; `Addr4mb` is the narrower view of the same word that
`unmap_pages` uses. `Translate` is the processor's page walk. Boot is one step
per function, in the order of `main` and `main_new`; `tlb` is whether the
identity mapping is still cached after `finalize_pagination` has cleared it,
because `init_page_tables` relies on it and nothing in the code pins it.
After boot, `sbrk` and `map_io` are one step each: their loops are
sequential and nothing interferes. Partial failure of `map_pages` is kept:
`MapCount` says how far it came, and the entries and references it has set stay.
`low` records the words in physical memory that `unmap_pages` clears.
`map_io` takes a range in bytes: the number of pages comes from the length alone, the
first physical page from the address, and `map_io_result` adds the offset in the page,
as in the code. A range that is not aligned and crosses into one more page than its
length fills therefore gets one page too few, in the model as in the code.

Constants in the code that are sizes become parameters: 1024 entries become
`ENTRIES`, 4096 bytes `FRAME_SIZE`, `sizeof(struct frame)` `SIZEOF_FRAME`. The
heap's address is written `0xc08000000` in the source, nine digits; the 32-bit
build keeps `0x08000000`, directory entry 32, which lies below the kernel
(`HEAP_PDE < KERNEL_PDE` in the model).

### KernelHeap

The heap of `KMalloc`, extended with the variables of `Paging`: every heap step
that calls `sbrk` is taken together with the `sbrk` step it causes, and its
success is whether the break moved. All frames have address 0 in this code, so
the second heap page shows the same bytes as the first. From the first step at
which two heap addresses in use share a byte, nothing is known about the list:
the model sets `corrupt` and stops there. What is checked holds up to that
step, and `NoAliasing` is the run that reaches it.

### Interrupts

Two flows of control. `pc` is `main_new`: the boot calls in order and then
`sleep`. `hpc` and `int_no` are the running `irq_handler`. The interrupt
controllers (`mask`, `irr`, `isr`, `base`), timer, keyboard and serial line are
external: they may raise a request at every step, boot included. A vector
without a gate becomes a general protection fault, for which `irq_handler` prints
and never returns. `owed`, `fresh`, `early`, `asked` and `elapsed` are history.

### Entry

`ctx` is the register file, `stack` the kernel stack, top at the end. `enter` is the
processor: flags, code segment, address, and an error code for the vectors that
have one. `isr_entry` is a stub up to `call irq_handler`, `isr_exit` the rest with
its `iret`; `regs` is the stack read through `struct regs`, in half words: `RegsStruct`
lists all twenty fields, and since `cs` takes one half word of the word that was pushed
(`Offset`), `eflags`, `useresp` and `_ss` are read half a word too low, as the packed
struct does. `RegsMatch` claims the fields up to `cs`, and of `esp` that it is where the
stub's `pushal` found it. `irq_handler` stops for
vectors below 32 and returns for the others, which is what makes `Resumes` hold: a
stub made with `ISR_WITH_ERROR` drops its own word only and leaves the error code
for `iret`. The mutant that returns from exceptions shows it.

`gdt` holds descriptors cut into fields as `set_gdt_entry` does, `Base` and `Limit`
put them together as the processor does. `TssBases` are the addresses of `g_tss`:
the limit field of the TSS gets the low 20 bits of an address, and covers the TSS
unless `g_tss` ends within its own size behind a multiple of 1 MB, which
`EntryAssumption` excludes.

### Output

`kprintf` one character or call per step. `todo` are the calls display_var has made
and that have not printed yet, innermost first, so a recursion unfolds at its front.
`out` is what was sent since the call began, each character with its port and
its sender; `screen` is the first row. The handlers of the keyboard and of the
serial line print in one step (nothing preempts them). `Rendering` is the reference,
written without regard to the code: numbers in positional notation, 0 as `0`, `%b` of
an unsigned word, `%B` in the largest unit that fits with all digits of its fraction,
`%S` with three octal digits for what is not printable. `Exact` names the arguments
that the code prints like that; the others are under "Further disagreements" in
section 3. `CallShown` is about the kernel's own characters: none is lost, repeated or
moved. What handlers print may stand between them, and of a call before `uart_init`
nothing is claimed.

## 3. Runs

| Run | Shows | Bounds |
|---|---|---|
| `frames` | exact counts, loop invariants, no used frame granted, calls return, refinement of `FrameSpec` | 5 frames, 1 reserved, requests 0..3, 2 references |
| `kmalloc` | tiling, limits, coalescing, ownership, walks on live headers, best fit, calls return, refinement of `HeapSpec` | page of 6 bytes, 2 pages, header 2, sizes 0, 1, 2, 4 |
| `paging` | kernel mappings intact, heap mapped, frames and tables agree, kernel frames reserved, `sbrk` returns fresh memory, no call changes what a mapped page shows, `map_io` uses page 0 only when nothing else is free | 8 entries, 8-byte pages, RAM of 37 and 41 pages |
| `kernel_heap` | the two page counts agree, the list is on mapped pages | 13-byte pages, 2 refusals |
| `interrupts` | acknowledgement, boot order, no lost request, no lost key | 2 keys, 2 lines without gate (one on the slave) |
| `sleep_and_keys` | `sleep` is long enough and returns, across the wrap-around; every scan code is read | `HZ` 2, counter modulo 8, `sleep(1)`, 1 key |
| `entry` | `struct regs` shows what was interrupted up to `cs`, a return restores everything, selectors and TSS descriptor | bytes of 4 values, every address of the TSS, 4 exceptions, 3 interrupts, 3 frames |
| `output` | each call's text reaches the line in order and once, the recursion is bounded, the row of the screen, calls return | words of 8192 values, 93 formats, 2 messages, 2 calls, 1 interrupt |

Why the bounds are enough. *Frames*: five frames hold two separate free runs with
a used frame between, before and behind them, which is every shape the run
counter distinguishes; request 0 is the one for which no run is ever found.
*KMalloc*: two pages hold four blocks of the smallest size, so a free block has
used and free neighbours on either side and at either end of the list, and the sizes
make the rest of a split too small, just large enough, and larger.
`MaxPages` and refusals of `sbrk` make growth fail at each point.
*Paging*: the two RAM lengths make the frame table end inside its third and its
fourth page, and leave fewer and more free frames than the directory entry of
the heap has pages, so the heap meets both limits, the last frame and the
kernel's 4 MB page; the increments of `sbrk` are a whole page, two and a half
pages and minus one page; the IO ranges are empty, of one and two pages,
one that crosses into a page its length does not count, and one too large for what
is left of the table. *Paging* with RAM of 38 pages has a frame
table of exactly three pages.
*KernelHeap*: a page holds several blocks and its 12-byte request needs a new one;
the 8 pages below the kernel are what ends the heap.
*Interrupts*: line 6 is on the master and 9 on the slave, below and above which
the kernel's own lines are; `MCInterrupts.cfg` starts with every mask the BIOS
may leave. In the run about lost requests time is abstracted (`WIDTH` 2,
`sleep(0)`); the run about time has no lines without gate, so the kernel
never stops in it.
*Entry*: exceptions with and without an error code, below and above the interrupts'
vectors; three frames are an interrupt, an exception in its handler and one more in
that. Small bytes make every way of cutting an address occur.
*Output*: `WIDTH`, `KB` and `THOUSAND` are 8192, 8 and 100, in the same order as
2^32, 1024 and 1000 and their products, so a fraction fits in a word for every unit
but the last; the numbers are 0, the edges of a digit in each base, of each unit,
and of the sign. Two calls are one before and one after `uart_init`, or two after.
`MaxNested` is the digits of a word in base 2 and one for the sign.

All counters that the code lets grow are bounded: `MaxRef`, `MaxPages`,
`MaxRefusals`, `MaxElapsed` (where the history saturates), `MaxDepth` (frames),
`MaxCalls`, `MaxInterrupts`; `ticks` wraps as in the code.

### Runs that find a disagreement

Each of these checks one statement that a comment, an identifier or a message of
the code makes, and that TLC shows the code not to keep. The finding in
`PROJECT.json` quotes the line.

| Run | Statement | What happens |
|---|---|---|
| `reserved_frames` | memory of the kernel is set aside | when the frame table ends on a page boundary no frame is reserved |
| `heap_aliasing` | `map_pages` maps n physical pages | `init_ram_frames` never stores the address of a frame, so all heap pages show physical page 0 |
| `heap_refused` | `sbrk` fails for want of memory | after `kmalloc`, `free`, the page is still mapped, so every later `kmalloc` fails and leaks a frame |
| `heap_wraps` | an answer other than NULL is memory | a request of half the address space or more wraps around or is negative for `sbrk`, which reports success |

`KernelFramesReserved` is in the passing run `paging`, with frame tables that
end inside a page, and in the run `reserved_frames` with one that does not.

Further disagreements met while modelling, without a run of their own:

* "Unmap pages." (`pages.c:419`): `unmap_pages` reads the table's address through
  the 4 MB view of the entry, clears words of physical page 1, and the pages stay
  mapped. It is the cause behind `heap_refused`; the step is in the model.
* "find n consecutive free virtual pages and return their address" (`pages.c:286`):
  `alloc_pages` returns the last page in use before the free run. `map_io` ("Map an IO
  memory range.", `pages.c:386`) ignores that `map_pages` fails there, so its caller
  sees the end of the frame table in place of the first page of the range. A range
  of one page, such as the text buffer of the example (`pages.c:393`) and of
  `test_dump_screen` (`test.c:53`), is not shown at all, and of a longer one each page
  is where the page before should be. The step is in the model;
  `MappedKept` shows the one good side of it, that the used page is not overwritten.
* `map_io` counts pages from the length alone (`pages.c:403`), so the end of a range that
  is not aligned may not be mapped.
* "fill the page directory with all page table addrs" (`pages.c:148`):
  `init_page_tables` faults if the TLB has dropped the identity mapping, which nothing
  in the code pins. Both outcomes are in the model.
* `free` and `mem_dump` fault if the heap was never set up because `sbrk` refused
  (`rm_value.c:67`): `get_first_value` returns NULL, which they do not test for. The
  step is in the model.
* `my_put_nbr_base` never ends for the least int; the case that would print it is
  commented out (`put_nbr_base.c:22`). It overruns the stack, and
  `Returns` leaves the case out.
* `%o`, `%x` and `%X` print nothing for 0; `%b` prints values from 2^31 on as
  negative; `%B` prints no leading zeros in its fraction, so 1034 is `1.9Kb` (for
  1.009), and its product wraps around for most sizes of 1 Gb and more
  (`kprintf.c:16`); `%S` takes characters from 128 on for negative. `Exact` leaves these
  arguments, and only these, out of `CallShown`. The return value of `kprintf` counts
  all calls so far; a percent sign at the end of a format reads beyond it
  (`kprintf.c:60`). `uart_send` does not wait for the transmitter.
* Output before `uart_init`, that is all of `init_flat_gdt`'s, goes to port 0 and is lost.
* `cs` in `struct regs` has 16 bits although a word is pushed for it
  (`interrupts.h:57`), so `eflags`, `useresp` and `_ss` read two bytes off; the last two
  are not pushed at all without a change of ring. `irq_handler` prints what it reads
  there (`interrupts.c:87`). The layout is in the model, and `RegsMatch` stops at `cs`.
* `USERLAND_LIMIT` (`segmentation.h:9`, "Userland GDT limit") is not used; the
  user segments span all of memory. The limit of the TSS is an address
  (`segmentation.c:31`). Vector 17 has an error code but a stub without one
  (`isr_handler.S:53`); only user mode can raise it.

* `map_io` of a range that does not fit gets NULL from `alloc_pages` and maps it at
  virtual page 0, although `finalize_pagination` disabled that page
  (`pages.c:121`). The step is in the model.
* `phys_to_frame` counts from 8 MB and the frame table from 1 MB (`frame.c:205`,
  `frame.h`); the function has no caller.
* `sleep` multiplies its argument by 100 in 32 bits, so from 42949673 seconds on it
  may return too early (`time.c:10`). The multiplication is in the model with its
  width; `main_new` only sleeps for one second.
* `pit_init` writes the control word `SC_0 | MODE_2`, 0x40, which by `pit.h:13`
  selects counter 1 (`MODE_2` has the wrong value). The divisor then goes
  to counter 0 all the same. The timer is external in the model.
* A Multiboot loader always passes the magic number, so `main_new`'s early return
  for a wrong one is not in the model. (Taking it would leave through a stack
  that holds no return address, since `enable_paging` jumps to `main_new`.)

## 4. Fairness

* *Frames, KMalloc*: weak fairness of the loop steps. There is one thread and no
  handler uses these modules, so a call that started keeps executing. Callers are
  not fair: they need not call anything.
* *Interrupts*: weak fairness of boot, of running handlers and of the timer (a
  free-running oscillator). Strong fairness of delivery of the kernel's own lines
  and of `sleep`'s poll: each is enabled again and again between two interrupts
  rather than continuously, and the processor executes instructions there.
  The keyboard is less urgent than the timer, so `KeyRead` also needs a timer
  slower than a handler; `TimerIsSlow` states it. The period is 10 ms, the
  handler increments a counter.
* *Output*: weak fairness of the steps of a call: a handler returns, so
  the interrupted call goes on.
* *Paging, KernelHeap, Entry*: safety only, no fairness.

Deadlock checking is on in every run; the states in which the code spins for ever
(page fault, `irq_handler` after an exception) are explicit stuttering steps.

## 5. Theorems

Each proof module shows `Spec => []IInv` for an inductive invariant `IInv` and then
derives the properties the runs check. All of it holds for every value of the
constants that the named assumption of the model admits; a theorem that needs more
says so in an `ASSUME` of its own.

| Module | Theorems | Needed besides the assumption |
|---|---|---|
| `FramesProofs` | `FramesTypeOK`, `FramesAccounting`, `FramesLoopInv`, `FramesNeverGrantsUsed`, `FramesImplements` | |
| `KMallocProofs` | `KMallocTypeOK`, `KMallocTiling`, `KMallocCoalesced`, `KMallocBestFit` | (as long as nothing has wrapped around) |
| | `KMallocOwnership`, `KMallocWalkInv` | `ProductsFit` (and the same) |
| | `KMallocNeverWraps` | `RequestsFit` |
| | `KMallocImplements`, `KMallocMemoryGiven` | `RequestsFit`, `ProductsFit` |
| `PagingProofs` | `PagingTypeOK`, `PagingKernelIntact`, `PagingHeapMapped`, `PagingFreshHeap`, `PagingNullOnlyWithoutPlace`, `PagingMappedKept` | |
| | `PagingKernelFramesReserved` | `PartialLastPage` |
| | `PagingFrameBacking` | `IoBelowHeap` |
| `KernelHeapProofs` | `KernelHeapBreakAgrees`, `KernelHeapListMapped` | `RequestsFit` |
| `InterruptsProofs` | `InterruptsTypeOK`, `InterruptsEoiMatches`, `InterruptsStopsOnlyForStray`, `InterruptsNoLostInterrupt`, `InterruptsKeysEchoed` | |
| | `InterruptsSleepLongEnough` | `DurationsFit` |
| `EntryProofs` | `EntryTypeOK`, `EntryRegsMatch`, `EntryDescriptorsValid`, `EntryResumes` | |
| `OutputProofs` | `OutputTypeOK`, `OutputCallShown`, `OutputNoOverflow` | |

`Arithmetic` holds the lemmas on products, `\div` and `%` that the solvers do not find
by themselves: quotient and remainder determine each other, products are monotone,
and a remainder by a product has two digits. `LeastNat` says that a set of natural
numbers that is not empty has a least element. It stands in for induction: a claim
about all numbers is proved by taking the least one for which it fails.

### The arguments

**Frames.** `IInv` is `TypeOK /\ Accounting /\ ScanInv /\ FirstInv`. `Accounting` is
inductive only with the knowledge that a granted run was free, which is the loop
invariant: `ScanInv` says that `fsaved` and `count` describe the maximal free run
that ends at `cursor` and that no run of `n` was passed over, `FirstInv` that all
frames before `cursor` are in use. The first half of `ScanInv` gives safety, the
second that the run is the lowest one, which the refinement needs: a success maps
to `FrameSpec`'s grant, a failure to its refusal, every other loop step to a
stutter.

**KMalloc.** A heap that gave out memory it does not have (`pc = "wrapped"`) is not
followed, so `IInv` is `pc # "wrapped" => Good`. `Good` joins the list (`Tiling`,
`Coalesced`), what callers hold (`Held`), and what each walk knows:
`SearchInv` that `aux` is the best block before `cur`, `RmInv` that `aux` is the node
before `cur`, `PlaceInv` that `cur` is a node or the end. `Coalesced` needs `RmInv`
(the block in front is known to the merge), `Tiling` needs to know that a block the
split leaves behind is not empty, and `BestFit` is `SearchInv` at the end of the
list. `IsList` states the list for any header function, so each operation is one
lemma: a split, an append, a merge and a release give a list again.
`RequestsFit` bounds a request by the room above the largest heap and by half a
word: with it no address wraps around, and the run `heap_wraps` shows what happens
without it. `ProductsFit` says the same of `calloc`'s product, which the code
cuts to a word. The refinement maps returns to grants, frees and failures of
`HeapSpec` and walks to stutters.

**Paging.** `IInv` adds to `KernelIntact` and `HeapMapped` the shape of the directory at
each phase (`DirInv`: the two 4 MB entries, and every other entry with its own
table, present or not), and `HeapBound`: the heap never reaches the kernel's entry,
since `map_pages` fails there. The core are lemmas about `map_pages`: a call,
successful or not, takes nothing away (`Extended`), and changes the translation of
no page outside its range (`MapOnly`), because the table of an entry that is not
present is empty (`Clear`). `PagingMappedKept` is the same inside the range, where
`map_pages` stops at a page in use (`Kept`). `PagingNullOnlyWithoutPlace` rests on the end
of the frame table: the table in which `alloc_pages` starts has its first page in
use, so a run it finds has a used page in front (`AllocNull`). `FrameBacking` has its own invariant (`BackInv`).
`PartialLastPage` is exactly what the run `reserved_frames` lacks: `init_ram_frames`
translates the address behind the frame table, which is mapped only if the table
does not fill its last page. `IoBelowHeap` is needed because `alloc_pages` may
answer page 0 for a range that does not fit: such a range must not reach into
the heap, which starts at 128 MB.

**KernelHeap.** `HeapInv` is the invariant of `KMallocProofs`, the one of `PagingProofs`,
`BreakAgrees`, and that the heap is used only after boot. Each step is a step of
`KMalloc` whose `sbrk` happened to succeed or fail (`HeapSteps`) and an `sbrk` of
`Paging` (`SbrkEffect`), so both invariants come from the components' own step
lemmas; the paging lemmas are used through a second instance, of `PagingProofs`, and
the first lemmas show that the two instances define the same `sbrk`. `BreakAgrees`
remains: the pages that `pagesize_add_update` counts are what `sbrk` was asked for
(`NoPhantom`, hence `RequestsFit`), a refusal changes neither count, and a release
gives back whole pages above a header of the list. It needs that `kmalloc` never
refuses a request that `sbrk` granted, which `HeapBound` gives: below the kernel there
is room for no more than `MaxPages` pages. `ListMapped` follows from `InsideLimit`,
`BreakAgrees` and `HeapMapped`. Both hold up to the step at which two heap addresses
share a byte; the model does not go beyond it.

**Interrupts.** `BootInv` is what boot has done at each of its calls; interrupts come
last, so no handler runs before. `ServiceInv`: while a handler runs interrupts are
off and exactly its line is in service, or a line without a gate is.
`KeyInv` relates the last code read and the key that is down to the code that waits.
For `sleep`, `SleepInv` counts: the timer periods since the call are at least the
ticks since, less one request that may have been pending when it began; the strict
comparison in `sleep` makes up for that one. `DurationsFit` (`d * HZ < WIDTH`) is
what fails from 42949673 seconds on; `main_new` passes 1.

**Entry.** `Tables`: the descriptors, selectors and gates are complete before anything
is entered. `FrameInv` gives the stack word by word above what was interrupted:
`AtStub` after the processor's words, whose number depends on the vector, and
`InHandler` after those of the stub, which does not depend on it any more.
`RegsMatch` reads that layout through the half words of `struct regs`, `Resumes` reads it back in
`isr_exit`; both need that only vectors from 32 on return, and that these have
no error code. `DescriptorsValid` rests on two lemmas about cutting and joining:
the flat limit (`FlatSegment`), and the TSS, whose limit field holds
`(tss + SIZEOF_TSS) % 2^20` (`TssSegment`).

**Output.** What is on the line, followed by what the pending calls in `todo` will
print (`ShowAll`), is the meaning of the items that `kprintf` has read
(`PositionInv`). Each step keeps it: a character moves from one part to the other,
a call of a conversion gives way to the calls it makes (`TodoStep`), and the next
item adds its meaning to both sides (`ItemStep`). What a handler prints leaves both
parts alone, because its characters carry another sender. Three groups of lemmas
carry this.

* *Sequences laid end to end.* `FlattenSeq` is recursive; its steps (`UptoStep`), the
  place of a piece in the whole (`UptoAt`) and `FlattenConcat` come from the least
  length at which they fail. With them `cursor` and `argi` are tied to an item
  of the format (`Reached`), which is why `kprintf` never reads beyond either.
* *Numerals.* `Numeral` is positional notation: the digit at each place, and as many
  places as the number needs (`DigitsExist`, `DigitsUnique`). `NumeralStep` is the
  fact behind both conversions: the numeral of `n` is that of `n \div b` and the digit
  `n % b`. So `UintStep` and `NbrStep` hold for every word and each notation.
* *Directives.* `DisplayShown` has one case for each directive: for an `Exact`
  argument what it calls prints `Meaning`. `PrintsAmount` shows that the fraction
  of `%B` is right as long as its product fits in a word and its first digit is not 0, `VisibleOctal` and
  `ThreeDigits` that the zeros of `%S` make three octal digits.

`DepthInv` bounds the recursion: a call at depth `d` has halved its number `d - 2`
times (`Shallow`), so it ends within the digits of a word, unless it began with the
least int. `ScreenInv`: each column of the message has its character or is among
the calls still to be made.

### Assumptions

What the models assume of their constants, and why the code justifies it:

* *Frames*: the reserved frames are part of the table.
* *KMalloc*: the largest heap ends below the top address; a size is a word, and 0 is
  one of them (the variable that holds the size starts with it).
* *Paging*: the heap lies below the kernel and not at entry 0; the RAM is larger than
  the kernel; the frame table fits above it and never fills 4 MB pages exactly,
  which with frames of 12 bytes takes a multiple of 2^20 frames, 4 GB, more
  than `length_low` can say.
* *KernelHeap*: what *Paging* assumes, and that `MaxPages` is at least the number of
  pages between the heap's base and the kernel (736 * 1024), so that it is `sbrk` that
  ends the heap and not the bound.
* *Interrupts*: a scan code has 7 bits below the release bit; lines without gate are
  other lines than the kernel's and the cascade; the bound of the history
  `elapsed` lies above every duration.
* *Entry*: a word is a whole number of limits; `g_tss` lies in memory and does not end
  within its size of a multiple of 1 MB; the code selector, 8, fits in the 16 bits of
  `cs`; vector 17 does not occur.
* *Output*: a word has more values than a char and is even; 1024 cubed, and 1024
  squared times 1000, fit in a word; arguments have the types of their directives
  and strings hold no 0; a message is shorter than a row of the screen; the stack has
  room for one call per digit of a word in base 2.

### Only model-checked

* Liveness under fairness (`CallsReturn` of `Frames` and of `KMalloc`, `SleepReturns`,
  `KeyRead`, `Returns`): outside what the prover handles. For
  `Returns`, `OutputNoOverflow` proves the safety half: no call but one with the least
  int ends in the overflow.
* The statements of the four runs that find a disagreement are false, so there is
  nothing to prove; `KMallocMemoryGiven` and `PagingKernelFramesReserved` say under which
  assumption two of them hold.

## 6. Plan

Done: all models; proofs of every safety property that a passing run checks.

Models left, if the code comes to use them: `irq_mask`, `tss_set_esp` and
`clear_screen` (no caller), `prepare_userland` and user mode.

Proofs left: liveness, which needs a prover that handles fairness and `ENABLED`.

## 7. Not modelled

* String, register and port helpers (`string.c`, `tools.c`, `registers.c`, `io.c`):
  stateless; what they do is part of the steps that call them.
* `crt0.S` up to the call of `main`: the loader's entry, before any state exists.
* Colours on the screen, rows other than the first, `clear_screen`: nothing uses them.
* `irq_mask`, `tss_set_esp`, `phys_to_frame`: no caller.
* `prepare_userland`, `switch_to_userland`: user mode is not entered by `main_new`.
* `test.c`: manual tests; their calls are commented out in `main.c`, and the
  sequences they make are behaviours of the models.
* `serial_port.c`: not built.
* The multiboot memory map, beyond the length of the RAM above 1 MB.
* The `sbrk` limit at `pages.c:88` is in the model as written (it adds an address
  in bytes to a number of pages); it is never binding.
