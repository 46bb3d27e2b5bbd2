# Paged memory management, verified

The program simulates a small operating system that manages memory in pages:
32 MB of memory, of which the upper 24 MB are 6144 pages for users, 20 processes
with a one-level page table each, and a command shell to create, grow, store,
load and destroy processes. These modules model the kernel and the shell, check
them with TLC on small instances, and prove the properties that matter most for
every value of the constants with TLAPS.

`PROJECT.json` lists the components, the runs, the hazards, the theorems, and for
each definition the lines of the source it stands for.

## 1. Inventory

| part | state | operations | what makes it correct |
|---|---|---|---|
| `queueLite.c` | ring buffer: `ptr`, `capacity`, `size`, `head`, `tail` | creation (empty, from an array), `queue_push`, `queue_front`, `queue_pop` | FIFO; lends every resource once; never overfilled |
| `pageTable.c` | `table` (logical page -> physical page), `size`, queue of free entries | creation, `writePageTable`, `recyclePageElem` | entries are used from the first on; no stale entry survives its process |
| `processControlBlock.c` | `pid`, `status`, the page table | creation, re-initialisation, `setPCBPid` | idle exactly while its pid is free |
| `memory.c` | `mem_queue`, `user_used`, `sys_used`, the memory block | boot, `mem_allocate_user`, `mem_deallocate_user`, `mem_deallocate_all_user`, counters, `memOpt` | every page is free or mapped, once; the counters agree with that |
| `system.c` | `pidQueue`, `PCBs`, the memory | boot, shutdown, `sys_allocatePid`, `sys_deallocatePid` | a pid is lent to one process at a time |
| `process.c` | a process's PCB and size | `creatProcess`, `loadProgram`, `procAllocate`, `destroyProcess`, `getRealAddr`, `writeProc2Disk`, `readProcFromDisk`, `procDeallocate` | every address below the size is backed by a page of the process's own |
| `client.c`, commands | `procList`, the table of processes by slot; files under `procImage/` | `cp`, `dp`, `pa`, `sd`, `ld`, `exit` | the table never dangles and loses no process; refusals are justified; what is admitted succeeds; an image comes back byte for byte; a process's bytes are its own |
| `client.c`, `main.c`, loop | the command line | reading a command, converting its arguments | converted arguments are checked |
| `client.c`, display | none | `help`, `ls`, `sp`, `ss` | change nothing; `sp` prints the page table as it is, runs of pages joined |

Everything is a plain function call. The shell calls `process.c`, which takes a
pid and a PCB from `system.c`, pages from `memory.c`, and entries from the page
table; the three free lists (pids, pages, entries) are queues of `queueLite.c`.
A process is known under two numbers: its **pid**, which the kernel took from the
head of `pidQueue`, and its **slot** in `procList`, the first one that was empty.
They are the same until the first `dp`, and drift apart afterwards.

**What is hard here.** The program has one thread, keeps nothing across runs but
the image files, and waits for nobody; its own README (`src/README.md:219`)
names concurrency as not considered, and `memory.c` marks its calls "a lock is
needed here". So there are no messages, timeouts or restarts to model, and commands do
not interleave. The statements of a kernel call are modelled one by one all the same, not
because anybody could see the states between them, but to show that the loops on ring
buffers do what the model of the shell takes a call to do in one step. What is hard to
test is:

- *long sequences of legal commands*: pages, pids, slots and control blocks are
  reused in an order that depends on the whole history;
- *numbers*: `procAllocate` subtracts unsigned numbers that wrap, a grant of 0
  pages takes a page, `user_used` counts differently on the way in and out, typed
  arguments are cut to 16 and 32 bits;
- *limits*: the last page, entry, pid or slot, the system area, open streams, a ring
  that is full;
- *contents*: which process's bytes are where after pages have been recycled, filled,
  stored and loaded in any order;
- *faults*: asserts that stop the program, a null pointer, a fill that leaves the
  memory block. They are part of the model, as values of `status`.

## 2. Modules

| module | models |
|---|---|
| `Layout` | the numbers the kernel is built with, the order of pages at boot, bytes to pages |
| `Kernel` | `memory.c`, `system.c`, `processControlBlock.c`, `pageTable.c`, `process.c`: the state, and the kernel functions the shell calls, as operators; extends `Layout` |
| `Client` | the shell: one action per command that changes state, the typed arguments, the faults; `Spec`, and the properties; extends `Kernel` |
| `Images` | the bytes of the pages and of the files: every action is a command of `Client` with what it does to the bytes |
| `Display` | the page table as `sp` prints it |
| `MCClient` | the module of the TLC runs of `Client` with `Display` |
| `QueueLite` | the ring buffer: the operations on the structure |
| `QueuePool` | a ring with users who take resources and bring them back |
| `KernelCalls` | the kernel's calls statement by statement, on ring buffers; extends `Layout` and `QueueLite` |
| `AtomicKernel` | abstract: the same calls as single steps, made of `Kernel`'s operators |
| `PageAllocator` | abstract: what the system promises about pages |
| `Fifo` | abstract: what the queue promises |
| `LayoutLemmas` | lemmas about numbers and orders: rounding, wrapping, boot order, sequences |
| `RingLemmas` | lemmas about the ring buffer: places, pushes and pops, of any ring |
| `ClientProofs` | the inductive invariant of the shell and the theorems that follow from it |
| `MemoryProofs` | the counters, what is admitted and refused, every address backed, images reachable, `Client` implements `PageAllocator`, `sp` shows page tables as they are |
| `ImagesProofs` | `Images` implements `Client`; contents are kept, images restored and recognised |
| `QueueProofs` | the ring is well formed, conserves, and implements `Fifo` |
| `CallsProofs` | the invariant of the calls statement by statement: lists fit, one page moves |
| `AtomicProofs` | `KernelCalls` implements `AtomicKernel` |

The refinements: `KernelCalls` implements `AtomicKernel`, whose steps are those of
`Kernel`; `Client` is made of `Kernel`'s operators and implements `PageAllocator`;
`Images` implements `Client`; `QueuePool` implements `Fifo`.

### From code to model

- A command runs to its end before the next is read: it is **one action**, with all
  it calls. Its early returns are the `Refuse` disjuncts, its asserts and invalid
  accesses the `Die` disjuncts, in the order of the code.
- The free lists are **sequences** in `Kernel`, the head first. `KernelCalls` has the ring
  buffers the code has, and every statement that touches them: that its calls are the
  single steps of `Kernel` on sequences is `ImplementsAtomic`, and that nobody pushes
  onto a full ring, which `queue_push` does not prevent, is `RingsFit`.
- A `struct Process` exists exactly while its pid is out of `pidQueue`, and its PCB is
  `PCBs[pid]`: `procList` holds pids, and `procSize[pid]` is the process's size.
- `base_type` and `address_type` keep their **widths**, as the moduli `BASE_MOD` (2^16)
  and `ADDR_MOD` (2^32): `byte2Page`, `getUserRemainder`, `Need`, `PidArg` and
  `SizeArg` wrap where the code's expressions do.
- `mem_allocate_user(n)` writes one entry before its loop, so `PagesTaken(0) = 1`, while
  `user_used` grows by `n` pages.
- `destroyProcess` pushes the pid, then the pages in the order of their entries, then
  rebuilds the page table; `recyclePageElem`'s pushes onto the old table's ring, the
  first of them behind its buffer, are modelled in `KernelCalls` and gone with the table.
- `QueueLite` shows the ring's buffer with the one word behind it. What is written there is
  lost to the queue and, in the build, lands in what malloc rounds the request up to.
- In `KernelCalls` a call is a `call` record: where it stands and its locals. A step is a
  statement that changes the kernel's state, with the asserts in front of it in the order of
  evaluation (`queue_front(mem->mem_queue)` before those of `writePageTable`). Initialising a
  PCB and destroying a page table are one statement. `before` keeps what the kernel held when
  the call began; it is only read by the refinement.
- `sd` fills `size` bytes from the first page on as if the pages were contiguous. `Client` has
  the fill as far as it can leave the memory block (`fill_overrun`: the program dies,
  or it survives and goes on); `Images` has what it does to the bytes inside. It fills
  before it tries to open the file.
- `procAllocate`'s own assert on the size (`process.c:80`) stops the program in `KernelCalls`
  and `AtomicKernel` (`program_size`), whose callers may ask for any size; the check of
  `client_pa` (`client.c:375`) keeps the shell away from it.
- A **byte** of `Images` is a letter of the pattern or `Blank`: what malloc's block holds at
  first and what the files held before the program started. `Stored` and `Restored` go through
  the page table byte by byte; the code goes page by page, with the same addresses, as
  `SIZE_OF_PAGE` divides both. `Complains` is the comparison `ld` makes after loading. `written`,
  the files that `sd` has stored, is a history variable: no action reads it, the properties do.
- `ld` leaves a file that is too large open: `streams` counts them, up to `FOPEN_MAX`.
  Files are not written by anyone else.
- A typed argument that is not a number leaves `pid` and `size` as an earlier command set
  them; the commands take any typed pair, so this is among their inputs.
- `exit` destroys the listed processes and then the whole system; what it leaves is
  an empty state with `status = "exited"`.
- The fault `bad_page` stands for an assert of `getRealAddr` during `sd` or `ld`. No
  state reaches it; that is `ImagesReachable`.

## 3. Properties

| property | says |
|---|---|
| `TypeOK` | type invariant, with `user_used` within the user area although it is decreased by more than it was increased, `sys_used` within the system area, and no more streams lost than there are |
| `PageConservation` | every page is in `mem_queue` or in one entry of one page table, exactly once |
| `PidConservation` | a pid is in `pidQueue`, once, exactly while its PCB is idle |
| `ListedAreLive` | slots hold different, live processes: no command follows a freed pointer |
| `TablesDense` | page tables are used from entry 0 with no gap, the free entries queue up in order |
| `AddressesBacked` | every address below a process's size has a page; less than two pages are to spare |
| `UsedNeverOverstated` | `user_used` never counts a byte of a free page, so a request refused for space is one for all the free pages hold, or for more (for exactly that: section 6) |
| `FullMeansFull` | "number of processes is full" is only printed when no pid is free |
| `ImagesReachable` | `sd` and `ld` never trip the asserts of `getRealAddr` |
| `ImplementsAllocator` | the system is a `PageAllocator`: grants from the head of the free pages to the end of an address space, releases of whole spaces |
| `UsedExact` | for sizes of whole pages, `user_used` is exactly what is taken |
| `AdmittedIsGranted` | for such sizes, what passes the shell's checks never runs out of pages or entries: `cp` stops the program only when the system area is full, `ld` then or on an empty file, `pa` only when there is no process in the slot |
| `PageTableShown` | the lines of `sp` cover the logical pages in order, each once, each against its real page |
| `ContentsSurvive` | no command but `sd` changes a byte in the address space of a process that goes on living |
| `LoadRestores` | after `ld`, the new process reads back the image byte for byte |
| `StoredInARow` | an image stored from pages that follow one another is the pattern from end to end |
| `ImagesVerify` | what `sd` has stored is the pattern as far as the first page reaches, however short; files are as long as their images |
| `LoadAccepts` | `ld` does not complain of a file that `sd` has stored, if it is as long as the bytes that are compared |
| `OnePageMoves` | between any two statements every page is in one place, but for the one being moved |
| `RingsFit` | no list is pushed onto when it is full |
| `CallsReturn` | every kernel call ends, or an assert stops the program (liveness) |
| `ImplementsAtomic` | to its caller each kernel call is one step, the one `Kernel` says |
| `QueuePool!TypeOK` | the ring is well formed, its tail where its elements end |
| `QueuePool!PoolConserved` | the ring holds every resource that is not lent, once, and nothing else |
| `QueuePool!ImplementsFifo` | the ring buffer is a FIFO |

`QueuePool`'s users bring back what they have taken and nothing else, so none of them pushes onto
a full ring; that the kernel does not either is what `RingsFit` says, of its calls.

`UsedExact` and `AdmittedIsGranted` do not hold of other sizes: a request that fits
into the slack takes a page that is not counted (section 6), and the shell then
admits more than `mem_queue` or the page table can give.

*Fairness.* The shell may stay idle or exit at any time, so no command is fair. A kernel
call that has begun is another matter: it runs in the only thread, waits for nothing, and
every statement of it is executed once the one before it is. `KernelCalls!Spec` says so, with
weak fairness of `Step`, the statements of a call, and not of the beginnings of calls.
`CallsReturn` then depends on the loops: a turn of `mem_deallocate_all_user` that did not move
on (mutant `SameEntry`) breaks it.

## 4. Runs and bounds

| run | instance | distinct states | shows |
|---|---|---|---|
| `commands` | 3 pids, 4 pages, tables of 3 entries, sizes 0, 1, 5, 12, 13, 65 (wraps to 1), pids 0-3 and 16 (wraps to 0) | 124,747 | types, conservation, table of the shell, backing, counters |
| `files` | 2 pids, 3 pages, tables of 2, sizes of 2, 6 and 8 bytes; one file absent, empty, of 1 byte or too large at boot, one stream; 3 letters, 2 compared by `ld` | 180,466 | contents of pages and images, streams, refinement of `PageAllocator` |
| `aligned` | 3 pids, 5 pages out of order, tables of 3, sizes of 1 to 4 pages; one file absent, empty or of 2 pages at boot, one stream | 172,598 | exact accounting, admission, the page tables `sp` prints |
| `calls` | 2 pids, 4 pages, tables of 3, sizes of 0, 1, 5, 8 and 12 bytes, no checks of the shell in front | 187,745 | the calls statement by statement, refinement of `AtomicKernel`, termination |
| `queue_pool` | 4 resources | 3,549 | the ring buffer, refinement of `Fifo`, no deadlock |
| `slack_page`, `lost_process`, `null_process`, `pcb_space`, `wrong_process` | as `commands` | - | section 6 |
| `sd_fill` | as `files`, with 4 pages | - | section 6 |
| `queue_array` | 4 resources, filled from an array | - | section 6 |

*Units.* A page has 4 bytes and the unit of typed sizes (`KB`) is 1 byte, so that a
page is four units, as 4 KB pages are four KB: sizes with 0 to 3 units of slack all
occur. `BASE_MOD` is 16 and `ADDR_MOD` 64: like 2^32, which is 2^16 pages of 4 KB
times 16, `ADDR_MOD` is a multiple of `BASE_MOD` pages, so a wrapped need rounds to
0 pages or to `BASE_MOD` - 1 pages as in the program, and every page number and
entry still fits below `PAGE_NOT_USED`.

*Contents.* Three letters do not divide a page of four bytes, so a page that is filled, stored or
restored out of its place shows, as 26 letters do not divide 4096. `WINDOW` is the 52 bytes that `ld`
compares: within one page, as long as the shortest process `cp` creates, and longer than the one of
a single byte that `ld` makes of a file that was there before. Two
processes on three pages are enough for a process to get pages that are not in a row and that
another has filled; `sd_fill` has a fourth, so that the pages of a second process lie between.

*Why they are enough to be of interest.* Three processes are needed for slots and pids to
form a cycle, and four or five pages with tables of three for one process to run
out of entries while another runs out of pages. `sys_used` is never decreased, so
the system area bounds the number of loads; it is the bound of the search: four
loads in `commands` and in `aligned` (four bytes of system area are left at boot, a PCB takes one), three in `files` and in `calls`.
That is one more than there are pids, so a pid, its control block and its slot are reused. The area is finite in the program
too (7 MB of PCBs). Beyond the bounds stand the theorems.

`CHECK_DEADLOCK` is `FALSE` where the program really stops: at exit or a failed assert.
Out-of-order page numbers (`ORDER_MODE = FALSE`) are how the test program boots, and
runs `cp`, `pa` and `exit`, when built with `MEMORY_NOT_ORDER`; the shell itself passes `TYPE_TRUE`
(`client.c:523`), although `src/README.md:208` says the macro selects the order.

## 5. Proofs

The theorems of `ClientProofs` and `MemoryProofs` are about `Client!Spec`, under `KernelAssumption` and `ClientAssumption`,
which say that the constants are numbers of the right kind, that page numbers and
entry counts fit `base_type` below `PAGE_NOT_USED`, that the largest program can be
rounded up without a wrap, that `ADDR_MOD` is a multiple of `BASE_MOD` pages, and that what the
system area holds at boot fits into it. The program's constants satisfy them. All sizes typed and all files
are allowed, but for two theorems that name their restriction (`WholePageSizes`).

**The invariant.** `IInv` (in `ClientProofs`) is `TypeOK` (split into the kernel's and the
shell's part) together with `PageConservation`, `PidConservation`, `ListedAreLive`,
`TablesDense`, and two facts that no run needs by themselves but that no proof can
do without:
`UsedWholePages`, that `user_used` is a number of whole pages (so `getUserRemainder`'s
division does not round, and `user_used` cannot pass the area), and `PCBsKept`, that
an idle PCB has an empty table and a running one its own index as pid (so destroying
a process returns its own pid and pages, and a new process starts from entry 0).
Density says which entries `writePageTable` writes next: never ones in use.
`InitInvariant` and `NextInvariant` prove it, with one lemma per command
(`CpKeeps`, `DpKeeps`, `PaKeeps`, `SdKeeps`, `LdKeeps`, `ExitKeeps`) on top of one per
kernel operation (`GrantKeepsPages`, `ReleaseKeepsPages`, ...).

**What follows.** `KernelSteps` says that every step, seen from the kernel, is a load, a
growth, a destruction, the shutdown, or nothing. On it rest

- `AllocatorImplemented`: `Spec => PageAllocator!Spec` under the mapping free pages =
  `mem_queue`, space of `p` = the first `size` entries of its table;
- `UsedNotOverstated`: a grant takes at least the pages it counts, a release gives back
  at least what it takes off, unless `user_used` is 0 then. It does not say that a request for which
  there is space is granted: an exact fit is refused (section 6);
- `UsedIsExact`: under `WholePageSizes`, which says that typed sizes, and the files present at the
  start, are whole pages, no process ever has slack. This is the invariant `Exact`: a process's size is exactly that of its
  entries, so a growth asks for what it says, nobody takes the page of a grant of 0, and the bytes counted and
  the free pages add up to the area. `TypedSizes` and `KB` are constants: the program has typed sizes that are
  not whole pages too, and there the property fails (section 6);
- `AdmittedGranted`: then what the shell compares is what the kernel has,
  and none of the asserts on memory, entries or the free list can fail. It names what is left: the system
  area, which fills up as `sys_used` only grows (`pcb_space`), the empty file, and the empty slot
  (`null_process`). The case of `ld` needs `ImagesAreReachable`;
- `FullIsFull`: were a pid free while every slot is taken, as many different processes as
  slots would be listed without that pid; a pigeonhole argument with
  `PidConservation` and `ListedAreLive` excludes it;
- `AddressesAreBacked`: a second invariant, `Backed`, bounds each process's slack below
  two pages; `WrappedPages` computes that a need that wraps rounds to 0 pages or
  to 2^16 - 1, and the latter is never granted;
- `ImagesAreReachable`: from `Backed` and density;
- `TablesAreShown`: `Reached` is the invariant of `sp`'s loop: the lines printed so far cover the entries before the
  run that is being joined, and the run shows the rest. The library's induction theorems cannot be instantiated, so
  both that the recursive function `Loop` exists (`LoopTurns`) and that it keeps to `Reached` (`LoopReaches`) are shown by
  the least entry at which they would fail (`LeastExists`). `NeverEmpty` adds that there is an entry to begin with.

**Contents.** `ImagesRefineClient` carries the invariants of `Client` over to `ImagesSpec`, under
`ImagesAssumption` in addition. On them rest

- `ContentsAreKept`: a step that is not `sd` leaves the entries of a living process in place
  (`EntriesStay`), growth included, and `ld` writes only to pages that were free
  (`LoadSpares`, from `PageConservation`);
- `LoadsRestore`: two addresses of a process differ (`OneAddress`, from no page being mapped
  twice and `AddressParts`, which takes an address apart), so the copy through the page table
  reads back as the image;
- `ImagesAlwaysVerify`: what `sd` fills and what it stores agree at least in the first page
  (`FilledFirst`), and nothing else writes a file;
- `LoadsAccept`: the first page of a process is in one piece (`FirstPage`), and the window lies in it, so
  what `ld` compares is the beginning of the image, which the two theorems before this one know;
- `RowsStoreThePattern`: pages that follow one another are counted from the first (`RowCounts`: an
  entry that is not would have a least one), so byte *k* lies *k* behind the first (`RowAddress`)
  and the fill reaches every byte that is stored (`FilledInARow`). `sd_fill` shows that the
  premise is needed.

**The ring.** `QueueProofs` is about a ring created empty (`~FROM_ARRAY`), for every capacity.
The indices are remainders; `Place` turns each into one comparison, `OneFurther` and
`PlacesDiffer` are all the arithmetic the rest needs; they and the effect of a push and a pop on
any well-formed ring are in `RingLemmas`, which the proofs about the calls use too. `Room` is the heart: as the elements are
different resources that are not lent, a ring of as many words as resources has a free word while
one is lent, so no push finds it full. `RingTyped`, `RingConserves` and `RingIsFifo` follow.

**The calls.** `CallsProofs` and `AtomicProofs` are about `KernelCalls!Spec` under `KernelAssumption`
and `CallSizesAssumption`: a call may ask for any size that a page table can map. The properties hold between any two statements, so the invariant has
to say where a call stands. `CallsInv` has these parts:

- `FreeRing`, `PidRing`: the two rings are well formed, their elements differ, the word behind is untouched;
- `EntriesUsed`, `EntriesListed`: a process uses the first entries of its table, and its list of entries
  stands where as many pops have left it; one that is being taken apart has given back the entries
  up to `call.i`. Its list is the only ring that is pushed onto with its tail out of place, so it is
  described through its buffer instead of as a well-formed ring;
- `MappedOnce`, `FreeOrMapped`, `FreeAndMapped`: a page is in one entry at most, nowhere lost, and free
  and mapped only between the two statements that move it (`Moving`);
- `FreePids`: a pid is listed exactly while its PCB is idle or being taken apart;
- `CallTyped`, `MoveTyped`, `PCBsTyped`: the program counter with what it has checked: a page that
  has been written has not been popped yet.

The parts need each other: that a push of a page finds room (`RingsAlwaysFit`) needs that the
page is not listed, which needs that it is mapped, once, by an entry that is still to be given back.
`OnePageAlwaysMoves` counts the two homes of a page from the same facts.

`CallsAreAtomic` is the refinement, `Spec => ImplementsAtomic`, with each call's last statement as its one step.
Its invariant `History` compares the state with `before`, the state the call began in, as a function of `call`:
`AllocateBegun` says that the first `Written` pages of the old list are in the entries behind those in use and the
rest are still listed, `DestroyBegun` that the first `Gone` entries have been appended to the list, `LoadBegun` and
`GrowBegun` what has become of pid, counters and need. At the last statement these are what `Load`, `Grow` and
`Destroy` of `Kernel` say at once (`ResizeIsCall`, `RebuildIsCall`); where an assert fails, the operators of
`Kernel` find the same fault in the state before (`LoadStops`, `AllocateStops`); every other statement changes
nothing the caller sees. So the theorems about the shell, whose actions are made of these operators, are about the
code's loops.

**Only model-checked.** `CallsReturn`, which is liveness, out of the prover's reach; and the ring created from an array
(`FROM_ARRAY`), which is a counterexample. Nothing uses RECURSIVE operators.

## 6. Where the code does not do what it says

| run | what happens |
|---|---|
| `slack_page` | `need = size - free` (`process.c:83`) wraps when the request fits into the free bytes of the process's pages, and takes a page; the README's own example (5 KB, then 2 KB) takes a third page. With a page or more of slack the program stops at an assert. |
| `lost_process` | `dp` clears `procList[pid]` after it has cleared the slot it found (`client.c:344`): another process may live there. After `cp`, `dp 0`, `cp`, `cp` the processes of pids 1 and 2 are in slots 0 and 1; `dp 1` destroys the one and drops the other, which keeps its pid and pages, and `exit` does not find it. |
| `null_process` | `pa` follows `procList[pid]` before it checks it (`client.c:366`). |
| `wrong_process` | `pa` takes the typed pid for the number of a slot (`client.c:386`; `sd` and `sp` do the same, `dp` does not): after `cp`, `dp 0`, `cp` the process in slot 0 has pid 1, and `pa 0` grows it. |
| `sd_fill` | `sd` fills the pages behind the process's first one (`client.c:413`), whoever has them, and stores the process's own, which it has not filled: after `ld`, `cp` of two pages, `pa` of the first process, the image of that process is not the pattern its comment announces, and the other process's first page has been overwritten. |
| `pcb_space` | what `loadProgram` adds to `sys_used` is never taken off. |
| `queue_array` | `initQueueByArray` leaves the tail one past a full buffer (`queueLite.c:108`). In the shell the damage is one word behind the buffer, within what malloc rounds the request up to, since the table is rebuilt; a caller that kept the table would get an entry that is in use. |

Four more divergences are in the models as they are in the code, and limit what the properties say:

- *Exact fit.* `cp` refuses a request for exactly what is free (`<=`, `client.c:301`; the first check of
  `pa` too, `client.c:366`) and says that space is not enough; the later check of `pa` (`client.c:379`)
  and that of `ld` (`process.c:189`) would let it through. So `UsedNeverOverstated` does not mean that a
  request for which there is space is granted.
- *Wrapped arguments.* Sizes are cut to 32 bits and pids to 16 before they are checked (`client.c:561`,
  `568`): `cp 4194305` creates a process of 1 KB, `dp 65536` destroys process 0. `commands` types such
  numbers (65 and 16): its properties hold of what is left of them.
- *Lost streams.* `ld` of a file that is too large returns before `fclose` (`process.c:189`). After as many
  of them as there are streams, `sd` fails for every process and `ld` for every file. `TypeOK` of `files`
  says that no more are lost than there are.
- *Short images.* `ld` compares 52 bytes however short the image is (`client.c:461`). An image under 52
  bytes, which `sd` writes of a process that `ld` made of a short file (`procImage/README.md` has 18
  bytes), is restored byte for byte, and "load program error!" is printed for what lies behind it.
  `LoadAccepts` is therefore about images that fill the window; the files of `files` include one that
  does not.

`src/client/src/test.c` looks at none of the runs' cases, though it meets two. After `dp 1` and fifteen `cp`
(lines 425-431) every process from slot 6 on has a pid that is not its slot's number: `dp 10` and
`dp 19` (lines 434-435) then drop the processes of pids 11 and 1 from the table, and the list that
"should be empty" at line 455 is, with processes still alive. Booted with `MEMORY_NOT_ORDER`, the
image that line 408 stores is not the pattern line 406 expects, as no two pages of process 0 follow
one another. Otherwise no request there follows one that left slack, `pa` is only called on
processes that exist, and nobody looks at `sys_used` or at a queue that was full from an array.

## 7. Not modelled, and why

- `help`, `ls`, `ss` and what `sp` prints besides the page table: they print stored values.
- Prompts, colours, reading and splitting the command line. At the end of the input the loop
  repeats the last command for ever (`client.c:545`); each repetition is a legal command.
- `malloc` failing: every caller asserts. `fwrite` failing: how much of the image arrives is up
  to the file system.
- The one byte `fread` may read past its buffer, and the buffers `ld` does not free.
- `memOpt`, `memRead`, `memWrite`: `memOpt` refuses the legal ranges and moves the others, with
  source and destination swapped. The shell and the kernel do not call them, and the test program's
  check compares with `(base_type)(64 * 1024)`, which is 0.
- `procDeallocate`: "unfinished, do not call" (`process.c:100`); the test program does, once. It
  rounds the end of a range up to the page behind the one it means. There is no promise to hold it to.
- `setUserUsed`, `setProcPCB`, `resetQueueSize`: called by nobody.
- `mem_deallocate_user` on its own: only `mem_deallocate_all_user` calls it, which is modelled with it.

## 8. Plan

Done: all modules of section 2 and their runs; every invariant, action property and refinement that a passing
run checks is a theorem.
