---------------------------- MODULE KernelCalls ----------------------------
(***************************************************************************)
(* The kernel's calls statement by statement, on the ring buffers the free *)
(* lists really are: creatProcess with loadProgram, procAllocate, and      *)
(* destroyProcess, down to the loops of mem_allocate_user and              *)
(* mem_deallocate_all_user.  One call runs at a time; `call' is where it   *)
(* stands and what its local variables hold.                               *)
(*                                                                         *)
(* The program has one thread: nobody looks at the states between two      *)
(* statements but the statements themselves.  They are here because the    *)
(* loops work on them, and because what a call does as a whole is shown    *)
(* from them.                                                              *)
(***************************************************************************)
EXTENDS Layout, QueueLite

CONSTANT CallSizes   \* the sizes in bytes a caller asks for

ASSUME CallSizesAssumption == CallSizes \subseteq 0 .. MAX_SIZE_OF_PROGRAM

VARIABLES
  mem_queue,   \* struct Memory: the ring of free page numbers
  user_used,   \* struct Memory
  sys_used,    \* struct Memory
  pidQueue,    \* struct TinySystem: the ring of free pids
  PCBs,        \* struct TinySystem
  procSize,    \* struct Process: its size by pid
  status,      \* "running", or the assert that stopped the program
  call,        \* the call being executed
  before       \* what the kernel held when the call began (a history variable)

memVars == <<mem_queue, user_used, sys_used>>
vars    == <<memVars, pidQueue, PCBs, procSize, status, call, before>>

-----------------------------------------------------------------------------
(* Data structures. *)

creatPageTbale ==
  [table |-> [i \in Entries |-> PAGE_NOT_USED],
   size  |-> 0,
   queue |-> initQueueByArray(creatQueue(PAGE_CAPACITY), [k \in 1 .. PAGE_CAPACITY |-> k - 1])]

\* Mutant: the page table of the last process is kept.
KeptTable(pcb) == [pid |-> MAX_PID, status |-> "Undefined", page_table |-> pcb.page_table]

initPCB(pcb) == [pid |-> MAX_PID, status |-> "Undefined", page_table |-> creatPageTbale]

writePageTable(pt, value) ==
  [table |-> [pt.table EXCEPT ![queue_front(pt.queue)] = value],
   size  |-> pt.size + 1,
   queue |-> queue_pop(pt.queue)]

\* Mutant: the logical page number.
LogicalPage(pt, index) == index

getValueInPageTable(pt, index) == pt.table[index]

\* Mutant: every entry is taken to be in use.
AnyEntry(pt, index) == index \in Entries

InUse(pt, index) == getValueInPageTable(pt, index) # PAGE_NOT_USED

recyclePageElem(pt, index) ==
  [table |-> IF InUse(pt, index) THEN [pt.table EXCEPT ![index] = PAGE_NOT_USED] ELSE pt.table,
   size  |-> (pt.size - 1) % BASE_MOD,
   queue |-> IF InUse(pt, index) THEN queue_push(pt.queue, index) ELSE pt.queue]

\* The ring after its elements have been pushed one by one.
Pushed(size, elements) ==
  LET ring == initQueueByArray(creatQueue(size), elements)
  IN  [ring EXCEPT !.tail = Len(elements) % size]

-----------------------------------------------------------------------------
(* Calls. *)

NoCall == [at |-> "idle", proc |-> 0, bytes |-> 0, n |-> 0, i |-> 0]

\* What a caller sees of the kernel between two calls.
Seen ==
  [mem_queue |-> Elements(mem_queue), user_used |-> user_used, sys_used |-> sys_used,
   pidQueue |-> Elements(pidQueue), procSize |-> procSize,
   PCBs |-> [p \in Pids |->
     [PCBs[p] EXCEPT !.page_table =
        [table |-> @.table, size |-> @.size, queue |-> Elements(@.queue)]]]]

Table == PCBs[call.proc].page_table

At(place) == status = "running" /\ call.at = place

GoTo(place) == call' = [call EXCEPT !.at = place] /\ UNCHANGED <<status, before>>

Stop(fault) ==
  /\ status' = fault
  /\ UNCHANGED <<memVars, pidQueue, PCBs, procSize, call, before>>

Begin(place, p, bytes, n) ==
  /\ At("idle")
  /\ call' = [at |-> place, proc |-> p, bytes |-> bytes, n |-> n, i |-> 0]
  /\ before' = Seen
  /\ UNCHANGED status

Return ==
  /\ call' = NoCall
  /\ before' = <<>>
  /\ UNCHANGED status

Init ==
  /\ mem_queue = Pushed(NUM_OF_PAGE_FOR_USER, SortedBy(UserPages, BootKey))
  /\ user_used = 0
  /\ sys_used = SYS_USED_AT_BOOT
  /\ pidQueue = Pushed(MAX_PID, [k \in 1 .. MAX_PID |-> k - 1])
  /\ PCBs = [p \in Pids |->
               [pid |-> MAX_PID, status |-> "Undefined", page_table |-> creatPageTbale]]
  /\ procSize = [p \in Pids |-> 0]
  /\ status = "running"
  /\ call = NoCall
  /\ before = <<>>

\* creatProcess: the pid is taken and the control block marked before anything
\* about the size is looked at.
BeginLoad(bytes) ==
  LET pid == queue_front(pidQueue)
  IN  /\ ~queue_empty(pidQueue)
      /\ Begin("loadProgram", pid, bytes, byte2Page(bytes))
      /\ pidQueue' = queue_pop(pidQueue)
      /\ PCBs' = [PCBs EXCEPT ![pid].status = "Ready", ![pid].pid = pid]
      /\ UNCHANGED <<memVars, procSize>>

loadProgram ==
  /\ At("loadProgram")
  /\ \/ call.bytes = 0 /\ Stop("empty_program")
     \/ /\ call.bytes # 0 /\ sys_used + SIZE_OF_PCB > USER_ADDR_OFFSET
        /\ Stop("sys_used")
     \/ /\ call.bytes # 0 /\ sys_used + SIZE_OF_PCB <= USER_ADDR_OFFSET
        /\ sys_used' = sys_used + SIZE_OF_PCB
        /\ GoTo("allocate")
        /\ UNCHANGED <<mem_queue, user_used, pidQueue, PCBs, procSize>>

\* procAllocate: its assert on what a page table can map, which the shell's check
\* of a process's size keeps true.
GrowTooFar(p, bytes) ==
  /\ At("idle")
  /\ PCBs[p].pid # MAX_PID
  /\ bytes > MAX_SIZE_OF_PROGRAM - procSize[p]
  /\ Stop("program_size")

\* procAllocate: what is missing is allocated first, if anything is.
BeginGrow(p, bytes) ==
  LET free == PCBs[p].page_table.size * SIZE_OF_PAGE - procSize[p]
      need == (bytes - free) % ADDR_MOD
  IN  /\ PCBs[p].pid # MAX_PID
      /\ bytes <= MAX_SIZE_OF_PROGRAM - procSize[p]
      /\ Begin(IF need > 0 THEN "allocate" ELSE "resize", p, bytes, byte2Page(need))
      /\ UNCHANGED <<memVars, pidQueue, PCBs, procSize>>

-----------------------------------------------------------------------------
(* mem_allocate_user(mem, pcb, n) *)

Remainder == (NUM_OF_PAGE_FOR_USER - user_used \div SIZE_OF_PAGE) % BASE_MOD

Allocate ==
  /\ At("allocate")
  /\ \/ call.n > Remainder /\ Stop("remainder")
     \/ /\ call.n <= Remainder
        /\ GoTo("write")
        /\ UNCHANGED <<memVars, pidQueue, PCBs, procSize>>

\* The argument queue_front(mem->mem_queue) is evaluated, with its assert,
\* before the asserts of writePageTable.
Write ==
  /\ At("write")
  /\ \/ queue_empty(mem_queue) /\ Stop("mem_queue")
     \/ /\ ~queue_empty(mem_queue)
        /\ Table.size > PAGE_CAPACITY \/ queue_empty(Table.queue)
        /\ Stop("page_table")
     \/ /\ ~queue_empty(mem_queue)
        /\ Table.size <= PAGE_CAPACITY /\ ~queue_empty(Table.queue)
        /\ PCBs' = [PCBs EXCEPT ![call.proc].page_table =
                      writePageTable(@, queue_front(mem_queue))]
        /\ GoTo("pop")
        /\ UNCHANGED <<memVars, pidQueue, procSize>>

\* The loop counts from 1: the first page is written before it.
Pop ==
  /\ At("pop")
  /\ mem_queue' = queue_pop(mem_queue)
  /\ call' = [call EXCEPT !.i = @ + 1, !.at = IF call.i + 1 < call.n THEN "write" ELSE "count"]
  /\ UNCHANGED <<user_used, sys_used, pidQueue, PCBs, procSize, status, before>>

Count ==
  /\ At("count")
  /\ user_used' = user_used + call.n * SIZE_OF_PAGE
  /\ GoTo("resize")
  /\ UNCHANGED <<mem_queue, sys_used, pidQueue, PCBs, procSize>>

\* The end of loadProgram, where the size was 0, and of procAllocate.
Resize ==
  /\ At("resize")
  /\ procSize' = [procSize EXCEPT ![call.proc] = @ + call.bytes]
  /\ Return
  /\ UNCHANGED <<memVars, pidQueue, PCBs>>

-----------------------------------------------------------------------------
(* destroyProcess; the loop is that of mem_deallocate_all_user, its body   *)
(* is mem_deallocate_user of the entry i.                                  *)

BeginDestroy(p) ==
  /\ PCBs[p].pid # MAX_PID
  /\ Begin("scan", p, 0, 0)
  /\ pidQueue' = queue_push(pidQueue, PCBs[p].pid)
  /\ UNCHANGED <<memVars, PCBs, procSize>>

\* Mutant: an entry that is not in use is looked at again.
SameEntry(pt, i) == IF InUse(pt, i) THEN i + 1 ELSE i

NextEntry(pt, i) == i + 1

Scan ==
  /\ At("scan")
  /\ \/ /\ call.i = PAGE_CAPACITY
        /\ GoTo("rebuild")
        /\ UNCHANGED mem_queue
     \/ /\ call.i < PAGE_CAPACITY /\ ~InUse(Table, call.i)
        /\ call' = [call EXCEPT !.i = NextEntry(Table, @)]
        /\ UNCHANGED <<mem_queue, status, before>>
     \/ /\ call.i < PAGE_CAPACITY /\ InUse(Table, call.i)
        /\ mem_queue' = queue_push(mem_queue, getValueInPageTable(Table, call.i))
        /\ GoTo("recycle")
  /\ UNCHANGED <<user_used, sys_used, pidQueue, PCBs, procSize>>

Recycle ==
  /\ At("recycle")
  /\ PCBs' = [PCBs EXCEPT ![call.proc].page_table = recyclePageElem(@, call.i)]
  /\ GoTo("discount")
  /\ UNCHANGED <<memVars, pidQueue, procSize>>

Discount ==
  /\ At("discount")
  /\ user_used' = IF user_used < SIZE_OF_PAGE THEN 0 ELSE user_used - SIZE_OF_PAGE
  /\ call' = [call EXCEPT !.i = @ + 1, !.at = "scan"]
  /\ UNCHANGED <<mem_queue, sys_used, pidQueue, PCBs, procSize, status, before>>

Rebuild ==
  /\ At("rebuild")
  /\ PCBs' = [PCBs EXCEPT ![call.proc] = initPCB(@)]
  /\ procSize' = [procSize EXCEPT ![call.proc] = 0]
  /\ Return
  /\ UNCHANGED <<memVars, pidQueue>>

-----------------------------------------------------------------------------
\* The statements of a call.
Step ==
  \/ loadProgram
  \/ Allocate \/ Write \/ Pop \/ Count \/ Resize
  \/ Scan \/ Recycle \/ Discount \/ Rebuild

Next ==
  \/ \E bytes \in CallSizes : BeginLoad(bytes)
  \/ \E p \in Pids, bytes \in CallSizes : GrowTooFar(p, bytes)
  \/ \E p \in Pids, bytes \in CallSizes : BeginGrow(p, bytes)
  \/ \E p \in Pids : BeginDestroy(p)
  \/ Step

\* A call that has begun is executed: nothing else runs, and no statement of it
\* waits.  Nobody has to make another call.
Spec == Init /\ [][Next]_vars /\ WF_vars(Step)

-----------------------------------------------------------------------------
(* Properties. *)

\* No push ever finds the page list or the pid list full, so that its word
\* behind the buffer stays untouched, and no page table's list is ever counted
\* past its capacity: queue_push would not refuse.
RingsFit ==
  /\ \A ring \in {mem_queue, pidQueue} :
       ring.size <= ring.capacity /\ ring.ptr[ring.capacity] = UNSET
  /\ \A p \in Pids : PCBs[p].page_table.queue.size <= PAGE_CAPACITY

\* Between any two statements every page is in the free list or in a page
\* table, and only the page that is being moved is in both.
Homes(page) ==
  Cardinality({k \in 1 .. mem_queue.size : Entry(mem_queue, k) = page})
  + Cardinality({h \in Pids \X Entries : PCBs[h[1]].page_table.table[h[2]] = page})

InTransit(page) ==
  \/ call.at = "pop" /\ page = queue_front(mem_queue)
  \/ call.at = "recycle" /\ page = getValueInPageTable(Table, call.i)

OnePageMoves ==
  \A page \in UserPages : Homes(page) = IF InTransit(page) THEN 2 ELSE 1

\* Every call comes to its end, or to an assert that stops the program.
CallsReturn == call.at # "idle" ~> call.at = "idle" \/ status # "running"

\* To its caller each call is one step: it does what the operators of Kernel
\* say, with the same assert stopping the program, and between calls the rings
\* are the sequences of Kernel.
Settled == IF call.at = "idle" THEN Seen ELSE before

Atomic == INSTANCE AtomicKernel
  WITH mem_queue <- Settled.mem_queue, user_used <- Settled.user_used,
       sys_used <- Settled.sys_used, pidQueue <- Settled.pidQueue,
       PCBs <- Settled.PCBs, procSize <- Settled.procSize

ImplementsAtomic == Atomic!AtomicSpec

=============================================================================
