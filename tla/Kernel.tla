------------------------------- MODULE Kernel -------------------------------
(***************************************************************************)
(* The simulated kernel: struct Memory, struct TinySystem, the process     *)
(* control blocks with their page tables, and struct Process, together     *)
(* with the kernel functions the command shell calls.                      *)
(*                                                                         *)
(* The three free lists are QueueLite queues.  Here they are sequences,    *)
(* the head first, and each call is one step; KernelCalls.tla shows that   *)
(* the calls on the ring buffers, statement by statement, come to this.    *)
(*                                                                         *)
(* A process object exists exactly while the pid it was given is out of    *)
(* pidQueue, and its pcb is always &PCBs[pid]: the model names a process   *)
(* by its pid, and keeps struct Process's size in procSize[pid].           *)
(***************************************************************************)
EXTENDS Layout

VARIABLES
  mem_queue,   \* struct Memory: the free page numbers
  user_used,   \* struct Memory: bytes of the user area counted as used
  sys_used,    \* struct Memory: bytes of the system area counted as used
  pidQueue,    \* struct TinySystem: the free pids
  PCBs,        \* struct TinySystem: the control block of each pid
  procSize     \* struct Process: its size in bytes, 0 where no process is

kernelVars == <<mem_queue, user_used, sys_used, pidQueue, PCBs, procSize>>

-----------------------------------------------------------------------------
(* Page tables and control blocks. *)

EmptyTable ==
  [table |-> [i \in Entries |-> PAGE_NOT_USED],
   size  |-> 0,
   queue |-> [k \in 1 .. PAGE_CAPACITY |-> k - 1]]

IdlePCB == [pid |-> MAX_PID, status |-> "Undefined", page_table |-> EmptyTable]

Running(p) == PCBs[p].pid # MAX_PID

\* The entries mem_deallocate_all_user finds in use.
Mapped(pt) == {i \in Entries : pt.table[i] # PAGE_NOT_USED}

\* Mutant: the entries are written but only one is counted.
WriteCountsOnce(pt, n) ==
  [table |-> [i \in Entries |->
                IF \E k \in 1 .. n : pt.queue[k] = i
                THEN mem_queue[CHOOSE k \in 1 .. n : pt.queue[k] = i]
                ELSE pt.table[i]],
   size  |-> pt.size + 1,
   queue |-> SubSeq(pt.queue, n + 1, Len(pt.queue))]

(* n calls of writePageTable, each with the page at the head of mem_queue, *)
(* each followed by queue_pop(mem_queue).                                  *)
WritePageTable(pt, n) ==
  [table |-> [i \in Entries |->
                IF \E k \in 1 .. n : pt.queue[k] = i
                THEN mem_queue[CHOOSE k \in 1 .. n : pt.queue[k] = i]
                ELSE pt.table[i]],
   size  |-> pt.size + n,
   queue |-> SubSeq(pt.queue, n + 1, Len(pt.queue))]

KernelInit ==
  /\ mem_queue = SortedBy(UserPages, BootKey)
  /\ user_used = 0
  /\ sys_used  = SYS_USED_AT_BOOT
  /\ pidQueue  = [k \in 1 .. MAX_PID |-> k - 1]
  /\ PCBs      = [p \in Pids |-> IdlePCB]
  /\ procSize  = [p \in Pids |-> 0]

-----------------------------------------------------------------------------
(* The memory calls.  A fault is the label of the assert that stops the    *)
(* program; "none" means the call goes through.                            *)

getUserRemainder ==
  (NUM_OF_PAGE_FOR_USER - user_used \div SIZE_OF_PAGE) % BASE_MOD

\* mem_allocate_user(n) writes one entry before its loop starts at 1: it takes
\* a page even when n is 0, and counts n pages in user_used.
PagesTaken(n) == IF n = 0 THEN 1 ELSE n

AllocateFault(p, n) ==
  LET pt == PCBs[p].page_table
      m  == PagesTaken(n)
  IN  CASE n > getUserRemainder -> "remainder"
        [] /\ n <= getUserRemainder
           /\ m <= Len(mem_queue)
           /\ m <= Len(pt.queue)
           /\ pt.size + m - 1 <= PAGE_CAPACITY -> "none"
        [] /\ n <= getUserRemainder
           /\ m > Len(mem_queue)
           /\ Len(mem_queue) <= Len(pt.queue) -> "mem_queue"
        [] OTHER -> "page_table"

\* Mutant: the page taken before the loop is not popped when n is 0.
TakeCounted(n) ==
  /\ mem_queue' = SubSeq(mem_queue, n + 1, Len(mem_queue))
  /\ user_used' = user_used + n * SIZE_OF_PAGE

\* Mutant: one page is counted whatever n is.
TakeCountsOnce(n) ==
  /\ mem_queue' = SubSeq(mem_queue, PagesTaken(n) + 1, Len(mem_queue))
  /\ user_used' = user_used + SIZE_OF_PAGE

\* What mem_allocate_user(mem, &PCBs[p], n) does to struct Memory, and the page
\* table it leaves in the PCB.
TakePages(n) ==
  /\ mem_queue' = SubSeq(mem_queue, PagesTaken(n) + 1, Len(mem_queue))
  /\ user_used' = user_used + n * SIZE_OF_PAGE

GrownTable(p, n) == WritePageTable(PCBs[p].page_table, PagesTaken(n))

\* creatProcess on a free pid p, then loadProgram(proc, bytes).
LoadFault(p, bytes) ==
  CASE bytes = 0 -> "empty_program"
    [] bytes # 0 /\ sys_used + SIZE_OF_PCB > USER_ADDR_OFFSET -> "sys_used"
    [] OTHER -> AllocateFault(p, byte2Page(bytes))

\* Mutant: setPCBPid is forgotten.
UnregisteredPCB(p, n) ==
  [pid |-> MAX_PID, status |-> "Ready", page_table |-> GrownTable(p, n)]

ReadyPCB(p, n) ==
  [pid |-> p, status |-> "Ready", page_table |-> GrownTable(p, n)]

Load(p, bytes) ==
  /\ pidQueue' = Tail(pidQueue)
  /\ sys_used' = sys_used + SIZE_OF_PCB
  /\ TakePages(byte2Page(bytes))
  /\ PCBs' = [PCBs EXCEPT ![p] = ReadyPCB(p, byte2Page(bytes))]
  /\ procSize' = [procSize EXCEPT ![p] = bytes]

\* Mutant: the copying loop runs one byte too far.
TranslatesInclusive(pt, bytes) ==
  \A addr \in 0 .. bytes :
    LET i == addr \div SIZE_OF_PAGE
    IN  i < pt.size /\ pt.table[i] # PAGE_NOT_USED

\* getRealAddr answers for every address below bytes: its asserts hold there.
Translates(pt, bytes) ==
  \A addr \in 0 .. bytes - 1 :
    LET i == addr \div SIZE_OF_PAGE
    IN  i < pt.size /\ pt.table[i] # PAGE_NOT_USED

\* readProcFromDisk loads as loadProgram does, then copies the image in.
ReadFault(p, bytes) ==
  IF /\ LoadFault(p, bytes) = "none"
     /\ ~Translates(GrownTable(p, byte2Page(bytes)), bytes)
  THEN "bad_page"
  ELSE LoadFault(p, bytes)

\* procAllocate: the unsigned difference between what is asked for and what the
\* process's pages still have free; nothing is allocated when it is 0.
PagesFree(p) == PCBs[p].page_table.size * SIZE_OF_PAGE - procSize[p]
Need(p, bytes) == (bytes - PagesFree(p)) % ADDR_MOD

GrowFault(p, bytes) ==
  IF Need(p, bytes) = 0 THEN "none" ELSE AllocateFault(p, byte2Page(Need(p, bytes)))

Grow(p, bytes) ==
  /\ IF Need(p, bytes) = 0
     THEN UNCHANGED <<mem_queue, user_used, PCBs>>
     ELSE LET n == byte2Page(Need(p, bytes))
          IN  /\ TakePages(n)
              /\ PCBs' = [PCBs EXCEPT ![p].page_table = GrownTable(p, n)]
  /\ procSize' = [procSize EXCEPT ![p] = @ + bytes]
  /\ UNCHANGED <<sys_used, pidQueue>>

\* Mutant: the loop stops one entry early.
ReturnedButLast(pt) ==
  LET live == SortedBy(Mapped(pt) \ {PAGE_CAPACITY - 1}, [i \in Entries |-> i])
  IN  [k \in DOMAIN live |-> pt.table[live[k]]]

\* The pages mem_deallocate_all_user pushes, in the order of their entries.
ReturnedPages(pt) ==
  LET live == SortedBy(Mapped(pt), [i \in Entries |-> i])
  IN  [k \in DOMAIN live |-> pt.table[live[k]]]

\* Mutant: unsigned subtraction without MIN.
UsedWrapped(pages) == (user_used - pages * SIZE_OF_PAGE) % ADDR_MOD

\* Mutant: the pages are returned but only one is taken off.
UsedAfterOne(pages) ==
  IF user_used < SIZE_OF_PAGE THEN 0 ELSE user_used - SIZE_OF_PAGE

\* user_used after `pages' times user_used -= MIN(user_used, SIZE_OF_PAGE).
UsedAfter(pages) ==
  IF user_used < pages * SIZE_OF_PAGE THEN 0 ELSE user_used - pages * SIZE_OF_PAGE

\* destroyProcess: the pid, then the pages, then a fresh page table in the PCB.
Destroy(p) ==
  LET returned == ReturnedPages(PCBs[p].page_table)
  IN  /\ pidQueue'  = Append(pidQueue, PCBs[p].pid)
      /\ mem_queue' = mem_queue \o returned
      /\ user_used' = UsedAfter(Len(returned))
      /\ PCBs'      = [PCBs EXCEPT ![p] = IdlePCB]
      /\ procSize'  = [procSize EXCEPT ![p] = 0]
      /\ UNCHANGED sys_used

-----------------------------------------------------------------------------
(* The shape of page tables and control blocks. *)

PageTables ==
  [table : [Entries -> UserPages \cup {PAGE_NOT_USED}], size : 0 .. PAGE_CAPACITY,
   queue : Seq(Entries)]

ControlBlocks ==
  [pid : Pids \cup {MAX_PID}, status : {"Ready", "Undefined"}, page_table : PageTables]

\* Entries are used from the first on with no gap, and the queue holds the
\* others in order.
Dense(pt) ==
  /\ Mapped(pt) = {i \in Entries : i < pt.size}
  /\ Len(pt.queue) = PAGE_CAPACITY - pt.size
  /\ \A k \in DOMAIN pt.queue : pt.queue[k] = pt.size + k - 1

=============================================================================
