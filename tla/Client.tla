------------------------------- MODULE Client -------------------------------
(***************************************************************************)
(* The command shell: one action per command that changes state.  A        *)
(* command runs to its end before the next is read, so it is one step;     *)
(* `reply' is the message it prints, `status' is "running" until exit or   *)
(* until an assert fails or memory is accessed through a bad pointer, when *)
(* it names the fault.                                                     *)
(*                                                                         *)
(* The shell's table procList is indexed by slot.  client_creatProcess     *)
(* fills the first empty slot whatever pid the process gets; pa, sd and sp *)
(* use the pid they are given as a slot; dp looks the pid up.              *)
(***************************************************************************)
EXTENDS Kernel

CONSTANTS
  KB,          \* bytes in the unit of the size arguments (1024)
  FOPEN_MAX,   \* streams the process can still open at boot
  NULL,        \* an empty slot of procList, an absent file
  FileNames,   \* names under procImage/
  FileSizes,   \* sizes a file there may have before the program starts
  TypedPids,   \* the numbers typed as a pid
  TypedSizes   \* the numbers typed as a size in KB

ASSUME ClientAssumption ==
  /\ KB \in Nat \ {0}
  /\ FOPEN_MAX \in Nat
  /\ NULL \notin Int
  /\ FileSizes \subseteq Nat
  /\ TypedPids \subseteq Nat
  /\ TypedSizes \subseteq Nat

VARIABLES
  procList,    \* the shell's process table: a pid or NULL, by slot
  disk,        \* size of each file, or NULL
  streams,     \* streams left open by failed loads
  status,
  reply

shellVars == <<procList, disk, streams, status, reply>>
vars == <<kernelVars, shellVars>>

Slots  == Pids
Faults == {"remainder", "mem_queue", "page_table", "sys_used",
           "empty_program", "null_process", "fill_overrun", "bad_page"}
Replies == {"", "success", "pid is unvalid", "size is unvalid",
            "space is not enough", "processes is full", "process not exist",
            "store failed", "load failed"}

\* Both arguments are converted on the way in: (base_type)pid, and
\* (address_type)(size * _KB).
PidArg(typed)  == typed % BASE_MOD
SizeArg(typed) == (typed * KB) % ADDR_MOD

EmptySlots == {i \in Slots : procList[i] = NULL}
FirstEmpty == CHOOSE i \in EmptySlots : \A j \in EmptySlots : i <= j
Listed     == {procList[i] : i \in Slots \ EmptySlots}

Init ==
  /\ KernelInit
  /\ procList = [i \in Slots |-> NULL]
  /\ disk \in [FileNames -> FileSizes \cup {NULL}]
  /\ streams = 0
  /\ status = "running"
  /\ reply = ""

-----------------------------------------------------------------------------
(* How a command ends. *)

\* It prints a refusal and changes nothing.
Refuse(message) ==
  /\ reply' = message
  /\ UNCHANGED <<kernelVars, procList, disk, streams, status>>

\* It kills the program.
Die(fault) ==
  /\ status' = fault
  /\ reply' = ""
  /\ UNCHANGED <<kernelVars, procList, disk, streams>>

\* creatProcess and loadProgram with the pid at the head of pidQueue, into the
\* first empty slot; fault is what stops them.
Start(bytes, fault) ==
  \/ /\ fault # "none"
     /\ Die(fault)
  \/ /\ fault = "none"
     /\ Load(Head(pidQueue), bytes)
     /\ procList' = [procList EXCEPT ![FirstEmpty] = Head(pidQueue)]
     /\ reply' = "success"
     /\ UNCHANGED <<disk, streams, status>>

\* Mutant: the last pid is never given away.
CanStartButLast == EmptySlots # {} /\ Len(pidQueue) > 1

CanStart == EmptySlots # {} /\ pidQueue # <<>>

\* cp (size:KB)
Cp(typed) ==
  LET bytes == SizeArg(typed)
      valid == bytes # 0 /\ bytes <= MAX_SIZE_OF_PROGRAM
      fits  == USER_CAPACITY - user_used > bytes
  IN  /\ status = "running"
      /\ \/ ~valid /\ Refuse("size is unvalid")
         \/ valid /\ ~fits /\ Refuse("space is not enough")
         \/ valid /\ fits /\ ~CanStart /\ Refuse("processes is full")
         \/ valid /\ fits /\ CanStart /\ Start(bytes, LoadFault(Head(pidQueue), bytes))

\* dp (pid): the process is looked up by pid; its slot is emptied, and then the
\* slot numbered pid is.
SlotsOf(pid) == {i \in Slots \ EmptySlots : PCBs[procList[i]].pid = pid}
SlotOf(pid)  == CHOOSE i \in SlotsOf(pid) : \A j \in SlotsOf(pid) : i <= j

\* Mutant: the slot that was found keeps its pointer.
ClearedByPid(pid) == [procList EXCEPT ![pid] = NULL]

Cleared(pid) == [procList EXCEPT ![SlotOf(pid)] = NULL, ![pid] = NULL]

Dp(typed) ==
  LET pid == PidArg(typed)
  IN  /\ status = "running"
      /\ \/ pid >= MAX_PID /\ Refuse("pid is unvalid")
         \/ pid < MAX_PID /\ SlotsOf(pid) = {} /\ Refuse("process not exist")
         \/ /\ pid < MAX_PID /\ SlotsOf(pid) # {}
            /\ Destroy(procList[SlotOf(pid)])
            /\ procList' = Cleared(pid)
            /\ reply' = "success"
            /\ UNCHANGED <<disk, streams, status>>

\* pa (pid) (size:KB): the process of slot pid; the user area's free space is
\* read through procList[pid] before procList[pid] is compared with NULL.
Pa(typedPid, typedSize) ==
  LET slot  == PidArg(typedPid)
      p     == procList[slot]
      bytes == SizeArg(typedSize)
      valid == bytes # 0 /\ bytes <= MAX_SIZE_OF_PROGRAM
      fits  == /\ USER_CAPACITY - user_used > bytes
               /\ MAX_SIZE_OF_PROGRAM - procSize[p] > bytes
  IN  /\ status = "running"
      /\ \/ slot >= MAX_PID /\ Refuse("pid is unvalid")
         \/ slot < MAX_PID /\ ~valid /\ Refuse("size is unvalid")
         \/ slot < MAX_PID /\ valid /\ p = NULL /\ Die("null_process")
         \/ slot < MAX_PID /\ valid /\ p # NULL /\ ~fits /\ Refuse("space is not enough")
         \/ /\ slot < MAX_PID /\ valid /\ p # NULL /\ fits
            /\ \/ /\ GrowFault(p, bytes) # "none"
                  /\ Die(GrowFault(p, bytes))
               \/ /\ GrowFault(p, bytes) = "none"
                  /\ Grow(p, bytes)
                  /\ reply' = "success"
                  /\ UNCHANGED <<procList, disk, streams, status>>

-----------------------------------------------------------------------------
(* fopen fails when no stream is left, and for reading when there is no    *)
(* such file.                                                              *)

\* Mutant: one stream more than there are.
CanOpenOneMore == streams <= FOPEN_MAX

CanOpen == streams < FOPEN_MAX

\* sd (pid) (fileName): fill the process's area with a test pattern, procSize
\* bytes from the start of its first page, then write its pages to the file.
\* A fill that runs past the end of the memory block kills the program, or it
\* does its damage outside the model and the command goes on.
FillEnd(p) == PCBs[p].page_table.table[0] * SIZE_OF_PAGE + procSize[p]

Sd(typed, file) ==
  LET slot == PidArg(typed)
      p    == procList[slot]
      good == Translates(PCBs[p].page_table, procSize[p])
  IN  /\ status = "running"
      /\ \/ slot >= MAX_PID /\ Refuse("pid is unvalid")
         \/ slot < MAX_PID /\ p = NULL /\ Refuse("process not exist")
         \/ /\ slot < MAX_PID /\ p # NULL
            /\ ~good \/ FillEnd(p) > MEMORY_CAPACITY
            /\ Die(IF good THEN "fill_overrun" ELSE "bad_page")
         \/ slot < MAX_PID /\ p # NULL /\ good /\ ~CanOpen /\ Refuse("store failed")
         \/ /\ slot < MAX_PID /\ p # NULL /\ good /\ CanOpen
            /\ disk' = [disk EXCEPT ![file] = procSize[p]]
            /\ reply' = "success"
            /\ UNCHANGED <<kernelVars, procList, streams, status>>

\* ld (fileName): a file that is too large is left open.
TooLarge(bytes) ==
  bytes > MAX_SIZE_OF_PROGRAM \/ bytes > USER_CAPACITY - user_used

Ld(file) ==
  LET bytes == disk[file]
      opens == EmptySlots # {} /\ bytes # NULL /\ CanOpen
  IN  /\ status = "running"
      /\ \/ ~opens /\ Refuse("load failed")
         \/ /\ opens /\ TooLarge(bytes)
            /\ streams' = streams + 1
            /\ reply' = "load failed"
            /\ UNCHANGED <<kernelVars, procList, disk, status>>
         \/ opens /\ ~TooLarge(bytes) /\ ~CanStart /\ Refuse("load failed")
         \/ /\ opens /\ ~TooLarge(bytes) /\ CanStart
            /\ Start(bytes, ReadFault(Head(pidQueue), bytes))

\* exit: every listed process is destroyed, then the system with everything
\* it holds.
Exit ==
  /\ status = "running"
  /\ status' = "exited"
  /\ reply' = "success"
  /\ procList' = [i \in Slots |-> NULL]
  /\ mem_queue' = <<>>
  /\ pidQueue' = <<>>
  /\ user_used' = 0
  /\ sys_used' = 0
  /\ PCBs' = [p \in Pids |-> IdlePCB]
  /\ procSize' = [p \in Pids |-> 0]
  /\ UNCHANGED <<disk, streams>>

Next ==
  \/ \E size \in TypedSizes : Cp(size)
  \/ \E pid \in TypedPids : Dp(pid)
  \/ \E pid \in TypedPids, size \in TypedSizes : Pa(pid, size)
  \/ \E pid \in TypedPids, file \in FileNames : Sd(pid, file)
  \/ \E file \in FileNames : Ld(file)
  \/ Exit

Spec == Init /\ [][Next]_vars

-----------------------------------------------------------------------------
(* Properties. *)

\* The values the variables take: pages and pids of the system only; user_used
\* within the user area although more is taken off it than was added, sys_used
\* within the system area although nothing is; sizes a page table can map; no
\* more streams lost than there are.
TypeOK ==
  /\ mem_queue \in Seq(UserPages)
  /\ user_used \in 0 .. USER_CAPACITY
  /\ sys_used \in 0 .. USER_ADDR_OFFSET
  /\ pidQueue \in Seq(Pids)
  /\ PCBs \in [Pids -> ControlBlocks]
  /\ procSize \in [Pids -> 0 .. MAX_SIZE_OF_PROGRAM]
  /\ procList \in [Slots -> Pids \cup {NULL}]
  /\ disk \in [FileNames -> Nat \cup {NULL}]
  /\ streams \in 0 .. FOPEN_MAX
  /\ status \in {"running", "exited"} \cup Faults
  /\ reply \in Replies

\* Every page is in exactly one place until the system is shut down: once in
\* mem_queue, or in one entry of one page table.  Loading, growing and
\* destroying processes in any order neither loses a page nor hands one out
\* twice.
FreePagesDistinct ==
  \A j, k \in DOMAIN mem_queue : mem_queue[j] = mem_queue[k] => j = k

MappedPagesDistinct ==
  \A p, q \in Pids, i, j \in Entries :
    /\ PCBs[p].page_table.table[i] = PCBs[q].page_table.table[j]
    /\ PCBs[p].page_table.table[i] # PAGE_NOT_USED
    => p = q /\ i = j

FreeNotMapped ==
  \A k \in DOMAIN mem_queue, p \in Pids, i \in Entries :
    mem_queue[k] # PCBs[p].page_table.table[i]

NoPageLost ==
  \A page \in UserPages :
    \/ \E k \in DOMAIN mem_queue : mem_queue[k] = page
    \/ \E p \in Pids, i \in Entries : PCBs[p].page_table.table[i] = page

PageConservation ==
  /\ FreePagesDistinct
  /\ MappedPagesDistinct
  /\ FreeNotMapped
  /\ status # "exited" => NoPageLost

\* A pid waits in pidQueue, once, exactly while its control block is idle, so
\* no two live processes share a pid or a control block.
PidConservation ==
  /\ \A j, k \in DOMAIN pidQueue : pidQueue[j] = pidQueue[k] => j = k
  /\ \A k \in DOMAIN pidQueue : ~Running(pidQueue[k])
  /\ status # "exited" =>
       \A p \in Pids : Running(p) \/ \E k \in DOMAIN pidQueue : pidQueue[k] = p

\* The slots of procList hold different processes, each of them alive: however
\* slots and pids drift apart, no command follows a pointer destroyProcess has
\* freed.
ListedAreLive ==
  \A i, j \in Slots \ EmptySlots :
    /\ Running(procList[i])
    /\ procList[i] = procList[j] => i = j

\* Every page table is used from its first entry on with no gap: the n-th page
\* a process takes becomes its logical page n, across any history of its PCB.
TablesDense == \A p \in Pids : Dense(PCBs[p].page_table)

\* Every address below a process's size is backed by a page of its own, and a
\* process never holds two whole pages more than its size needs.
AddressesBacked ==
  \A p \in Pids :
    /\ Translates(PCBs[p].page_table, procSize[p])
    /\ procSize[p] <= PCBs[p].page_table.size * SIZE_OF_PAGE
    /\ PagesFree(p) < 2 * SIZE_OF_PAGE

\* user_used never counts a byte of a page that is still free: the space the
\* shell compares a request with is at least what mem_queue has.  (It compares
\* with <=: a request for exactly what mem_queue has is refused all the same.)
UsedNeverOverstated ==
  status # "exited" =>
    user_used <= (NUM_OF_PAGE_FOR_USER - Len(mem_queue)) * SIZE_OF_PAGE

\* "number of processes is full" is only said when no pid is left, although
\* the shell also says it when its own table has no empty slot.
FullMeansFull == reply = "processes is full" => pidQueue = <<>>

\* The memory image sd writes and ld reads is reached through pages that are
\* mapped: neither ever hits getRealAddr's asserts, also right after growth.
ImagesReachable == status # "bad_page"

\* Of sizes that are whole pages, every byte counted as used is in a page that
\* is taken, and the other way round.
UsedExact ==
  status # "exited" =>
    user_used = (NUM_OF_PAGE_FOR_USER - Len(mem_queue)) * SIZE_OF_PAGE

\* loadProgram's assert on the system area fails.
NoRoomForPCB == sys_used + SIZE_OF_PCB > USER_ADDR_OFFSET

\* Of such sizes, what the shell admits the memory can give: no request it lets
\* through runs out of pages or of page table entries half way.  cp stops the
\* program only when the system area has no room for another PCB, ld then or on
\* an empty file, and pa only when there is no process in the slot.
AdmittedIsGranted ==
  [][/\ \A size \in TypedSizes : Cp(size) /\ status' # "running" => NoRoomForPCB
     /\ \A pid \in TypedPids, size \in TypedSizes :
          Pa(pid, size) /\ status' # "running" => procList[PidArg(pid)] = NULL
     /\ \A file \in FileNames :
          Ld(file) /\ status' # "running" => disk[file] = 0 \/ NoRoomForPCB]_vars

\* The system hands out and takes back pages as PageAllocator promises.
FreePages     == mem_queue
AddressSpaces ==
  [p \in Pids |-> [k \in 1 .. PCBs[p].page_table.size |-> PCBs[p].page_table.table[k - 1]]]

Allocator == INSTANCE PageAllocator
  WITH Page <- UserPages, Process <- Pids, free <- FreePages, space <- AddressSpaces

ImplementsAllocator == Allocator!Spec

-----------------------------------------------------------------------------
(* What the documentation says and the code does not do. *)

\* README.md: a request that fits into the pages a process already has takes
\* no further page.  procAllocate's unsigned difference takes one.
FittingTakesNoPage ==
  [][\A p \in Pids :
       Running(p) /\ procSize'[p] \in procSize[p] .. PCBs[p].page_table.size * SIZE_OF_PAGE
       => PCBs'[p].page_table.size <= PCBs[p].page_table.size]_vars

\* client_exit: "destroy every process that really runs".  dp has emptied the
\* slots of processes that it did not destroy.
ExitFindsEveryProcess ==
  [][status' = "exited" => \A p \in Pids : Running(p) => p \in Listed]_vars

\* client_pa means to report "process not exist"; it has read through the NULL
\* pointer by then.
NoNullProcess == status # "null_process"

\* client_pa: "process allocate memory success! pid is" the pid that was typed.
\* It is the process in the slot of that number that has grown.
GrowsTheNamed ==
  [][\A pid \in TypedPids, size \in TypedSizes :
       Pa(pid, size) /\ reply' = "success" =>
         \A p \in Pids : procSize'[p] # procSize[p] => p = PidArg(pid)]_vars

\* destroyProcess: "return the system resources".  What loadProgram adds to
\* sys_used for the PCB is never taken off again.
PCBSpaceReturned ==
  status # "exited" /\ (\A p \in Pids : ~Running(p)) => sys_used = SYS_USED_AT_BOOT

=============================================================================
