----------------------------- MODULE AtomicProofs -----------------------------
(***************************************************************************)
(* The calls statement by statement are the calls of module Kernel, which  *)
(* take effect at once: the refinement of AtomicKernel by KernelCalls, for *)
(* every size of the machine and every set of sizes asked for.             *)
(*                                                                         *)
(* The invariant of CallsProofs says what a call may find between its      *)
(* statements; History says what it has made so far of what it found when  *)
(* it began, as a function of its arguments and of its program counter.    *)
(* At the last statement that function is the operator of Kernel.          *)
(***************************************************************************)
EXTENDS CallsProofs

-----------------------------------------------------------------------------
(* Calls as single steps.  What the kernel held when the call began is in  *)
(* `before'; the invariant says what the call has made of it so far.       *)

InCall == call.at # "idle"

OldPCB   == before.PCBs[call.proc]
OldTable == OldPCB.page_table

\* The call is a creatProcess, and not a procAllocate or a destroyProcess.
Loading == OldPCB.pid = MAX_PID

\* The list of a table whose first s entries are in use.
ListFrom(s) == [k \in 1 .. PAGE_CAPACITY - s |-> s + k - 1]

CountersTyped ==
  /\ user_used \in Nat /\ sys_used \in Nat /\ procSize \in [Pids -> Nat]
  /\ call.n \in Nat
  /\ \A r \in Pids : PCBs[r].pid = MAX_PID => procSize[r] = 0

\* What the call found, and what it leaves alone until it returns.
BeforeKept ==
  InCall =>
    /\ before.procSize = procSize
    /\ before.mem_queue \in Seq(UserPages) /\ before.pidQueue \in Seq(Pids)
    /\ before.user_used \in Nat
    /\ before.PCBs = [r \in Pids |-> before.PCBs[r]]
    /\ \A r \in Pids : r # call.proc => before.PCBs[r] = Seen.PCBs[r]
    /\ OldPCB = [pid |-> OldPCB.pid, status |-> OldPCB.status, page_table |-> OldTable]
    /\ OldTable = [table |-> OldTable.table, size |-> OldTable.size,
                   queue |-> ListFrom(OldTable.size)]
    /\ OldTable.table \in [Entries -> UserPages \cup {PAGE_NOT_USED}]
    /\ OldTable.size \in 0 .. PAGE_CAPACITY
    /\ \A e \in Entries : OldTable.table[e] # PAGE_NOT_USED <=> e < OldTable.size

\* creatProcess has taken the pid, loadProgram counts the control block.
LoadBegun ==
  InCall /\ Loading =>
    /\ call.at \in {"loadProgram", "allocate", "write", "pop", "count", "resize"}
    /\ call.bytes \in CallSizes /\ call.n = byte2Page(call.bytes)
    /\ before.pidQueue # <<>> /\ call.proc = Head(before.pidQueue)
    /\ Elements(pidQueue) = Tail(before.pidQueue)
    /\ PCBs[call.proc].pid = call.proc /\ PCBs[call.proc].status = "Ready"
    /\ procSize[call.proc] = 0
    /\ IF call.at = "loadProgram"
       THEN sys_used = before.sys_used
       ELSE /\ call.bytes # 0 /\ before.sys_used + SIZE_OF_PCB <= USER_ADDR_OFFSET
            /\ sys_used = before.sys_used + SIZE_OF_PCB

\* What procAllocate found missing.
OldNeed ==
  (call.bytes - (OldTable.size * SIZE_OF_PAGE - procSize[call.proc])) % ADDR_MOD

GrowBegun ==
  InCall /\ ~Loading /\ ~Destroying(call.proc) =>
    /\ call.at \in {"allocate", "write", "pop", "count", "resize"}
    /\ call.bytes \in CallSizes /\ call.bytes <= MAX_SIZE_OF_PROGRAM - procSize[call.proc]
    /\ Elements(pidQueue) = before.pidQueue /\ sys_used = before.sys_used
    /\ PCBs[call.proc].pid = OldPCB.pid /\ PCBs[call.proc].status = OldPCB.status
    /\ call.n = byte2Page(OldNeed)
    /\ OldNeed = 0 => call.at = "resize"

\* mem_allocate_user has moved the first pages of the list behind the entries
\* that were in use.
Written == IF call.at = "pop" THEN call.i + 1 ELSE call.i

NothingNeeded == ~Loading /\ OldNeed = 0

OldRemainder == (NUM_OF_PAGE_FOR_USER - before.user_used \div SIZE_OF_PAGE) % BASE_MOD

AllocateBegun ==
  InCall /\ ~Destroying(call.proc) =>
    /\ call.i <= Len(before.mem_queue)
    /\ Elements(mem_queue) = SubSeq(before.mem_queue, call.i + 1, Len(before.mem_queue))
    /\ Used(call.proc) = OldTable.size + Written
    /\ \A e \in Entries :
         PageOf(call.proc, e) =
           IF OldTable.size <= e /\ e < OldTable.size + Written
           THEN before.mem_queue[e - OldTable.size + 1]
           ELSE OldTable.table[e]
    /\ user_used = before.user_used + IF call.at = "resize" THEN call.n * SIZE_OF_PAGE ELSE 0
    /\ call.at \in {"loadProgram", "allocate"} => call.i = 0
    /\ call.at \in {"write", "pop"} => call.i < Atomic!PagesTaken(call.n)
    /\ call.at \in {"write", "pop", "count"} => call.n <= OldRemainder
    /\ call.at = "count" => call.i = Atomic!PagesTaken(call.n)
    /\ call.at = "resize" =>
         IF NothingNeeded THEN call.i = 0 /\ call.n = 0
         ELSE call.i = Atomic!PagesTaken(call.n) /\ call.n <= OldRemainder

\* mem_deallocate_all_user has given the first entries back.
Gone == OldTable.size - Used(call.proc)

Less(bytes, pages) ==
  IF bytes < pages * SIZE_OF_PAGE THEN 0 ELSE bytes - pages * SIZE_OF_PAGE

DestroyBegun ==
  Destroying(call.proc) =>
    /\ OldPCB.pid = call.proc
    /\ Elements(pidQueue) = Append(before.pidQueue, call.proc) /\ sys_used = before.sys_used
    /\ Used(call.proc) <= OldTable.size
    /\ \A e \in Entries :
         PageOf(call.proc, e) = IF e < Gone THEN PAGE_NOT_USED ELSE OldTable.table[e]
    /\ call.at = "scan" => Used(call.proc) = 0 \/ call.i = Gone
    /\ call.at = "recycle" => call.i = Gone
    /\ call.at = "discount" => call.i + 1 = Gone
    /\ Elements(mem_queue) =
         before.mem_queue \o
           [k \in 1 .. IF call.at = "recycle" THEN Gone + 1 ELSE Gone |-> OldTable.table[k - 1]]
    /\ user_used = Less(before.user_used, IF call.at = "discount" THEN Gone - 1 ELSE Gone)

History ==
  /\ CountersTyped /\ BeforeKept /\ LoadBegun /\ GrowBegun /\ AllocateBegun /\ DestroyBegun

-----------------------------------------------------------------------------
(* What a caller sees of the lists and tables. *)

LEMMA ListInOrder ==
  ASSUME NEW s \in 0 .. PAGE_CAPACITY, NEW list,
         list.size = PAGE_CAPACITY - s, list.capacity = PAGE_CAPACITY,
         list.head = s % PAGE_CAPACITY, \A i \in Entries : list.ptr[i] = i
  PROVE  Elements(list) = ListFrom(s)
<1> DEFINE C == PAGE_CAPACITY
<1>1. C \in Nat \ {0} /\ Entries = 0 .. C - 1
  BY Sizes
<1>2. ASSUME NEW k \in 1 .. C - s
      PROVE  Entry(list, k) = s + k - 1
  <2>1. /\ s \in 0 .. 2 * C - 1 /\ s < C
        /\ s + k - 1 \in 0 .. 2 * C - 1 /\ s + k - 1 < C /\ s + k - 1 \in Entries
    BY <1>1
  <2>2. s % C = s
    BY <1>1, <2>1, Wrap
  <2>3. (s + k - 1) % C = s + k - 1
    BY <1>1, <2>1, Wrap
  <2>4. Entry(list, k) = list.ptr[(s + k - 1) % C]
    BY <2>2 DEF Entry
  <2> QED BY <2>1, <2>3, <2>4
<1> QED BY <1>2 DEF Elements, ListFrom

\* The fields of what a caller sees.
LEMMA SeenFields ==
  ASSUME PCBsTyped
  PROVE  /\ Seen.mem_queue = Elements(mem_queue) /\ Seen.user_used = user_used
         /\ Seen.sys_used = sys_used /\ Seen.pidQueue = Elements(pidQueue)
         /\ Seen.procSize = procSize
         /\ Seen.PCBs = [r \in Pids |-> Seen.PCBs[r]]
         /\ \A r \in Pids : Seen.PCBs[r] =
              [pid |-> PCBs[r].pid, status |-> PCBs[r].status, page_table |->
                 [table |-> PCBs[r].page_table.table, size |-> Used(r),
                  queue |-> Elements(Listed(r))]]
<1>1. ASSUME NEW r \in Pids
      PROVE  Seen.PCBs[r] =
               [pid |-> PCBs[r].pid, status |-> PCBs[r].status, page_table |->
                  [table |-> PCBs[r].page_table.table, size |-> Used(r),
                   queue |-> Elements(Listed(r))]]
  <2>1. PCBs[r] = [pid |-> PCBs[r].pid, status |-> PCBs[r].status,
                   page_table |-> PCBs[r].page_table]
    BY Fields
  <2>2. Seen.PCBs[r] = [PCBs[r] EXCEPT !.page_table =
                          [table |-> PCBs[r].page_table.table, size |-> Used(r),
                           queue |-> Elements(Listed(r))]]
    BY DEF Seen, Used, Listed
  <2> QED BY <2>1, <2>2
<1>2. Seen.PCBs = [r \in Pids |-> Seen.PCBs[r]]
  BY DEF Seen
<1> QED BY <1>1, <1>2 DEF Seen

\* The table of a process that is not being destroyed, to a caller.
LEMMA SeenTable ==
  ASSUME CallsInv, NEW p \in Pids, ~Destroying(p)
  PROVE  Elements(Listed(p)) = ListFrom(Used(p))
<1>1. Used(p) \in 0 .. PAGE_CAPACITY /\ Listed(p) \in EntryRing
  BY Fields DEF CallsInv
<1>2. /\ Listed(p).size = PAGE_CAPACITY - Used(p)
      /\ Listed(p).head = Used(p) % PAGE_CAPACITY
      /\ \A i \in Entries : Listed(p).ptr[i] = i
  BY DEF CallsInv, EntriesListed
<1>3. Listed(p).capacity = PAGE_CAPACITY
  BY <1>1 DEF EntryRing
<1> QED BY <1>1, <1>2, <1>3, ListInOrder

\* The free lists as sequences.
LEMMA FreeSequences ==
  ASSUME CallsInv
  PROVE  /\ Elements(mem_queue) \in Seq(UserPages)
         /\ Len(Elements(mem_queue)) = mem_queue.size
         /\ Elements(pidQueue) \in Seq(Pids)
         /\ Len(Elements(pidQueue)) = pidQueue.size
<1>1. /\ IsRing(mem_queue, NUM_OF_PAGE_FOR_USER, UserPages \cup {UNSET})
      /\ \A k \in 1 .. mem_queue.size : Entry(mem_queue, k) \in UserPages
  BY DEF CallsInv, FreeRing, Holds
<1>2. /\ IsRing(pidQueue, MAX_PID, Pids \cup {UNSET})
      /\ \A k \in 1 .. pidQueue.size : Entry(pidQueue, k) \in Pids
  BY DEF CallsInv, PidRing, Holds
<1>3. Elements(mem_queue) \in Seq(UserPages) /\ Len(Elements(mem_queue)) = mem_queue.size
  BY <1>1, Listing
<1>4. Elements(pidQueue) \in Seq(Pids) /\ Len(Elements(pidQueue)) = pidQueue.size
  BY <1>2, Listing
<1> QED BY <1>3, <1>4

\* A sequence after n pops, and after one more.
LEMMA DropOneMore ==
  ASSUME NEW S, NEW s \in Seq(S), NEW n \in 0 .. Len(s),
         NEW t, t = SubSeq(s, n + 1, Len(s)), t # <<>>
  PROVE  /\ n < Len(s)
         /\ Head(t) = s[n + 1]
         /\ Tail(t) = SubSeq(s, (n + 1) + 1, Len(s))
<1>1. Len(s) \in Nat
  OBVIOUS
<1>2. /\ t \in Seq(S) /\ Len(t) = Len(s) - n
      /\ \A k \in 1 .. Len(s) - n : t[k] = s[n + k]
  BY DropFirst
<1>3. /\ Len(t) \in Nat \ {0} /\ Head(t) = t[1] /\ Tail(t) \in Seq(S)
      /\ \A k \in 1 .. Len(t) - 1 : Tail(t)[k] = t[k + 1]
      /\ DOMAIN Tail(t) = 1 .. Len(t) - 1
  BY <1>2, PopFirst
<1>4. n < Len(s) /\ n + 1 \in 0 .. Len(s) /\ 1 \in 1 .. Len(s) - n
  BY <1>1, <1>2, <1>3
<1> DEFINE u == SubSeq(s, (n + 1) + 1, Len(s))
<1>5. /\ u \in Seq(S) /\ Len(u) = Len(s) - (n + 1)
      /\ \A k \in 1 .. Len(s) - (n + 1) : u[k] = s[(n + 1) + k]
  BY <1>4, DropFirst
<1>6. Len(Tail(t)) = Len(s) - (n + 1)
  <2>1. Len(Tail(t)) = Len(t) - 1
    BY <1>2, HeadTailProperties
  <2> QED BY <1>1, <1>2, <2>1
<1> HIDE DEF u
<1>7. ASSUME NEW k \in 1 .. Len(s) - (n + 1)
      PROVE  Tail(t)[k] = u[k]
  <2>1. k \in 1 .. Len(t) - 1 /\ k + 1 \in 1 .. Len(s) - n /\ n + (k + 1) = (n + 1) + k
    BY <1>1, <1>2
  <2>2. Tail(t)[k] = s[n + (k + 1)]
    BY <1>2, <1>3, <2>1
  <2> QED BY <1>5, <2>1, <2>2
<1>8. Tail(t) = u
  BY <1>3, <1>5, <1>6, <1>7, SeqEqual
<1> QED BY <1>2, <1>3, <1>4, <1>8 DEF u

\* A sequence after no pop at all.
LEMMA DropNone ==
  ASSUME NEW S, NEW s \in Seq(S)
  PROVE  SubSeq(s, 0 + 1, Len(s)) = s
<1> DEFINE u == SubSeq(s, 0 + 1, Len(s))
<1>1. Len(s) \in Nat /\ 0 \in 0 .. Len(s) /\ Len(s) - 0 = Len(s)
  OBVIOUS
<1>2. /\ u \in Seq(S) /\ Len(u) = Len(s) - 0
      /\ \A k \in 1 .. Len(s) - 0 : u[k] = s[0 + k]
  BY <1>1, DropFirst
<1> HIDE DEF u
<1>3. \A k \in 1 .. Len(s) : u[k] = s[k]
  BY <1>1, <1>2
<1>4. u = s
  BY <1>1, <1>2, <1>3, SeqEqual
<1> QED BY <1>4 DEF u

-----------------------------------------------------------------------------
(* The calls begin. *)

\* What the kernel holds when a call begins, as the call remembers it.
LEMMA BeginKept ==
  ASSUME CallsInv, CountersTyped, call.at = "idle", before' = Seen,
         NEW p \in Pids, call'.proc = p, procSize' = procSize,
         \A r \in Pids : r # p => PCBs'[r] = PCBs[r]
  PROVE  /\ BeforeKept'
         /\ before'.mem_queue = Elements(mem_queue) /\ before'.pidQueue = Elements(pidQueue)
         /\ before'.user_used = user_used /\ before'.sys_used = sys_used
         /\ before'.procSize = procSize
         /\ OldPCB'.pid = PCBs[p].pid /\ OldPCB'.status = PCBs[p].status
         /\ OldTable'.table = PCBs[p].page_table.table /\ OldTable'.size = Used(p)
         /\ OldTable'.queue = ListFrom(Used(p))
<1>1. ~Destroying(p) /\ FirstUsed(p) = 0
  BY DEF Destroying, FirstUsed
<1>2. /\ Seen.mem_queue = Elements(mem_queue) /\ Seen.pidQueue = Elements(pidQueue)
      /\ Seen.user_used = user_used /\ Seen.sys_used = sys_used
      /\ Seen.procSize = procSize
      /\ Seen.PCBs = [r \in Pids |-> Seen.PCBs[r]]
      /\ Seen.PCBs[p] =
           [pid |-> PCBs[p].pid, status |-> PCBs[p].status, page_table |->
              [table |-> PCBs[p].page_table.table, size |-> Used(p),
               queue |-> Elements(Listed(p))]]
  BY SeenFields DEF CallsInv
<1>3. Elements(Listed(p)) = ListFrom(Used(p))
  BY <1>1, SeenTable
<1>4. PICK old : old = Seen.PCBs[p]
  OBVIOUS
<1>5. PICK table : table = PCBs[p].page_table.table
  OBVIOUS
<1>6. PICK s : s = Used(p)
  OBVIOUS
<1>7. OldPCB' = old /\ OldTable' = old.page_table
  BY <1>4 DEF OldPCB, OldTable
<1>8. old = [pid |-> PCBs[p].pid, status |-> PCBs[p].status, page_table |->
               [table |-> table, size |-> s, queue |-> ListFrom(s)]]
  BY <1>2, <1>3, <1>4, <1>5, <1>6
<1>9. old.page_table = [table |-> table, size |-> s, queue |-> ListFrom(s)]
  BY <1>8
<1>10. /\ s \in 0 .. PAGE_CAPACITY /\ table \in [Entries -> UserPages \cup {PAGE_NOT_USED}]
  BY <1>5, <1>6, Fields DEF CallsInv
<1>11. \A e \in Entries : table[e] # PAGE_NOT_USED <=> e < s
  <2>1. \A e \in Entries : PageOf(p, e) # PAGE_NOT_USED <=> 0 <= e /\ e < 0 + s
    BY <1>1, <1>6 DEF CallsInv, EntriesUsed
  <2> QED BY <1>5, <1>10, <2>1, Sizes DEF PageOf
<1>12. Seen.mem_queue \in Seq(UserPages) /\ Seen.pidQueue \in Seq(Pids)
  BY <1>2, FreeSequences
<1>13. Seen.user_used \in Nat
  BY <1>2 DEF CountersTyped
<1>14. \A r \in Pids : r # p => (Seen.PCBs[r])' = Seen.PCBs[r]
  BY DEF Seen
<1>15. OldPCB' = [pid |-> OldPCB'.pid, status |-> OldPCB'.status, page_table |-> OldTable']
  BY <1>7, <1>8, <1>9
<1>16. OldTable' = [table |-> table, size |-> s, queue |-> ListFrom(s)]
  BY <1>7, <1>9
<1>17. OldTable' = [table |-> OldTable'.table, size |-> OldTable'.size,
                    queue |-> ListFrom(OldTable'.size)]
  BY <1>16
<1>18. /\ OldTable'.table \in [Entries -> UserPages \cup {PAGE_NOT_USED}]
       /\ OldTable'.size \in 0 .. PAGE_CAPACITY
       /\ \A e \in Entries : OldTable'.table[e] # PAGE_NOT_USED <=> e < OldTable'.size
  BY <1>10, <1>11, <1>16
<1>19. BeforeKept'
  <2>1. /\ before'.procSize = procSize'
        /\ before'.mem_queue \in Seq(UserPages) /\ before'.pidQueue \in Seq(Pids)
        /\ before'.user_used \in Nat
        /\ before'.PCBs = [r \in Pids |-> before'.PCBs[r]]
    BY <1>2, <1>12, <1>13
  <2>2. \A r \in Pids : r # call'.proc => before'.PCBs[r] = (Seen.PCBs[r])'
    BY <1>14
  <2> QED BY <1>15, <1>17, <1>18, <2>1, <2>2 DEF BeforeKept, ListFrom
<1>20. OldPCB'.pid = PCBs[p].pid /\ OldPCB'.status = PCBs[p].status
  BY <1>7, <1>8
<1> QED BY <1>2, <1>5, <1>6, <1>16, <1>19, <1>20

\* creatProcess
LEMMA BeginLoadHistory ==
  ASSUME CallsInv, History, NEW bytes \in CallSizes, BeginLoad(bytes)
  PROVE  History'
<1>p. PICK p : p = queue_front(pidQueue)
  OBVIOUS
<1>1. /\ call.at = "idle" /\ ~queue_empty(pidQueue) /\ pidQueue' = queue_pop(pidQueue)
      /\ call' = [at |-> "loadProgram", proc |-> p, bytes |-> bytes, n |-> byte2Page(bytes), i |-> 0]
      /\ PCBs' = [PCBs EXCEPT ![p].status = "Ready", ![p].pid = p]
      /\ before' = Seen
      /\ UNCHANGED <<mem_queue, user_used, sys_used, procSize>>
  BY <1>p DEF BeginLoad, Begin, At, memVars
<1>2. /\ call'.at = "loadProgram" /\ call'.proc = p /\ call'.bytes = bytes /\ call'.i = 0
      /\ call'.n = byte2Page(bytes)
  BY <1>1
<1>3. /\ IsRing(pidQueue, MAX_PID, Pids \cup {UNSET})
      /\ \A k \in 1 .. pidQueue.size : Entry(pidQueue, k) \in Pids
  BY DEF CallsInv, PidRing, Holds
<1>4. /\ Elements(pidQueue) # <<>> /\ p = Head(Elements(pidQueue))
      /\ Elements(pidQueue') = Tail(Elements(pidQueue))
  BY <1>p, <1>1, <1>3, PopTakesHead
<1>5. p \in Pids
  BY <1>4, FreeSequences, PopFirst
<1>6. PCBs[p].pid = MAX_PID
  <2>1. p = Entry(pidQueue, 1)
    BY <1>p, <1>3, Front
  <2>2. 1 \in 1 .. pidQueue.size
    <3>1. pidQueue.size \in Nat
      BY <1>3, RingFields
    <3> QED BY <1>1, <3>1 DEF queue_empty
  <2>3. ~Destroying(p)
    BY <1>1 DEF Destroying
  <2> QED BY <2>1, <2>2, <2>3 DEF CallsInv, FreePids
<1>7. /\ \A r \in Pids : r # p => PCBs'[r] = PCBs[r]
      /\ PCBs'[p].pid = p /\ PCBs'[p].status = "Ready"
      /\ PCBs'[p].page_table = PCBs[p].page_table
  <2>1. PCBs[p] = [pid |-> PCBs[p].pid, status |-> PCBs[p].status, page_table |-> PCBs[p].page_table]
    BY <1>5, Fields DEF CallsInv
  <2>2. PCBs \in [Pids -> [pid : Pids \cup {MAX_PID}, status : {"Undefined", "Ready"},
                           page_table : PageTable]]
    BY DEF CallsInv, PCBsTyped
  <2>3. \A r \in Pids : r # p => PCBs'[r] = PCBs[r]
    BY <1>1, <1>5, <2>2
  <2>4. PCBs'[p] = [[PCBs[p] EXCEPT !.status = "Ready"] EXCEPT !.pid = p]
    BY <1>1, <1>5, <2>2
  <2>5. PICK m : m = [PCBs[p] EXCEPT !.status = "Ready"]
    OBVIOUS
  <2>6. m = [pid |-> PCBs[p].pid, status |-> "Ready", page_table |-> PCBs[p].page_table]
    BY <2>1, <2>5
  <2>7. PCBs'[p] = [pid |-> p, status |-> "Ready", page_table |-> PCBs[p].page_table]
    BY <2>4, <2>5, <2>6
  <2> QED BY <2>3, <2>7
<1>8. /\ BeforeKept'
      /\ before'.mem_queue = Elements(mem_queue) /\ before'.pidQueue = Elements(pidQueue)
      /\ before'.user_used = user_used /\ before'.sys_used = sys_used
      /\ OldPCB'.pid = PCBs[p].pid
      /\ OldTable'.table = PCBs[p].page_table.table /\ OldTable'.size = Used(p)
  BY <1>1, <1>2, <1>5, <1>7, BeginKept DEF History
<1>9. CountersTyped'
  <2>1. bytes \in Int
    BY CallSizesAssumption, KernelAssumption DEF MAX_SIZE_OF_PROGRAM
  <2>2. call'.n \in Nat
    BY <1>2, <2>1, byte2PageType, Sizes
  <2>3. \A r \in Pids : PCBs'[r].pid = MAX_PID => PCBs[r].pid = MAX_PID
    BY <1>6, <1>7
  <2> QED BY <1>1, <2>2, <2>3 DEF History, CountersTyped
<1>10. procSize[p] = 0
  BY <1>5, <1>6 DEF History, CountersTyped
<1>11. Loading'
  BY <1>6, <1>8 DEF Loading
<1>12. LoadBegun'
  BY <1>1, <1>2, <1>4, <1>7, <1>8, <1>10 DEF LoadBegun
<1>13. GrowBegun'
  BY <1>11 DEF GrowBegun
<1>14. ~Destroying(call.proc)'
  BY <1>2 DEF Destroying
<1>15. DestroyBegun'
  BY <1>14 DEF DestroyBegun
<1>16. AllocateBegun'
  <2>1. Written' = 0
    BY <1>2 DEF Written
  <2>2. /\ Elements(mem_queue') = SubSeq(Elements(mem_queue), 0 + 1, Len(Elements(mem_queue)))
        /\ Len(Elements(mem_queue)) \in Nat
    BY <1>1, FreeSequences, DropNone
  <2>3. Used(p) \in Nat /\ Used(p)' = Used(p)
    <3>1. Used(p) \in 0 .. PAGE_CAPACITY
      BY <1>5, Fields DEF CallsInv
    <3> QED BY <1>7, <3>1, Sizes DEF Used
  <2>4. \A e \in Entries : PageOf(p, e)' = PCBs[p].page_table.table[e]
    BY <1>7 DEF PageOf
  <2>5. \A e \in Entries : ~(Used(p) <= e /\ e < Used(p) + 0)
    BY <2>3, Sizes
  <2>6. user_used' = before'.user_used + 0
    BY <1>1, <1>8 DEF History, CountersTyped
  <2> QED BY <1>2, <1>8, <2>1, <2>2, <2>3, <2>4, <2>5, <2>6 DEF AllocateBegun
<1> QED BY <1>8, <1>9, <1>12, <1>13, <1>15, <1>16 DEF History

\* procAllocate
LEMMA BeginGrowHistory ==
  ASSUME CallsInv, History, NEW p \in Pids, NEW bytes \in CallSizes, BeginGrow(p, bytes)
  PROVE  History'
<1>n. PICK need : need = (bytes - (Used(p) * SIZE_OF_PAGE - procSize[p])) % ADDR_MOD
  OBVIOUS
<1>1. /\ call.at = "idle" /\ PCBs[p].pid # MAX_PID
      /\ bytes <= MAX_SIZE_OF_PROGRAM - procSize[p]
      /\ call' = [at |-> IF need > 0 THEN "allocate" ELSE "resize", proc |-> p,
                  bytes |-> bytes, n |-> byte2Page(need), i |-> 0]
      /\ before' = Seen
      /\ UNCHANGED <<mem_queue, user_used, sys_used, pidQueue, PCBs, procSize>>
  BY <1>n DEF BeginGrow, Begin, At, memVars, Used
<1>2. /\ call'.at = IF need > 0 THEN "allocate" ELSE "resize"
      /\ call'.proc = p /\ call'.bytes = bytes /\ call'.i = 0 /\ call'.n = byte2Page(need)
  BY <1>1
<1>3. /\ BeforeKept'
      /\ before'.mem_queue = Elements(mem_queue) /\ before'.pidQueue = Elements(pidQueue)
      /\ before'.user_used = user_used /\ before'.sys_used = sys_used
      /\ before'.procSize = procSize
      /\ OldPCB'.pid = PCBs[p].pid /\ OldPCB'.status = PCBs[p].status
      /\ OldTable'.table = PCBs[p].page_table.table /\ OldTable'.size = Used(p)
  BY <1>1, <1>2, BeginKept DEF History
<1>4. /\ Used(p) \in Nat /\ procSize[p] \in Nat /\ bytes \in Int
      /\ SIZE_OF_PAGE \in Nat \ {0} /\ ADDR_MOD \in Nat \ {0}
  <2>1. Used(p) \in 0 .. PAGE_CAPACITY
    BY Fields DEF CallsInv
  <2>2. procSize[p] \in Nat
    BY DEF History, CountersTyped
  <2>3. bytes \in Int
    BY CallSizesAssumption, KernelAssumption DEF MAX_SIZE_OF_PROGRAM
  <2> QED BY <2>1, <2>2, <2>3, Sizes, KernelAssumption
<1>5. need \in Nat
  <2>1. PICK a \in Int : a = bytes - (Used(p) * SIZE_OF_PAGE - procSize[p])
    BY <1>4
  <2>2. a % ADDR_MOD \in 0 .. ADDR_MOD - 1
    BY <1>4, ModRange
  <2> QED BY <1>n, <1>4, <2>1, <2>2
<1>6. OldNeed' = need
  BY <1>n, <1>1, <1>2, <1>3 DEF OldNeed
<1>7. CountersTyped'
  <2>1. call'.n \in Nat
    <3>1. need \in Int /\ BASE_MOD \in Nat
      BY <1>5, Sizes
    <3>2. byte2Page(need) \in 0 .. BASE_MOD - 1
      BY <3>1, byte2PageType
    <3> QED BY <1>2, <3>1, <3>2
  <2> QED BY <1>1, <2>1 DEF History, CountersTyped
<1>8. ~Loading' /\ ~Destroying(call.proc)'
  BY <1>1, <1>2, <1>3 DEF Loading, Destroying
<1>9. LoadBegun' /\ DestroyBegun'
  BY <1>8 DEF LoadBegun, DestroyBegun
<1>10. GrowBegun'
  <2>1. call'.at \in {"allocate", "resize"} /\ (need = 0 => call'.at = "resize")
    BY <1>2, <1>5
  <2> QED BY <1>1, <1>2, <1>3, <1>6, <2>1 DEF GrowBegun
<1>11. AllocateBegun'
  <2>1. Written' = 0
    BY <1>2, <1>5 DEF Written
  <2>2. /\ Elements(mem_queue') = SubSeq(Elements(mem_queue), 0 + 1, Len(Elements(mem_queue)))
        /\ Len(Elements(mem_queue)) \in Nat
    BY <1>1, FreeSequences, DropNone
  <2>3. Used(p)' = Used(p) /\ \A e \in Entries : PageOf(p, e)' = PCBs[p].page_table.table[e]
    BY <1>1 DEF Used, PageOf
  <2>4. \A e \in Entries : ~(Used(p) <= e /\ e < Used(p) + 0)
    BY <1>4, Sizes
  <2>5. CASE need > 0
    <3>1. call'.at = "allocate" /\ user_used' = before'.user_used + 0
      BY <1>1, <1>2, <1>3, <2>5 DEF History, CountersTyped
    <3> QED BY <1>2, <1>3, <1>4, <2>1, <2>2, <2>3, <2>4, <3>1 DEF AllocateBegun
  <2>6. CASE need = 0
    <3>1. byte2Page(0) = 0
      <4>1. (0 + SIZE_OF_PAGE - 1) % ADDR_MOD = SIZE_OF_PAGE - 1
        <5>1. SIZE_OF_PAGE - 1 \in Nat /\ SIZE_OF_PAGE - 1 < ADDR_MOD
          BY <1>4, KernelAssumption DEF MAX_SIZE_OF_PROGRAM
        <5> QED BY <1>4, <5>1
      <4>2. (SIZE_OF_PAGE - 1) \div SIZE_OF_PAGE = 0
        BY <1>4
      <4>3. 0 % BASE_MOD = 0
        BY Sizes
      <4> QED BY <4>1, <4>2, <4>3 DEF byte2Page
    <3>2. call'.at = "resize" /\ call'.n = 0 /\ NothingNeeded'
      BY <1>2, <1>6, <1>8, <2>6, <3>1 DEF NothingNeeded
    <3>3. user_used' = before'.user_used + call'.n * SIZE_OF_PAGE
      <4>1. user_used' = before'.user_used /\ user_used \in Nat
        BY <1>1, <1>3 DEF History, CountersTyped
      <4>2. 0 * SIZE_OF_PAGE = 0
        BY <1>4
      <4> QED BY <1>3, <3>2, <4>1, <4>2
    <3> QED BY <1>2, <1>3, <1>4, <2>1, <2>2, <2>3, <2>4, <3>2, <3>3 DEF AllocateBegun
  <2> QED BY <1>5, <2>5, <2>6
<1> QED BY <1>3, <1>7, <1>9, <1>10, <1>11 DEF History

\* destroyProcess
LEMMA BeginDestroyHistory ==
  ASSUME CallsInv, History, NEW p \in Pids, BeginDestroy(p)
  PROVE  History'
<1>1. /\ call.at = "idle" /\ PCBs[p].pid = p /\ p # MAX_PID
      /\ pidQueue' = queue_push(pidQueue, p)
      /\ call' = [at |-> "scan", proc |-> p, bytes |-> 0, n |-> 0, i |-> 0]
      /\ before' = Seen
      /\ UNCHANGED <<mem_queue, user_used, sys_used, PCBs, procSize>>
  BY DEF BeginDestroy, Begin, At, memVars, CallsInv, FreePids
<1>2. call'.at = "scan" /\ call'.proc = p /\ call'.i = 0 /\ call'.n = 0
  BY <1>1
<1>3. /\ BeforeKept'
      /\ before'.mem_queue = Elements(mem_queue) /\ before'.pidQueue = Elements(pidQueue)
      /\ before'.user_used = user_used /\ before'.sys_used = sys_used
      /\ OldPCB'.pid = PCBs[p].pid
      /\ OldTable'.table = PCBs[p].page_table.table /\ OldTable'.size = Used(p)
  BY <1>1, <1>2, BeginKept DEF History
<1>4. CountersTyped'
  BY <1>1, <1>2 DEF History, CountersTyped
<1>5. ~Loading' /\ Destroying(call.proc)'
  BY <1>1, <1>2, <1>3 DEF Loading, Destroying
<1>6. LoadBegun' /\ GrowBegun' /\ AllocateBegun'
  BY <1>5 DEF LoadBegun, GrowBegun, AllocateBegun
<1>7. Elements(pidQueue') = Append(Elements(pidQueue), p)
  <2>1. /\ IsRing(pidQueue, MAX_PID, Pids \cup {UNSET}) /\ Holds(pidQueue, Pids)
        /\ \A k \in 1 .. pidQueue.size : Entry(pidQueue, k) \in Pids
    BY DEF CallsInv, PidRing, Holds
  <2>2. \A k \in 1 .. pidQueue.size : Entry(pidQueue, k) # p
    BY <1>1, <2>1 DEF CallsInv, FreePids, Destroying
  <2>3. pidQueue.size < MAX_PID
    BY <2>1, <2>2, PidsCount, RingRoom
  <2>4. p \in Pids \cup {UNSET}
    OBVIOUS
  <2> QED BY <1>1, <2>1, <2>3, <2>4, PushAppends
<1>8. Used(p) \in Nat /\ Used(p)' = Used(p) /\ Gone' = 0
  <2>1. Used(p) \in 0 .. PAGE_CAPACITY
    BY Fields DEF CallsInv
  <2>2. Used(p) \in Nat /\ Used(p)' = Used(p)
    BY <1>1, <2>1, Sizes DEF Used
  <2>3. Gone' = Used(p) - Used(p)
    BY <1>2, <1>3, <2>2 DEF Gone
  <2> QED BY <2>2, <2>3
<1>9. Elements(mem_queue') = Elements(mem_queue) \o [k \in 1 .. 0 |-> OldTable'.table[k - 1]]
  <2>1. Elements(mem_queue) \in Seq(UserPages)
    BY FreeSequences
  <2>2. [k \in 1 .. 0 |-> OldTable'.table[k - 1]] = <<>>
    OBVIOUS
  <2> QED BY <1>1, <2>1, <2>2, ConcatEmptySeq
<1>10. user_used' = Less(before'.user_used, 0)
  <2>1. 0 * SIZE_OF_PAGE = 0
    BY KernelAssumption
  <2>2. user_used \in Nat
    BY DEF History, CountersTyped
  <2> QED BY <1>1, <1>3, <2>1, <2>2 DEF Less
<1>11. \A e \in Entries : PageOf(p, e)' = IF e < 0 THEN PAGE_NOT_USED ELSE PCBs[p].page_table.table[e]
  BY <1>1, Sizes DEF PageOf
<1>12. DestroyBegun'
  <2>1. Used(p)' <= OldTable'.size
    BY <1>3, <1>8
  <2>2. Elements(mem_queue)' = before'.mem_queue \o
          [k \in 1 .. IF call'.at = "recycle" THEN Gone' + 1 ELSE Gone' |-> OldTable'.table[k - 1]]
    BY <1>2, <1>3, <1>8, <1>9
  <2>3. user_used' = Less(before'.user_used, IF call'.at = "discount" THEN Gone' - 1 ELSE Gone')
    BY <1>2, <1>8, <1>10
  <2> QED BY <1>1, <1>2, <1>3, <1>7, <1>8, <1>11, <2>1, <2>2, <2>3 DEF DestroyBegun, Less
<1> QED BY <1>3, <1>4, <1>6, <1>12 DEF History

-----------------------------------------------------------------------------
(* Loading and growing go on. *)

\* What the call found does not change while it runs.
LEMMA CallGoesOn ==
  ASSUME BeforeKept, InCall, call.at # "idle", call'.at # "idle",
         before' = before, call'.proc = call.proc, procSize' = procSize,
         \A r \in Pids : r # call.proc => PCBs'[r] = PCBs[r]
  PROVE  /\ BeforeKept'
         /\ OldPCB' = OldPCB /\ OldTable' = OldTable /\ (Loading' <=> Loading)
<1>1. OldPCB' = OldPCB /\ OldTable' = OldTable /\ (Loading' <=> Loading)
  BY DEF OldPCB, OldTable, Loading
<1>2. \A r \in Pids : r # call.proc => (Seen.PCBs[r])' = Seen.PCBs[r]
  BY DEF Seen
<1>3. BeforeKept'
  BY <1>1, <1>2 DEF BeforeKept, InCall, ListFrom
<1> QED BY <1>1, <1>3

\* Facts about a call that is under way.
LEMMA UnderWay ==
  ASSUME CallsInv, History, InCall
  PROVE  /\ call.proc \in Pids /\ call.i \in Nat /\ call.n \in Nat
         /\ before.mem_queue \in Seq(UserPages) /\ Len(before.mem_queue) \in Nat
         /\ before.user_used \in Nat
         /\ OldTable.size \in Nat /\ OldTable.size <= PAGE_CAPACITY
         /\ Used(call.proc) \in Nat
         /\ SIZE_OF_PAGE \in Nat \ {0}
<1>1. Used(call.proc) \in 0 .. PAGE_CAPACITY /\ call.proc \in Pids /\ call.i \in Nat
  BY Fields DEF CallsInv, CallTyped
<1>2. /\ before.mem_queue \in Seq(UserPages) /\ before.user_used \in Nat
      /\ OldTable.size \in 0 .. PAGE_CAPACITY
  BY DEF History, BeforeKept
<1>3. Len(before.mem_queue) \in Nat
  BY <1>2, LenProperties
<1>4. call.n \in Nat
  BY DEF History, CountersTyped
<1> QED BY <1>1, <1>2, <1>3, <1>4, Sizes, KernelAssumption

\* The statements of mem_allocate_user leave the pid, the counter of the system
\* area and the size of the process alone.
LEMMA AllocatingGoesOn ==
  ASSUME CallsInv, History,
         call.at \in {"allocate", "write", "pop", "count"},
         call'.at \in {"write", "pop", "count", "resize"},
         before' = before, call'.proc = call.proc, call'.bytes = call.bytes, call'.n = call.n,
         UNCHANGED <<pidQueue, sys_used, procSize>>, user_used' \in Nat,
         \A r \in Pids : r # call.proc => PCBs'[r] = PCBs[r],
         \A r \in Pids : PCBs'[r].pid = PCBs[r].pid /\ PCBs'[r].status = PCBs[r].status
  PROVE  /\ CountersTyped' /\ BeforeKept' /\ LoadBegun' /\ GrowBegun' /\ DestroyBegun'
         /\ OldTable' = OldTable /\ OldRemainder' = OldRemainder
         /\ ~Destroying(call.proc) /\ ~Destroying(call.proc)' /\ InCall /\ InCall'
<1>1. /\ BeforeKept' /\ OldPCB' = OldPCB /\ OldTable' = OldTable /\ (Loading' <=> Loading)
  BY CallGoesOn DEF History, InCall
<1>2. ~Destroying(call.proc) /\ ~Destroying(call.proc)' /\ InCall /\ InCall'
  BY DEF Destroying, InCall
<1>3. OldRemainder' = OldRemainder /\ OldNeed' = OldNeed
  BY <1>1 DEF OldRemainder, OldNeed
<1>4. CountersTyped'
  BY DEF History, CountersTyped
<1>5. call.proc \in Pids
  BY DEF CallsInv, CallTyped
<1>6. LoadBegun'
  BY <1>1, <1>2, <1>5 DEF History, LoadBegun
<1>7. GrowBegun'
  BY <1>1, <1>2, <1>3, <1>5 DEF History, GrowBegun
<1>8. DestroyBegun'
  BY <1>2 DEF DestroyBegun
<1> QED BY <1>1, <1>2, <1>3, <1>4, <1>6, <1>7, <1>8

\* The system area has room for the control block.
LEMMA LoadHistory ==
  ASSUME CallsInv, History, loadProgram, GoTo("allocate")
  PROVE  History'
<1>1. /\ call.at = "loadProgram" /\ call.bytes # 0 /\ sys_used + SIZE_OF_PCB <= USER_ADDR_OFFSET
      /\ sys_used' = sys_used + SIZE_OF_PCB
      /\ UNCHANGED <<mem_queue, user_used, pidQueue, PCBs, procSize>>
  BY DEF loadProgram, At, GoTo, Stop
<1>2. /\ call'.at = "allocate" /\ call'.proc = call.proc /\ call'.bytes = call.bytes
      /\ call'.n = call.n /\ call'.i = call.i /\ before' = before
  BY DEF GoTo, CallsInv, CallTyped
<1>3. /\ InCall /\ InCall' /\ ~Destroying(call.proc) /\ ~Destroying(call.proc)'
      /\ BeforeKept' /\ OldPCB' = OldPCB /\ OldTable' = OldTable /\ (Loading' <=> Loading)
  <2>1. InCall /\ InCall' /\ ~Destroying(call.proc) /\ ~Destroying(call.proc)'
    BY <1>1, <1>2 DEF InCall, Destroying
  <2> QED BY <1>1, <1>2, <2>1, CallGoesOn DEF History
<1>4. Loading
  BY <1>1, <1>3 DEF History, GrowBegun
<1>5. CountersTyped'
  BY <1>1, <1>2, KernelAssumption DEF History, CountersTyped
<1>6. LoadBegun'
  BY <1>1, <1>2, <1>3, <1>4 DEF History, LoadBegun
<1>7. GrowBegun' /\ DestroyBegun'
  BY <1>3, <1>4 DEF GrowBegun, DestroyBegun
<1>8. AllocateBegun'
  <2>1. Written' = Written
    BY <1>1, <1>2 DEF Written
  <2>2. Used(call.proc)' = Used(call.proc)
        /\ \A e \in Entries : PageOf(call.proc, e)' = PageOf(call.proc, e)
    BY <1>1, <1>2 DEF Used, PageOf
  <2> QED BY <1>1, <1>2, <1>3, <2>1, <2>2 DEF History, AllocateBegun
<1> QED BY <1>3, <1>5, <1>6, <1>7, <1>8 DEF History

\* mem_allocate_user finds enough of the user area uncounted.
LEMMA AllocateHistory ==
  ASSUME CallsInv, History, Allocate, GoTo("write")
  PROVE  History'
<1>1. /\ call.at = "allocate" /\ call.n <= Remainder
      /\ UNCHANGED <<mem_queue, user_used, sys_used, pidQueue, PCBs, procSize>>
  <2>1. "write" # "allocate" /\ call.at = "allocate"
    BY DEF Allocate, At
  <2>2. ~UNCHANGED call
    BY <2>1 DEF GoTo, CallsInv, CallTyped
  <2> QED BY <2>1, <2>2 DEF Allocate, Stop, memVars
<1>2. /\ call'.at = "write" /\ call'.proc = call.proc /\ call'.bytes = call.bytes
      /\ call'.n = call.n /\ call'.i = call.i /\ before' = before
  BY DEF GoTo, CallsInv, CallTyped
<1>3. user_used' \in Nat
  BY <1>1 DEF History, CountersTyped
<1>4. /\ CountersTyped' /\ BeforeKept' /\ LoadBegun' /\ GrowBegun' /\ DestroyBegun'
      /\ OldTable' = OldTable /\ OldRemainder' = OldRemainder
      /\ ~Destroying(call.proc) /\ ~Destroying(call.proc)' /\ InCall /\ InCall'
  BY <1>1, <1>2, <1>3, AllocatingGoesOn
<1>5. AllocateBegun'
  <2>1. Written' = Written
    BY <1>1, <1>2 DEF Written
  <2>2. /\ Used(call.proc)' = Used(call.proc)
        /\ \A e \in Entries : PageOf(call.proc, e)' = PageOf(call.proc, e)
    BY <1>1, <1>2 DEF Used, PageOf
  <2>3. user_used = before.user_used
    <3>1. user_used = before.user_used + 0
      BY <1>1, <1>4 DEF History, AllocateBegun
    <3> QED BY <1>4, <3>1, UnderWay
  <2>4. call.n <= OldRemainder
    BY <1>1, <2>3 DEF Remainder, OldRemainder
  <2>5. call.i < Atomic!PagesTaken(call.n)
    <3>1. call.i = 0 /\ call.n \in Nat
      BY <1>1, <1>4, UnderWay DEF History, AllocateBegun
    <3> QED BY <3>1 DEF Atomic!PagesTaken
  <2> QED BY <1>1, <1>2, <1>4, <2>1, <2>2, <2>4, <2>5 DEF History, AllocateBegun
<1> QED BY <1>4, <1>5 DEF History

\* One more page of the list is written.
LEMMA WriteHistory ==
  ASSUME CallsInv, History, Write, GoTo("pop")
  PROVE  History'
<1>p. PICK p : p = call.proc
  OBVIOUS
<1>s. PICK s : s = Used(p)
  OBVIOUS
<1>g. PICK page : page = queue_front(mem_queue)
  OBVIOUS
<1>b. PICK first : first = OldTable.size
  OBVIOUS
<1>1. /\ call.at = "write" /\ ~queue_empty(mem_queue) /\ ~queue_empty(Table.queue)
      /\ PCBs' = [PCBs EXCEPT ![call.proc].page_table = writePageTable(@, queue_front(mem_queue))]
      /\ UNCHANGED <<mem_queue, user_used, sys_used, pidQueue, procSize>>
  <2>1. "pop" # "write" /\ call.at = "write"
    BY DEF Write, At
  <2>2. ~UNCHANGED call
    BY <2>1 DEF GoTo, CallsInv, CallTyped
  <2> QED BY <2>1, <2>2 DEF Write, Stop, memVars
<1>2. /\ call'.at = "pop" /\ call'.proc = call.proc /\ call'.bytes = call.bytes
      /\ call'.n = call.n /\ call'.i = call.i /\ before' = before
  BY DEF GoTo, CallsInv, CallTyped
<1>3. /\ p \in Pids /\ page = Entry(mem_queue, 1)
      /\ \A r \in Pids : r # p => PCBs'[r] = PCBs[r]
      /\ \A r \in Pids : PCBs'[r].pid = PCBs[r].pid /\ PCBs'[r].status = PCBs[r].status
      /\ \A e \in Entries : PageOf(p, e)' = IF e = s THEN page ELSE PageOf(p, e)
      /\ Used(p)' = s + 1
  <2>1. At("write")
    BY DEF Write
  <2> QED BY <1>p, <1>s, <1>g, <1>1, <2>1, WriteEffect
<1>4. /\ CountersTyped' /\ BeforeKept' /\ LoadBegun' /\ GrowBegun' /\ DestroyBegun'
      /\ OldTable' = OldTable /\ OldRemainder' = OldRemainder
      /\ ~Destroying(call.proc) /\ ~Destroying(call.proc)' /\ InCall /\ InCall'
  <2>1. user_used' \in Nat
    BY <1>1 DEF History, CountersTyped
  <2> QED BY <1>p, <1>1, <1>2, <1>3, <2>1, AllocatingGoesOn
<1>i. PICK i : i = call.i
  OBVIOUS
<1>5. /\ i \in Nat /\ first \in Nat /\ before.mem_queue \in Seq(UserPages)
      /\ Len(before.mem_queue) \in Nat
  BY <1>i, <1>b, <1>4, UnderWay
<1>6. /\ i <= Len(before.mem_queue)
      /\ Elements(mem_queue) = SubSeq(before.mem_queue, i + 1, Len(before.mem_queue))
      /\ s = first + i
      /\ \A e \in Entries :
           PageOf(p, e) = IF first <= e /\ e < first + i THEN before.mem_queue[e - first + 1]
                          ELSE OldTable.table[e]
  <2>1. Written = i
    BY <1>i, <1>1 DEF Written
  <2> QED BY <1>p, <1>s, <1>b, <1>i, <1>4, <2>1 DEF History, AllocateBegun
<1>7. page = before.mem_queue[i + 1]
  <2>1. /\ IsRing(mem_queue, NUM_OF_PAGE_FOR_USER, UserPages \cup {UNSET})
        /\ \A k \in 1 .. mem_queue.size : Entry(mem_queue, k) \in UserPages
    BY FreeFacts
  <2>2. Elements(mem_queue) # <<>> /\ page = Head(Elements(mem_queue))
    BY <1>g, <1>1, <2>1, PopTakesHead
  <2>3. i \in 0 .. Len(before.mem_queue)
    BY <1>5, <1>6
  <2> QED BY <1>5, <1>6, <2>2, <2>3, DropOneMore
<1>8. ASSUME NEW e \in Entries
      PROVE  PageOf(p, e)' = IF first <= e /\ e < first + (i + 1)
                             THEN before.mem_queue[e - first + 1] ELSE OldTable.table[e]
  <2>1. e \in Nat
    BY Sizes
  <2>2. CASE e = s
    <3>1. first <= e /\ e < first + (i + 1) /\ e - first + 1 = i + 1
      BY <1>5, <1>6, <2>1, <2>2
    <3>2. PageOf(p, e)' = page
      BY <1>3, <2>2
    <3> QED BY <1>7, <3>1, <3>2
  <2>3. CASE e # s
    <3>1. e < first + (i + 1) <=> e < first + i
      BY <1>5, <1>6, <2>1, <2>3
    <3>2. PageOf(p, e)' = PageOf(p, e)
      BY <1>3, <2>3
    <3> QED BY <1>6, <3>1, <3>2
  <2> QED BY <2>2, <2>3
<1>9. Written' = i + 1
  BY <1>i, <1>2 DEF Written
<1>10. Used(p)' = first + (i + 1)
  BY <1>3, <1>5, <1>6
<1>11. AllocateBegun'
  BY <1>p, <1>b, <1>i, <1>1, <1>2, <1>4, <1>6, <1>8, <1>9, <1>10 DEF History, AllocateBegun
<1> QED BY <1>4, <1>11 DEF History

\* The page that has been written leaves the list.
LEMMA PopHistory ==
  ASSUME CallsInv, History, Pop
  PROVE  History'
<1>i. PICK i : i = call.i
  OBVIOUS
<1>n. PICK n : n = call.n
  OBVIOUS
<1>1. /\ call.at = "pop" /\ mem_queue' = queue_pop(mem_queue) /\ before' = before
      /\ UNCHANGED <<user_used, sys_used, pidQueue, PCBs, procSize>>
  BY DEF Pop, At
<1>2. /\ call'.at = (IF i + 1 < n THEN "write" ELSE "count")
      /\ call'.proc = call.proc /\ call'.bytes = call.bytes /\ call'.n = n /\ call'.i = i + 1
  <2>1. PICK place : place = IF i + 1 < n THEN "write" ELSE "count"
    OBVIOUS
  <2>2. call' = [call EXCEPT !.i = @ + 1, !.at = place]
    BY <1>i, <1>n, <2>1 DEF Pop
  <2>3. call = [at |-> call.at, proc |-> call.proc, bytes |-> call.bytes, n |-> call.n, i |-> call.i]
    BY DEF CallsInv, CallTyped
  <2> QED BY <1>i, <1>n, <2>1, <2>2, <2>3
<1>3. call'.at \in {"write", "count"}
  BY <1>2
<1>4. /\ CountersTyped' /\ BeforeKept' /\ LoadBegun' /\ GrowBegun' /\ DestroyBegun'
      /\ OldTable' = OldTable /\ OldRemainder' = OldRemainder
      /\ ~Destroying(call.proc) /\ ~Destroying(call.proc)' /\ InCall /\ InCall'
  <2>1. user_used' \in Nat
    BY <1>1 DEF History, CountersTyped
  <2> QED BY <1>n, <1>1, <1>2, <1>3, <2>1, AllocatingGoesOn
<1>5. /\ i \in Nat /\ n \in Nat /\ before.mem_queue \in Seq(UserPages)
      /\ Len(before.mem_queue) \in Nat
  BY <1>i, <1>n, <1>4, UnderWay
<1>6. /\ i <= Len(before.mem_queue)
      /\ Elements(mem_queue) = SubSeq(before.mem_queue, i + 1, Len(before.mem_queue))
      /\ i < Atomic!PagesTaken(n) /\ n <= OldRemainder /\ user_used = before.user_used + 0
  BY <1>i, <1>n, <1>1, <1>4 DEF History, AllocateBegun
<1>7. /\ i + 1 <= Len(before.mem_queue)
      /\ Elements(mem_queue') = SubSeq(before.mem_queue, (i + 1) + 1, Len(before.mem_queue))
  <2>1. /\ IsRing(mem_queue, NUM_OF_PAGE_FOR_USER, UserPages \cup {UNSET})
        /\ \A k \in 1 .. mem_queue.size : Entry(mem_queue, k) \in UserPages
    BY FreeFacts
  <2>2. ~queue_empty(mem_queue)
    BY <1>1, FreeFacts DEF CallsInv, MoveTyped, queue_empty
  <2>3. Elements(mem_queue) # <<>> /\ Elements(mem_queue') = Tail(Elements(mem_queue))
    BY <1>1, <2>1, <2>2, PopTakesHead
  <2>4. i \in 0 .. Len(before.mem_queue)
    BY <1>5, <1>6
  <2>5. /\ i < Len(before.mem_queue)
        /\ Tail(Elements(mem_queue)) = SubSeq(before.mem_queue, (i + 1) + 1, Len(before.mem_queue))
    BY <1>5, <1>6, <2>3, <2>4, DropOneMore
  <2> QED BY <1>5, <2>3, <2>5
<1>8. Written = i + 1 /\ Written' = i + 1
  BY <1>i, <1>1, <1>2, <1>3 DEF Written
<1>9. /\ call'.at = "write" => i + 1 < Atomic!PagesTaken(n)
      /\ call'.at = "count" => i + 1 = Atomic!PagesTaken(n)
  BY <1>2, <1>5, <1>6 DEF Atomic!PagesTaken
<1>10. /\ Used(call.proc)' = Used(call.proc)
       /\ \A e \in Entries : PageOf(call.proc, e)' = PageOf(call.proc, e)
  BY <1>1, <1>2 DEF Used, PageOf
<1>11. user_used' = before.user_used + 0
  BY <1>1, <1>6
<1>12. AllocateBegun'
  BY <1>n, <1>1, <1>2, <1>3, <1>4, <1>6, <1>7, <1>8, <1>9, <1>10, <1>11 DEF History, AllocateBegun
<1> QED BY <1>4, <1>12 DEF History

\* The pages are counted.
LEMMA CountHistory ==
  ASSUME CallsInv, History, Count
  PROVE  History'
<1>1. /\ call.at = "count" /\ user_used' = user_used + call.n * SIZE_OF_PAGE
      /\ UNCHANGED <<mem_queue, sys_used, pidQueue, PCBs, procSize>>
  BY DEF Count, At
<1>2. /\ call'.at = "resize" /\ call'.proc = call.proc /\ call'.bytes = call.bytes
      /\ call'.n = call.n /\ call'.i = call.i /\ before' = before
  BY DEF Count, GoTo, CallsInv, CallTyped
<1>3. user_used \in Nat /\ user_used' \in Nat
  <2>1. user_used \in Nat /\ call.n \in Nat /\ SIZE_OF_PAGE \in Nat
    BY KernelAssumption DEF History, CountersTyped
  <2> QED BY <1>1, <2>1
<1>4. /\ CountersTyped' /\ BeforeKept' /\ LoadBegun' /\ GrowBegun' /\ DestroyBegun'
      /\ OldTable' = OldTable /\ OldRemainder' = OldRemainder
      /\ ~Destroying(call.proc) /\ ~Destroying(call.proc)' /\ InCall /\ InCall'
  BY <1>1, <1>2, <1>3, AllocatingGoesOn
<1>5. AllocateBegun'
  <2>1. Written' = Written
    BY <1>1, <1>2 DEF Written
  <2>2. /\ Used(call.proc)' = Used(call.proc)
        /\ \A e \in Entries : PageOf(call.proc, e)' = PageOf(call.proc, e)
    BY <1>1, <1>2 DEF Used, PageOf
  <2>3. user_used' = before.user_used + call.n * SIZE_OF_PAGE
    <3>1. user_used = before.user_used + 0
      BY <1>1, <1>4 DEF History, AllocateBegun
    <3>2. user_used = before.user_used
      BY <1>4, <3>1, UnderWay
    <3> QED BY <1>1, <3>2
  <2>4. ~NothingNeeded'
    <3>1. OldPCB' = OldPCB /\ OldNeed' = OldNeed
      BY <1>1, <1>2, <1>4 DEF OldPCB, OldNeed
    <3>2. ~NothingNeeded
      BY <1>1, <1>4 DEF History, GrowBegun, NothingNeeded
    <3> QED BY <3>1, <3>2 DEF NothingNeeded, Loading
  <2> QED BY <1>1, <1>2, <1>4, <2>1, <2>2, <2>3, <2>4 DEF History, AllocateBegun
<1> QED BY <1>4, <1>5 DEF History

-----------------------------------------------------------------------------
(* Destroying goes on. *)

\* One more of the pages is given back.
LEMMA OneMoreGiven ==
  ASSUME NEW S, NEW s \in Seq(S), NEW a \in Seq(S), NEW b \in Seq(S),
         Len(b) = Len(a) + 1, \A k \in 1 .. Len(a) : b[k] = a[k]
  PROVE  Append(s \o a, b[Len(b)]) = s \o b
<1>1. Len(a) \in Nat /\ Len(b) \in 1 .. Len(b) /\ b[Len(b)] \in S
  OBVIOUS
<1>2. PICK x \in S : x = b[Len(b)]
  BY <1>1
<1>3. b = Append(a, x)
  <2>1. Append(a, x) \in Seq(S) /\ Len(Append(a, x)) = Len(b)
        /\ \A k \in 1 .. Len(b) : Append(a, x)[k] = IF k <= Len(a) THEN a[k] ELSE x
    OBVIOUS
  <2>2. \A k \in 1 .. Len(b) : b[k] = Append(a, x)[k]
    BY <1>1, <1>2, <2>1
  <2> QED BY <2>1, <2>2, SeqEqual
<1>4. s \o a \in Seq(S) /\ <<x>> \in Seq(S)
  BY ConcatProperties
<1>5. Append(s \o a, x) = (s \o a) \o <<x>> /\ Append(a, x) = a \o <<x>>
  BY <1>4, AppendIsConcat
<1>6. (s \o a) \o <<x>> = s \o (a \o <<x>>)
  BY <1>4, ConcatAssociative
<1> QED BY <1>2, <1>3, <1>5, <1>6

\* The statements of mem_deallocate_all_user leave the pid, the counter of the
\* system area and the size of the process alone.
LEMMA DestroyingGoesOn ==
  ASSUME CallsInv, History, Destroying(call.proc),
         call'.at \in {"scan", "recycle", "discount", "rebuild"},
         before' = before, call'.proc = call.proc, call'.n = call.n,
         UNCHANGED <<pidQueue, sys_used, procSize>>, user_used' \in Nat,
         \A r \in Pids : r # call.proc => PCBs'[r] = PCBs[r],
         \A r \in Pids : PCBs'[r].pid = PCBs[r].pid
  PROVE  /\ CountersTyped' /\ BeforeKept' /\ LoadBegun' /\ GrowBegun' /\ AllocateBegun'
         /\ OldPCB' = OldPCB /\ OldTable' = OldTable
         /\ Destroying(call.proc)'
<1>1. InCall /\ call.at # "idle" /\ call'.at # "idle" /\ Destroying(call.proc)'
  BY DEF Destroying, InCall
<1>2. /\ BeforeKept' /\ OldPCB' = OldPCB /\ OldTable' = OldTable
  BY <1>1, CallGoesOn DEF History
<1>3. CountersTyped'
  BY DEF History, CountersTyped
<1>4. ~Loading'
  <2>1. OldPCB'.pid = call.proc /\ call.proc \in Pids
    BY <1>2 DEF History, DestroyBegun, CallsInv, CallTyped
  <2> QED BY <2>1, Sizes DEF Loading
<1> QED BY <1>1, <1>2, <1>3, <1>4 DEF LoadBegun, GrowBegun, AllocateBegun

\* What has been given back, when the call goes on.
LEMMA GoneFacts ==
  ASSUME CallsInv, History, Destroying(call.proc),
         NEW p, p = call.proc, NEW s, s = Used(p), NEW first, first = OldTable.size,
         NEW table, table = OldTable.table
  PROVE  /\ p \in Pids /\ s \in Nat /\ first \in Nat /\ first <= PAGE_CAPACITY /\ s <= first
         /\ first - s \in Nat /\ Gone = first - s
         /\ \A e \in Entries : PageOf(p, e) = IF e < first - s THEN PAGE_NOT_USED ELSE table[e]
         /\ before.mem_queue \in Seq(UserPages)
         /\ \A k \in 1 .. first : table[k - 1] \in UserPages
         /\ before.user_used \in Nat /\ SIZE_OF_PAGE \in Nat \ {0} /\ call.i \in Nat
<1>1. InCall
  BY DEF Destroying, InCall
<1>2. /\ p \in Pids /\ s \in Nat /\ first \in Nat /\ first <= PAGE_CAPACITY /\ call.i \in Nat
      /\ before.mem_queue \in Seq(UserPages) /\ before.user_used \in Nat
      /\ SIZE_OF_PAGE \in Nat \ {0}
  BY <1>1, UnderWay
<1>3. /\ s <= first /\ Gone = first - s
      /\ \A e \in Entries : PageOf(p, e) = IF e < first - s THEN PAGE_NOT_USED ELSE table[e]
  BY DEF History, DestroyBegun, Gone
<1>4. ASSUME NEW k \in 1 .. first
      PROVE  table[k - 1] \in UserPages
  <2>1. k - 1 \in Entries /\ k - 1 < first
    BY <1>2, Sizes
  <2>2. table[k - 1] # PAGE_NOT_USED /\ table[k - 1] \in UserPages \cup {PAGE_NOT_USED}
    BY <1>1, <2>1 DEF History, BeforeKept
  <2> QED BY <2>2
<1> QED BY <1>2, <1>3, <1>4

\* The entry call.i is looked at; if it is in use its page comes back.
LEMMA ScanHistory ==
  ASSUME CallsInv, History, Scan
  PROVE  History'
<1>p. PICK p : p = call.proc
  OBVIOUS
<1>i. PICK i : i = call.i
  OBVIOUS
<1>s. PICK s : s = Used(p)
  OBVIOUS
<1>f. PICK first : first = OldTable.size
  OBVIOUS
<1>t. PICK table : table = OldTable.table
  OBVIOUS
<1> DEFINE g == first - s
<1>1. /\ call.at = "scan" /\ Destroying(call.proc) /\ i \in Nat
      /\ call = [at |-> call.at, proc |-> call.proc, bytes |-> call.bytes, n |-> call.n, i |-> i]
      /\ UNCHANGED <<user_used, sys_used, pidQueue, PCBs, procSize>>
  BY <1>i DEF Scan, At, CallsInv, CallTyped, Destroying
<1>2. /\ p \in Pids /\ s \in Nat /\ first \in Nat /\ first <= PAGE_CAPACITY /\ s <= first
      /\ g \in Nat /\ Gone = g
      /\ \A e \in Entries : PageOf(p, e) = IF e < g THEN PAGE_NOT_USED ELSE table[e]
      /\ before.mem_queue \in Seq(UserPages)
      /\ \A k \in 1 .. first : table[k - 1] \in UserPages
  BY <1>p, <1>s, <1>f, <1>t, <1>1, GoneFacts
<1>3. /\ OldPCB.pid = p /\ sys_used = before.sys_used
      /\ Elements(pidQueue) = Append(before.pidQueue, p)
      /\ s = 0 \/ i = g
      /\ Elements(mem_queue) = before.mem_queue \o [k \in 1 .. g |-> table[k - 1]]
      /\ user_used = Less(before.user_used, g)
  BY <1>p, <1>i, <1>s, <1>t, <1>1, <1>2 DEF History, DestroyBegun
<1>4. user_used \in Nat
  BY DEF History, CountersTyped
<1>5. Used(p)' = s /\ \A e \in Entries : PageOf(p, e)' = PageOf(p, e)
  BY <1>s, <1>1 DEF Used, PageOf
<1> HIDE DEF g
<1>6. ASSUME call'.at \in {"scan", "recycle", "rebuild"}, before' = before,
             call'.proc = call.proc, call'.n = call.n,
             call'.at = "scan" => s = 0 \/ call'.i = g,
             call'.at = "recycle" => call'.i = g,
             Elements(mem_queue') = before.mem_queue \o
               [k \in 1 .. IF call'.at = "recycle" THEN g + 1 ELSE g |-> table[k - 1]]
      PROVE  History'
  <2>1. /\ CountersTyped' /\ BeforeKept' /\ LoadBegun' /\ GrowBegun' /\ AllocateBegun'
        /\ OldPCB' = OldPCB /\ OldTable' = OldTable /\ Destroying(call.proc)'
    BY <1>1, <1>4, <1>6, DestroyingGoesOn
  <2>2. Gone' = g
    BY <1>p, <1>s, <1>2, <1>5, <1>6, <2>1 DEF Gone
  <2>3. DestroyBegun'
    <3>1. Used(p)' <= OldTable'.size
      BY <1>f, <1>2, <1>5, <2>1
    <3>2. \A e \in Entries : PageOf(p, e)' = IF e < Gone' THEN PAGE_NOT_USED ELSE OldTable'.table[e]
      BY <1>t, <1>2, <1>5, <2>1, <2>2
    <3>3. Elements(mem_queue)' = before'.mem_queue \o
            [k \in 1 .. IF call'.at = "recycle" THEN Gone' + 1 ELSE Gone' |-> OldTable'.table[k - 1]]
      BY <1>t, <1>6, <2>1, <2>2
    <3>4. user_used' = Less(before'.user_used, IF call'.at = "discount" THEN Gone' - 1 ELSE Gone')
      BY <1>1, <1>3, <1>6, <2>2
    <3>5. call'.at = "scan" => Used(p)' = 0 \/ call'.i = Gone'
      BY <1>5, <1>6, <2>2
    <3>6. (call'.at = "recycle" => call'.i = Gone') /\ call'.at # "discount"
      BY <1>6, <2>2
    <3>7. OldPCB'.pid = p /\ sys_used' = before'.sys_used
          /\ Elements(pidQueue)' = Append(before'.pidQueue, p)
      BY <1>1, <1>3, <1>6, <2>1
    <3>8. call'.proc = p
      BY <1>p, <1>6
    <3> QED BY <3>1, <3>2, <3>3, <3>4, <3>5, <3>6, <3>7, <3>8 DEF DestroyBegun, Less
  <2> QED BY <2>1, <2>3 DEF History
<1>7. CASE i = PAGE_CAPACITY /\ GoTo("rebuild") /\ UNCHANGED mem_queue
  <2>1. /\ call' = [at |-> "rebuild", proc |-> call.proc, bytes |-> call.bytes, n |-> call.n, i |-> i]
        /\ before' = before
    BY <1>1, <1>7 DEF GoTo
  <2>2. /\ call'.at = "rebuild" /\ call'.proc = call.proc /\ call'.n = call.n
    BY <2>1
  <2> QED BY <1>3, <1>6, <1>7, <2>1, <2>2
<1>8. CASE /\ i < PAGE_CAPACITY /\ PageOf(p, i) = PAGE_NOT_USED
           /\ call' = [call EXCEPT !.i = i + 1] /\ UNCHANGED <<mem_queue, before>>
  <2>1. call' = [at |-> "scan", proc |-> call.proc, bytes |-> call.bytes, n |-> call.n, i |-> i + 1]
    BY <1>1, <1>8
  <2>2. call'.at = "scan" /\ call'.proc = call.proc /\ call'.n = call.n
    BY <2>1
  <2>3. s = 0
    <3>1. i \in Entries
      BY <1>1, <1>8, Sizes
    <3>2. FirstUsed(p) = i
      BY <1>p, <1>i, <1>1 DEF FirstUsed
    <3>3. PageOf(p, i) # PAGE_NOT_USED <=> i <= i /\ i < i + s
      BY <1>s, <1>2, <3>1, <3>2 DEF CallsInv, EntriesUsed
    <3> QED BY <1>1, <1>2, <1>8, <3>3
  <2> QED BY <1>3, <1>6, <1>8, <2>2, <2>3
<1>9. CASE /\ i < PAGE_CAPACITY /\ PageOf(p, i) # PAGE_NOT_USED
           /\ mem_queue' = queue_push(mem_queue, PageOf(p, i)) /\ GoTo("recycle")
  <2>g. PICK page : page = PageOf(p, i)
    OBVIOUS
  <2>1. /\ call' = [at |-> "recycle", proc |-> call.proc, bytes |-> call.bytes, n |-> call.n, i |-> i]
        /\ before' = before
    BY <1>1, <1>9 DEF GoTo
  <2>2. call'.at = "recycle" /\ call'.proc = call.proc /\ call'.n = call.n /\ call'.i = i
    BY <2>1
  <2>3. i \in Entries
    BY <1>1, <1>9, Sizes
  <2>4. s # 0 /\ i = g
    <3>1. FirstUsed(p) = i
      BY <1>p, <1>i, <1>1 DEF FirstUsed
    <3>2. PageOf(p, i) # PAGE_NOT_USED <=> i <= i /\ i < i + s
      BY <1>s, <1>2, <2>3, <3>1 DEF CallsInv, EntriesUsed
    <3>3. s # 0
      BY <1>1, <1>2, <1>9, <3>2
    <3> QED BY <1>3, <3>3
  <2>5. page = table[g] /\ page \in UserPages
    <3>1. page = table[i]
      BY <1>2, <2>g, <2>3, <2>4
    <3>2. page \in UserPages \cup {PAGE_NOT_USED}
      BY <1>2, <2>g, <2>3, Fields DEF CallsInv
    <3> QED BY <1>9, <2>g, <2>4, <3>1, <3>2
  <2>6. Elements(mem_queue') = Append(Elements(mem_queue), page)
    <3>1. /\ IsRing(mem_queue, NUM_OF_PAGE_FOR_USER, UserPages \cup {UNSET})
          /\ Holds(mem_queue, UserPages)
          /\ \A k \in 1 .. mem_queue.size : Entry(mem_queue, k) \in UserPages
      BY DEF CallsInv, FreeRing, Holds
    <3>2. \A k \in 1 .. mem_queue.size : Entry(mem_queue, k) # page
      BY <1>1, <1>2, <2>g, <2>3 DEF CallsInv, FreeAndMapped, Moving
    <3>3. mem_queue.size < NUM_OF_PAGE_FOR_USER
      BY <2>5, <3>1, <3>2, UserPagesCount, RingRoom
    <3>4. mem_queue' = queue_push(mem_queue, page)
      BY <1>9, <2>g
    <3>5. page \in UserPages \cup {UNSET}
      BY <2>5
    <3> QED BY <2>5, <3>1, <3>3, <3>4, <3>5, PushAppends
  <2>7. g + 1 <= first
    BY <1>2, <2>4 DEF g
  <2>8. Append(before.mem_queue \o [k \in 1 .. g |-> table[k - 1]], table[g])
          = before.mem_queue \o [k \in 1 .. g + 1 |-> table[k - 1]]
    <3>1. \A k \in 1 .. g + 1 : table[k - 1] \in UserPages
      BY <1>2, <2>7
    <3>2. before.mem_queue \in Seq(UserPages) /\ g \in Nat
      BY <1>2
    <3>3. PICK a : a = [k \in 1 .. g |-> table[k - 1]]
      OBVIOUS
    <3>4. PICK b : b = [k \in 1 .. g + 1 |-> table[k - 1]]
      OBVIOUS
    <3>5. a \in Seq(UserPages) /\ b \in Seq(UserPages) /\ Len(a) = g /\ Len(b) = g + 1
      BY <3>1, <3>2, <3>3, <3>4
    <3>6. b[g + 1] = table[g] /\ \A k \in 1 .. g : b[k] = a[k]
      BY <3>2, <3>3, <3>4
    <3>7. Append(before.mem_queue \o a, b[g + 1]) = before.mem_queue \o b
      BY <3>2, <3>5, <3>6, OneMoreGiven
    <3> QED BY <3>3, <3>4, <3>6, <3>7
  <2> QED BY <1>3, <1>6, <2>1, <2>2, <2>4, <2>5, <2>6, <2>8
<1> QED BY <1>p, <1>i, <1>7, <1>8, <1>9
      DEF Scan, InUse, getValueInPageTable, Table, PageOf, NextEntry

\* The entry is cleared.
LEMMA RecycleHistory ==
  ASSUME CallsInv, History, Recycle
  PROVE  History'
<1>p. PICK p : p = call.proc
  OBVIOUS
<1>i. PICK i : i = call.i
  OBVIOUS
<1>s. PICK s : s = Used(p)
  OBVIOUS
<1>f. PICK first : first = OldTable.size
  OBVIOUS
<1>t. PICK table : table = OldTable.table
  OBVIOUS
<1>1. /\ call.at = "recycle" /\ Destroying(call.proc)
      /\ UNCHANGED <<mem_queue, user_used, sys_used, pidQueue, procSize>>
  BY DEF Recycle, At, Destroying, memVars
<1>2. /\ call'.at = "discount" /\ call'.proc = call.proc /\ call'.n = call.n /\ call'.i = call.i
      /\ before' = before
  BY DEF Recycle, GoTo, CallsInv, CallTyped
<1>3. /\ p \in Pids /\ s \in Nat /\ first \in Nat /\ s <= first
      /\ first - s \in Nat /\ Gone = first - s
      /\ \A e \in Entries : PageOf(p, e) = IF e < first - s THEN PAGE_NOT_USED ELSE table[e]
  BY <1>p, <1>s, <1>f, <1>t, <1>1, GoneFacts
<1>4. /\ OldPCB.pid = p /\ sys_used = before.sys_used
      /\ Elements(pidQueue) = Append(before.pidQueue, p)
      /\ i = first - s
      /\ Elements(mem_queue) = before.mem_queue \o [k \in 1 .. (first - s) + 1 |-> table[k - 1]]
      /\ user_used = Less(before.user_used, first - s)
  BY <1>p, <1>i, <1>t, <1>1, <1>3 DEF History, DestroyBegun
<1>5. /\ s \in 1 .. PAGE_CAPACITY
      /\ \A r \in Pids : r # p => PCBs'[r] = PCBs[r]
      /\ \A r \in Pids : PCBs'[r].pid = PCBs[r].pid
      /\ \A e \in Entries : PageOf(p, e)' = IF e = i THEN PAGE_NOT_USED ELSE PageOf(p, e)
      /\ Used(p)' = s - 1
  BY <1>p, <1>i, <1>s, <1>3, RecycleEffect
<1>6. /\ CountersTyped' /\ BeforeKept' /\ LoadBegun' /\ GrowBegun' /\ AllocateBegun'
      /\ OldPCB' = OldPCB /\ OldTable' = OldTable /\ Destroying(call.proc)'
  <2>1. user_used' \in Nat
    BY <1>1 DEF History, CountersTyped
  <2> QED BY <1>p, <1>1, <1>2, <1>5, <2>1, DestroyingGoesOn
<1> DEFINE g == (first - s) + 1
<1>7. Gone' = g /\ g - 1 = first - s /\ Used(p)' <= first
  <2>1. Gone' = first - (s - 1)
    BY <1>p, <1>f, <1>2, <1>5, <1>6 DEF Gone
  <2> QED BY <1>3, <1>5, <2>1
<1>8. ASSUME NEW e \in Entries
      PROVE  PageOf(p, e)' = IF e < g THEN PAGE_NOT_USED ELSE table[e]
  <2>1. e \in Nat
    BY Sizes
  <2>2. PageOf(p, e)' = IF e = i THEN PAGE_NOT_USED ELSE PageOf(p, e)
    BY <1>5
  <2>3. PageOf(p, e) = IF e < first - s THEN PAGE_NOT_USED ELSE table[e]
    BY <1>3
  <2>4. e < g <=> e = i \/ e < first - s
    BY <1>3, <1>4, <2>1
  <2> QED BY <2>2, <2>3, <2>4
<1> HIDE DEF g
<1>9. Elements(mem_queue)' = before'.mem_queue \o [k \in 1 .. g |-> table[k - 1]]
  BY <1>1, <1>2, <1>4 DEF g
<1>10. user_used' = Less(before.user_used, g - 1)
  BY <1>1, <1>4, <1>7
<1>11. call'.i + 1 = g
  BY <1>i, <1>2, <1>4 DEF g
<1>12. DestroyBegun'
  BY <1>p, <1>f, <1>t, <1>1, <1>2, <1>4, <1>6, <1>7, <1>8, <1>9, <1>10, <1>11
     DEF DestroyBegun, Less
<1> QED BY <1>6, <1>12 DEF History

\* Taking pages off one by one.
LEMMA LessOne ==
  ASSUME NEW bytes \in Nat, NEW d \in Nat
  PROVE  Less(bytes, d + 1) = IF Less(bytes, d) < SIZE_OF_PAGE THEN 0
                              ELSE Less(bytes, d) - SIZE_OF_PAGE
<1> DEFINE a == d * SIZE_OF_PAGE
<1>1. a \in Nat /\ SIZE_OF_PAGE \in Nat \ {0} /\ (d + 1) * SIZE_OF_PAGE = a + SIZE_OF_PAGE
  BY KernelAssumption
<1>2. /\ Less(bytes, d) = IF bytes < a THEN 0 ELSE bytes - a
      /\ Less(bytes, d + 1) = IF bytes < a + SIZE_OF_PAGE THEN 0 ELSE bytes - (a + SIZE_OF_PAGE)
  BY <1>1 DEF Less
<1> HIDE DEF a
<1> QED BY <1>1, <1>2

\* The page that has come back is taken off.
LEMMA DiscountHistory ==
  ASSUME CallsInv, History, Discount
  PROVE  History'
<1>p. PICK p : p = call.proc
  OBVIOUS
<1>s. PICK s : s = Used(p)
  OBVIOUS
<1>f. PICK first : first = OldTable.size
  OBVIOUS
<1>t. PICK table : table = OldTable.table
  OBVIOUS
<1> DEFINE g == first - s
<1>1. /\ call.at = "discount" /\ Destroying(call.proc) /\ before' = before
      /\ user_used' = IF user_used < SIZE_OF_PAGE THEN 0 ELSE user_used - SIZE_OF_PAGE
      /\ UNCHANGED <<mem_queue, sys_used, pidQueue, PCBs, procSize>>
  BY DEF Discount, At, Destroying
<1>2. /\ call'.at = "scan" /\ call'.proc = call.proc /\ call'.n = call.n /\ call'.i = call.i + 1
  <2>1. call = [at |-> call.at, proc |-> call.proc, bytes |-> call.bytes, n |-> call.n, i |-> call.i]
    BY DEF CallsInv, CallTyped
  <2>2. call' = [at |-> "scan", proc |-> call.proc, bytes |-> call.bytes, n |-> call.n, i |-> call.i + 1]
    BY <2>1 DEF Discount
  <2> QED BY <2>2
<1>3. /\ p \in Pids /\ s \in Nat /\ first \in Nat /\ s <= first
      /\ g \in Nat /\ Gone = g /\ before.user_used \in Nat /\ call.i \in Nat
      /\ \A e \in Entries : PageOf(p, e) = IF e < g THEN PAGE_NOT_USED ELSE table[e]
  BY <1>p, <1>s, <1>f, <1>t, <1>1, GoneFacts
<1> HIDE DEF g
<1>4. /\ OldPCB.pid = p /\ sys_used = before.sys_used
      /\ Elements(pidQueue) = Append(before.pidQueue, p)
      /\ call.i + 1 = g
      /\ Elements(mem_queue) = before.mem_queue \o [k \in 1 .. g |-> table[k - 1]]
      /\ user_used = Less(before.user_used, g - 1)
  BY <1>p, <1>t, <1>1, <1>3 DEF History, DestroyBegun
<1>5. user_used' = Less(before.user_used, g)
  <2>1. g - 1 \in Nat /\ (g - 1) + 1 = g
    BY <1>3, <1>4
  <2>2. Less(before.user_used, (g - 1) + 1) =
          IF Less(before.user_used, g - 1) < SIZE_OF_PAGE THEN 0
          ELSE Less(before.user_used, g - 1) - SIZE_OF_PAGE
    BY <1>3, <2>1, LessOne
  <2> QED BY <1>1, <1>4, <2>1, <2>2
<1>6. /\ CountersTyped' /\ BeforeKept' /\ LoadBegun' /\ GrowBegun' /\ AllocateBegun'
      /\ OldPCB' = OldPCB /\ OldTable' = OldTable /\ Destroying(call.proc)'
  <2>1. user_used' \in Nat
    <3>1. user_used \in Nat /\ SIZE_OF_PAGE \in Nat
      BY KernelAssumption DEF History, CountersTyped
    <3> QED BY <1>1, <3>1
  <2> QED BY <1>1, <1>2, <2>1, DestroyingGoesOn
<1>7. /\ Used(p)' = s /\ \A e \in Entries : PageOf(p, e)' = PageOf(p, e)
  BY <1>s, <1>1 DEF Used, PageOf
<1>8. Gone' = g /\ call'.i = g
  BY <1>p, <1>f, <1>2, <1>4, <1>6, <1>7 DEF Gone, g
<1>9. DestroyBegun'
  <2>1. Used(p)' <= OldTable'.size
    BY <1>f, <1>3, <1>6, <1>7
  <2>2. \A e \in Entries : PageOf(p, e)' = IF e < g THEN PAGE_NOT_USED ELSE OldTable'.table[e]
    BY <1>t, <1>3, <1>6, <1>7
  <2>3. Elements(mem_queue)' = before'.mem_queue \o [k \in 1 .. g |-> OldTable'.table[k - 1]]
    BY <1>t, <1>1, <1>4, <1>6
  <2> QED BY <1>p, <1>1, <1>2, <1>4, <1>5, <1>6, <1>8, <2>1, <2>2, <2>3 DEF DestroyBegun, Less
<1> QED BY <1>6, <1>9 DEF History

-----------------------------------------------------------------------------
(* The calls return, or stop. *)

LEMMA ReturnHistory ==
  ASSUME CallsInv, History, Resize \/ Rebuild
  PROVE  History'
<1>1. call' = NoCall /\ call'.at = "idle" /\ call'.n = 0
  BY DEF Resize, Rebuild, Return, NoCall
<1>2. ~InCall' /\ ~Destroying(call.proc)'
  BY <1>1 DEF InCall, Destroying
<1>3. BeforeKept' /\ LoadBegun' /\ GrowBegun' /\ AllocateBegun' /\ DestroyBegun'
  BY <1>2 DEF BeforeKept, LoadBegun, GrowBegun, AllocateBegun, DestroyBegun
<1>4. call.proc \in Pids
  BY DEF CallsInv, CallTyped
<1>5. /\ user_used \in Nat /\ sys_used \in Nat /\ procSize \in [Pids -> Nat]
      /\ \A r \in Pids : PCBs[r].pid = MAX_PID => procSize[r] = 0
  BY DEF History, CountersTyped
<1>6. CASE Resize
  <2>1. /\ call.at = "resize" /\ procSize' = [procSize EXCEPT ![call.proc] = @ + call.bytes]
        /\ UNCHANGED <<user_used, sys_used, PCBs>>
    BY <1>6 DEF Resize, At, memVars
  <2>2. InCall /\ ~Destroying(call.proc)
    BY <2>1 DEF InCall, Destroying
  <2>3. call.bytes \in Nat /\ PCBs[call.proc].pid # MAX_PID
    <3>1. call.bytes \in CallSizes
      BY <2>2 DEF History, LoadBegun, GrowBegun
    <3>2. call.bytes \in Nat
      <4>1. call.bytes \in 0 .. MAX_SIZE_OF_PROGRAM
        BY <3>1, CallSizesAssumption
      <4> QED BY <4>1
    <3>3. PCBs[call.proc].pid # MAX_PID
      BY <1>4, <2>2, Sizes DEF History, LoadBegun, GrowBegun, Loading
    <3> QED BY <3>2, <3>3
  <2>4. /\ procSize' \in [Pids -> Nat]
        /\ \A r \in Pids : r # call.proc => procSize'[r] = procSize[r]
    BY <1>4, <1>5, <2>1, <2>3
  <2>5. CountersTyped'
    BY <1>1, <1>5, <2>1, <2>3, <2>4 DEF CountersTyped
  <2> QED BY <1>3, <2>5 DEF History
<1>7. CASE Rebuild
  <2>1. /\ procSize' = [procSize EXCEPT ![call.proc] = 0]
        /\ PCBs' = [PCBs EXCEPT ![call.proc] = initPCB(@)]
        /\ UNCHANGED <<user_used, sys_used>>
    BY <1>7 DEF Rebuild, memVars
  <2>2. /\ procSize' \in [Pids -> Nat] /\ procSize'[call.proc] = 0
        /\ \A r \in Pids : r # call.proc => procSize'[r] = procSize[r] /\ PCBs'[r] = PCBs[r]
    BY <1>4, <1>5, <2>1 DEF CallsInv, PCBsTyped
  <2>3. CountersTyped'
    BY <1>1, <1>5, <2>1, <2>2 DEF CountersTyped
  <2> QED BY <1>3, <2>3 DEF History
<1> QED BY <1>6, <1>7

\* An assert that fails leaves everything as it is.
LEMMA StayHistory ==
  ASSUME History,
         UNCHANGED <<mem_queue, user_used, sys_used, pidQueue, PCBs, procSize, call, before>>
  PROVE  History'
<1>1. CountersTyped' /\ BeforeKept'
  <2>1. \A r \in Pids : (Seen.PCBs[r])' = Seen.PCBs[r]
    BY DEF Seen
  <2> QED BY <2>1 DEF History, CountersTyped, BeforeKept, InCall, OldPCB, OldTable, ListFrom
<1>2. LoadBegun' /\ GrowBegun'
  BY DEF History, LoadBegun, GrowBegun, InCall, Loading, Destroying, OldPCB, OldTable, OldNeed,
         Elements, Entry
<1>3. AllocateBegun'
  BY DEF History, AllocateBegun, InCall, Loading, Destroying, OldPCB, OldTable, OldNeed,
         OldRemainder, NothingNeeded, Written, Used, PageOf, Elements, Entry
<1>4. DestroyBegun'
  BY DEF History, DestroyBegun, Destroying, OldPCB, OldTable, Gone, Less, Used, PageOf,
         Elements, Entry
<1> QED BY <1>1, <1>2, <1>3, <1>4 DEF History

LEMMA InitHistory ==
  Init => History
<1> SUFFICES ASSUME Init
             PROVE  History
  OBVIOUS
<1>1. call = NoCall /\ call.at = "idle" /\ call.n = 0
  BY DEF Init, NoCall
<1>2. ~InCall /\ ~Destroying(call.proc)
  BY <1>1 DEF InCall, Destroying
<1>3. CountersTyped
  <2>1. user_used = 0 /\ sys_used = SYS_USED_AT_BOOT /\ procSize = [p \in Pids |-> 0]
    BY DEF Init
  <2> QED BY <1>1, <2>1, KernelAssumption DEF CountersTyped
<1> QED BY <1>2, <1>3
      DEF History, BeforeKept, LoadBegun, GrowBegun, AllocateBegun, DestroyBegun

LEMMA HistoryKept ==
  ASSUME CallsInv, History, [Next]_vars
  PROVE  History'
<1>1. CASE UNCHANGED <<mem_queue, user_used, sys_used, pidQueue, PCBs, procSize, call, before>>
  BY <1>1, StayHistory
<1>2. CASE \E bytes \in CallSizes : BeginLoad(bytes)
  BY <1>2, BeginLoadHistory
<1>3. CASE \E p \in Pids, bytes \in CallSizes : BeginGrow(p, bytes)
  BY <1>3, BeginGrowHistory
<1>4. CASE \E p \in Pids : BeginDestroy(p)
  BY <1>4, BeginDestroyHistory
<1>5. CASE loadProgram /\ GoTo("allocate")
  BY <1>5, LoadHistory
<1>6. CASE Allocate /\ GoTo("write")
  BY <1>6, AllocateHistory
<1>7. CASE Write /\ GoTo("pop")
  BY <1>7, WriteHistory
<1>8. CASE loadProgram \/ Allocate \/ Write
  BY <1>1, <1>5, <1>6, <1>7, <1>8 DEF loadProgram, Allocate, Write, Stop, memVars
<1>9. CASE Pop \/ Count
  BY <1>9, PopHistory, CountHistory
<1>10. CASE Resize \/ Rebuild
  BY <1>10, ReturnHistory
<1>11. CASE Scan \/ Recycle \/ Discount
  BY <1>11, ScanHistory, RecycleHistory, DiscountHistory
<1>12. CASE UNCHANGED vars
  BY <1>1, <1>12 DEF vars, memVars
<1>13. CASE \E p \in Pids, bytes \in CallSizes : GrowTooFar(p, bytes)
  BY <1>1, <1>13 DEF GrowTooFar, Stop, memVars
<1> QED BY <1>2, <1>3, <1>4, <1>8, <1>9, <1>10, <1>11, <1>12, <1>13 DEF Next, Step

LEMMA HistoryInvariant ==
  Spec => []History
BY InitHistory, HistoryKept, CallsInvariant, PTL DEF Spec

-----------------------------------------------------------------------------
(* The calls and the operators of Kernel. *)

\* In a call, the caller still sees what the kernel held when it began.
LEMMA SettledInCall ==
  ASSUME InCall
  PROVE  /\ Settled = before
         /\ Atomic!PagesFree(call.proc) =
              OldTable.size * SIZE_OF_PAGE - before.procSize[call.proc]
         /\ Atomic!getUserRemainder = OldRemainder
BY DEF InCall, Settled, OldTable, OldPCB, OldRemainder, Atomic!PagesFree, Atomic!getUserRemainder

\* The assert that stops mem_allocate_user, from what the kernel held.
LEMMA AllocateFaultIs ==
  ASSUME InCall, NEW n \in Int, NEW m \in Int, m = Atomic!PagesTaken(n),
         NEW free \in Int, free = Len(before.mem_queue),
         NEW listed \in Int, listed = Len(OldTable.queue),
         NEW first \in Int, first = OldTable.size,
         NEW rest \in Int, rest = OldRemainder,
         NEW fault, fault = Atomic!AllocateFault(call.proc, n)
  PROVE  /\ n > rest => fault = "remainder"
         /\ n <= rest /\ m <= free /\ m <= listed /\ first + m - 1 <= PAGE_CAPACITY
            => fault = "none"
         /\ n <= rest /\ m > free /\ free <= listed => fault = "mem_queue"
         /\ n <= rest /\ m > listed /\ free > listed => fault = "page_table"
<1> DEFINE a == n > rest
           b == /\ n <= rest
                /\ m <= free
                /\ m <= listed
                /\ first + m - 1 <= PAGE_CAPACITY
           c == /\ n <= rest
                /\ m > free
                /\ free <= listed
<1>1. Settled.mem_queue = before.mem_queue /\ Settled.PCBs[call.proc].page_table = OldTable
      /\ Atomic!getUserRemainder = rest
  BY SettledInCall DEF OldTable, OldPCB
<1>2. fault = CASE a -> "remainder" [] b -> "none" [] c -> "mem_queue" [] OTHER -> "page_table"
  BY <1>1 DEF Atomic!AllocateFault
<1>3. /\ a => ~b /\ ~c
      /\ b => ~a /\ ~c
      /\ c => ~a /\ ~b
      /\ n <= rest /\ m > listed /\ free > listed => ~a /\ ~b /\ ~c
  OBVIOUS
<1>4. /\ a => fault = "remainder"
      /\ b => fault = "none"
      /\ c => fault = "mem_queue"
      /\ n <= rest /\ m > listed /\ free > listed => fault = "page_table"
  <2> HIDE DEF a, b, c
  <2>1. a /\ ~b /\ ~c => fault = "remainder"
    BY <1>2, Zenon
  <2>2. b /\ ~a /\ ~c => fault = "none"
    BY <1>2, Zenon
  <2>3. c /\ ~a /\ ~b => fault = "mem_queue"
    BY <1>2, Zenon
  <2>4. ~a /\ ~b /\ ~c => fault = "page_table"
    BY <1>2, Zenon
  <2> QED BY <1>3, <2>1, <2>2, <2>3, <2>4
<1> QED BY <1>4

\* A call that gets as far as mem_allocate_user stops where that stops.
LEMMA FaultOfCall ==
  ASSUME CallsInv, History, InCall, ~Destroying(call.proc),
         NEW fault, fault = Atomic!AllocateFault(call.proc, call.n)
  PROVE  /\ Loading /\ call.at # "loadProgram" => Atomic!LoadFault(call.proc, call.bytes) = fault
         /\ ~Loading /\ OldNeed # 0 => Atomic!GrowFault(call.proc, call.bytes) = fault
         /\ ~Loading /\ OldNeed = 0 => Atomic!GrowFault(call.proc, call.bytes) = "none"
         /\ ~Loading => Atomic!Need(call.proc, call.bytes) = OldNeed
<1>1. Settled.sys_used = before.sys_used /\ before.procSize = procSize
  BY SettledInCall DEF History, BeforeKept
<1>2. Atomic!Need(call.proc, call.bytes) = OldNeed
  BY <1>1, SettledInCall DEF Atomic!Need, OldNeed
<1>3. ASSUME Loading, call.at # "loadProgram"
      PROVE  Atomic!LoadFault(call.proc, call.bytes) = fault
  <2>1. /\ call.bytes # 0 /\ before.sys_used + SIZE_OF_PCB <= USER_ADDR_OFFSET
        /\ sys_used = before.sys_used + SIZE_OF_PCB /\ call.n = byte2Page(call.bytes)
    BY <1>3 DEF History, LoadBegun
  <2>2. sys_used \in Nat /\ USER_ADDR_OFFSET \in Nat
    <3>1. sys_used \in Nat
      BY DEF History, CountersTyped
    <3>2. USER_ADDR_OFFSET \in Nat
      BY KernelAssumption DEF USER_ADDR_OFFSET
    <3> QED BY <3>1, <3>2
  <2>3. ~(before.sys_used + SIZE_OF_PCB > USER_ADDR_OFFSET)
    BY <2>1, <2>2
  <2>4. Atomic!byte2Page(call.bytes) = call.n
    BY <2>1 DEF byte2Page, Atomic!byte2Page
  <2>5. Atomic!LoadFault(call.proc, call.bytes) =
          CASE call.bytes = 0 -> "empty_program"
            [] call.bytes # 0 /\ before.sys_used + SIZE_OF_PCB > USER_ADDR_OFFSET -> "sys_used"
            [] OTHER -> fault
    BY <1>1, <2>4 DEF Atomic!LoadFault, Atomic!USER_ADDR_OFFSET, USER_ADDR_OFFSET
  <2> QED BY <2>1, <2>3, <2>5, Zenon
<1>4. ASSUME ~Loading
      PROVE  Atomic!GrowFault(call.proc, call.bytes) = IF OldNeed = 0 THEN "none" ELSE fault
  <2>1. call.n = byte2Page(OldNeed)
    BY <1>4 DEF History, GrowBegun
  <2>2. Atomic!byte2Page(Atomic!Need(call.proc, call.bytes)) = call.n
    BY <1>2, <2>1 DEF byte2Page, Atomic!byte2Page
  <2> QED BY <1>2, <2>2 DEF Atomic!GrowFault
<1> QED BY <1>2, <1>3, <1>4

\* A call that an assert stops is stopped as a whole.
LEMMA StopIsCall ==
  ASSUME CallsInv, History, status = "running", InCall, ~Destroying(call.proc),
         call' = call, before' = before, NEW fault, status' = fault, fault # "none",
         Loading => Atomic!LoadFault(call.proc, call.bytes) = fault,
         ~Loading => Atomic!GrowFault(call.proc, call.bytes) = fault
  PROVE  Atomic!AtomicNext
<1>1. Settled = before /\ Settled' = Settled
  BY DEF InCall, Settled
<1>2. Atomic!Stop(fault)
  BY <1>1 DEF Atomic!Stop, Atomic!kernelVars
<1>3. call.proc \in Pids
  BY DEF CallsInv, CallTyped
<1>4. CASE Loading
  <2>1. /\ call.bytes \in CallSizes /\ before.pidQueue # <<>>
        /\ call.proc = Head(before.pidQueue)
    BY <1>4 DEF History, LoadBegun
  <2>2. Atomic!LoadCall(call.bytes)
    BY <1>1, <1>2, <1>4, <2>1 DEF Atomic!LoadCall
  <2> QED BY <2>1, <2>2 DEF Atomic!AtomicNext
<1>5. CASE ~Loading
  <2>1. call.bytes \in CallSizes /\ call.bytes <= MAX_SIZE_OF_PROGRAM - procSize[call.proc]
        /\ before.procSize = procSize
    BY <1>5 DEF History, GrowBegun, BeforeKept
  <2>2. Atomic!Running(call.proc)
    BY <1>1, <1>5 DEF Atomic!Running, Loading, OldPCB
  <2>3. Atomic!GrowCall(call.proc, call.bytes)
    BY <1>1, <1>2, <1>5, <2>1, <2>2
       DEF Atomic!GrowCall, Atomic!MAX_SIZE_OF_PROGRAM, MAX_SIZE_OF_PROGRAM
  <2> QED BY <1>3, <2>1, <2>3 DEF Atomic!AtomicNext, Atomic!Pids, Pids
<1> QED BY <1>4, <1>5

\* loadProgram's asserts.
LEMMA LoadStops ==
  ASSUME CallsInv, History, loadProgram, ~GoTo("allocate")
  PROVE  Atomic!AtomicNext
<1>1. /\ status = "running" /\ call.at = "loadProgram" /\ call' = call /\ before' = before
      /\ \/ call.bytes = 0 /\ status' = "empty_program"
         \/ /\ call.bytes # 0 /\ sys_used + SIZE_OF_PCB > USER_ADDR_OFFSET
            /\ status' = "sys_used"
  BY DEF loadProgram, At, Stop
<1>2. InCall /\ ~Destroying(call.proc)
  BY <1>1 DEF InCall, Destroying
<1>3. Loading
  BY <1>1, <1>2 DEF History, GrowBegun
<1>4. sys_used = before.sys_used /\ Settled.sys_used = before.sys_used
  BY <1>1, <1>2, <1>3, SettledInCall DEF History, LoadBegun
<1>5. PICK other : other = Atomic!AllocateFault(call.proc, Atomic!byte2Page(call.bytes))
  OBVIOUS
<1>6. Atomic!LoadFault(call.proc, call.bytes) =
        CASE call.bytes = 0 -> "empty_program"
          [] call.bytes # 0 /\ sys_used + SIZE_OF_PCB > USER_ADDR_OFFSET -> "sys_used"
          [] OTHER -> other
  BY <1>4, <1>5 DEF Atomic!LoadFault, Atomic!USER_ADDR_OFFSET, USER_ADDR_OFFSET
<1>7. Atomic!LoadFault(call.proc, call.bytes) = status'
  BY <1>1, <1>6, Zenon
<1>8. status' # "none"
  BY <1>1
<1>9. PICK fault : fault = status'
  OBVIOUS
<1> QED BY <1>1, <1>2, <1>3, <1>7, <1>8, <1>9, StopIsCall

\* What the call has done, in numbers.
LEMMA CallCounts ==
  ASSUME CallsInv, History, InCall, ~Destroying(call.proc)
  PROVE  /\ call.n \in Nat /\ call.i \in Nat /\ Atomic!PagesTaken(call.n) \in Nat
         /\ Len(before.mem_queue) \in Nat /\ OldTable.size \in Nat
         /\ PAGE_CAPACITY \in Nat /\ OldRemainder \in Int
         /\ Len(OldTable.queue) = PAGE_CAPACITY - OldTable.size
         /\ Len(OldTable.queue) \in Nat
         /\ call.i <= Len(before.mem_queue)
         /\ Used(call.proc) = OldTable.size + Written
         /\ Used(call.proc) <= PAGE_CAPACITY
         /\ mem_queue.size = Len(before.mem_queue) - call.i
<1>1. /\ call.n \in Nat /\ call.i \in Nat /\ call.proc \in Pids
      /\ before.mem_queue \in Seq(UserPages) /\ Len(before.mem_queue) \in Nat
      /\ OldTable.size \in Nat /\ OldTable.size <= PAGE_CAPACITY
  BY UnderWay
<1>2. /\ call.i <= Len(before.mem_queue) /\ Used(call.proc) = OldTable.size + Written
      /\ Elements(mem_queue) = SubSeq(before.mem_queue, call.i + 1, Len(before.mem_queue))
  BY DEF History, AllocateBegun
<1>3. Used(call.proc) \in 0 .. PAGE_CAPACITY /\ PAGE_CAPACITY \in Nat
  BY <1>1, Fields, Sizes DEF CallsInv
<1>4. Atomic!PagesTaken(call.n) \in Nat
  BY <1>1 DEF Atomic!PagesTaken
<1>5. OldRemainder \in Int
  <2>1. /\ before.user_used \in Nat /\ SIZE_OF_PAGE \in Nat \ {0} /\ BASE_MOD \in Nat \ {0}
        /\ NUM_OF_PAGE_FOR_USER \in Nat
    BY UnderWay, Sizes
  <2>2. PICK a \in Int : a = NUM_OF_PAGE_FOR_USER - before.user_used \div SIZE_OF_PAGE
    BY <2>1
  <2>3. a % BASE_MOD \in 0 .. BASE_MOD - 1
    BY <2>1, ModRange
  <2> QED BY <2>2, <2>3 DEF OldRemainder
<1>6. Len(OldTable.queue) = PAGE_CAPACITY - OldTable.size /\ PAGE_CAPACITY - OldTable.size \in Nat
  <2>1. OldTable.queue = ListFrom(OldTable.size)
    BY DEF History, BeforeKept
  <2>2. PICK s : s = OldTable.size
    OBVIOUS
  <2>3. PAGE_CAPACITY - s \in Nat
    BY <1>1, <1>3, <2>2
  <2>4. Len(ListFrom(s)) = PAGE_CAPACITY - s
    BY <2>3 DEF ListFrom
  <2> QED BY <2>1, <2>2, <2>3, <2>4
<1>7. mem_queue.size = Len(before.mem_queue) - call.i
  <2>1. call.i \in 0 .. Len(before.mem_queue)
    BY <1>1, <1>2
  <2>2. Len(SubSeq(before.mem_queue, call.i + 1, Len(before.mem_queue)))
          = Len(before.mem_queue) - call.i
    BY <1>1, <2>1, DropFirst
  <2> QED BY <1>2, <2>2, FreeSequences
<1> QED BY <1>1, <1>2, <1>3, <1>4, <1>5, <1>6, <1>7

\* The assert of mem_allocate_user, and those of its loop.
LEMMA AllocateStops ==
  ASSUME CallsInv, History,
         \/ Allocate /\ ~GoTo("write")
         \/ Write /\ ~GoTo("pop")
  PROVE  Atomic!AtomicNext
<1>1. /\ status = "running" /\ call.at \in {"allocate", "write"}
      /\ call' = call /\ before' = before
      /\ \/ call.at = "allocate" /\ call.n > Remainder /\ status' = "remainder"
         \/ call.at = "write" /\ queue_empty(mem_queue) /\ status' = "mem_queue"
         \/ /\ call.at = "write" /\ ~queue_empty(mem_queue)
            /\ Table.size > PAGE_CAPACITY \/ queue_empty(Table.queue)
            /\ status' = "page_table"
  BY DEF Allocate, Write, At, Stop
<1>2. InCall /\ ~Destroying(call.proc)
  BY <1>1 DEF InCall, Destroying
<1>3. PICK n : n = call.n
  OBVIOUS
<1>4. PICK m : m = Atomic!PagesTaken(n)
  OBVIOUS
<1>5. PICK i : i = call.i
  OBVIOUS
<1>6. PICK free : free = Len(before.mem_queue)
  OBVIOUS
<1>7. PICK listed : listed = Len(OldTable.queue)
  OBVIOUS
<1>8. PICK first : first = OldTable.size
  OBVIOUS
<1>9. PICK rest : rest = OldRemainder
  OBVIOUS
<1>10. PICK fault : fault = Atomic!AllocateFault(call.proc, n)
  OBVIOUS
<1>11. /\ n \in Int /\ i \in Int /\ m \in Int /\ free \in Int /\ first \in Int /\ rest \in Int
       /\ listed \in Int /\ PAGE_CAPACITY \in Int /\ listed = PAGE_CAPACITY - first
       /\ mem_queue.size = free - i
  BY <1>2, <1>3, <1>4, <1>5, <1>6, <1>7, <1>8, <1>9, CallCounts
<1>12. /\ n > rest => fault = "remainder"
       /\ n <= rest /\ m > free /\ free <= listed => fault = "mem_queue"
       /\ n <= rest /\ m > listed /\ free > listed => fault = "page_table"
  BY <1>2, <1>3, <1>4, <1>6, <1>7, <1>8, <1>9, <1>10, <1>11, AllocateFaultIs
<1>13. status' = fault
  <2>1. CASE call.at = "allocate"
    <3>1. user_used = before.user_used
      <4>1. user_used = before.user_used + 0
        BY <1>2, <2>1 DEF History, AllocateBegun
      <4> QED BY <1>2, <4>1, UnderWay
    <3>2. Remainder = rest
      BY <1>9, <3>1 DEF Remainder, OldRemainder
    <3> QED BY <1>1, <1>3, <1>12, <2>1, <3>2
  <2>2. CASE call.at = "write"
    <3>1. n <= rest /\ i < m
      BY <1>2, <1>3, <1>4, <1>5, <1>9, <2>2 DEF History, AllocateBegun
    <3>2. Used(call.proc) = first + i /\ Used(call.proc) <= PAGE_CAPACITY
      <4>1. Written = i
        BY <1>5, <2>2 DEF Written
      <4> QED BY <1>2, <1>8, <4>1, CallCounts
    <3>3. CASE queue_empty(mem_queue) /\ status' = "mem_queue"
      <4>1. free = i
        BY <1>11, <3>3 DEF queue_empty
      <4>2. m > free /\ free <= listed
        BY <1>11, <3>1, <3>2, <4>1
      <4> QED BY <1>12, <3>1, <3>3, <4>2
    <3>4. CASE /\ ~queue_empty(mem_queue) /\ status' = "page_table"
               /\ Table.size > PAGE_CAPACITY \/ queue_empty(Table.queue)
      <4>1. Table.size = Used(call.proc) /\ Table.queue = Listed(call.proc)
        BY DEF Table, Used, Listed
      <4>2. queue_empty(Listed(call.proc))
        <5>1. ~(Table.size > PAGE_CAPACITY)
          BY <1>11, <3>2, <4>1
        <5> QED BY <3>4, <4>1, <5>1
      <4>3. Listed(call.proc).size = PAGE_CAPACITY - Used(call.proc)
        BY DEF CallsInv, CallTyped, EntriesListed
      <4>4. listed = i
        BY <1>11, <3>2, <4>2, <4>3 DEF queue_empty
      <4>5. mem_queue.size # 0 /\ mem_queue.size \in Nat
        BY <3>4, FreeFacts DEF queue_empty
      <4>6. m > listed /\ free > listed
        BY <1>11, <3>1, <4>4, <4>5
      <4> QED BY <1>12, <3>1, <3>4, <4>6
    <3> QED BY <1>1, <2>2, <3>3, <3>4
  <2> QED BY <1>1, <2>1, <2>2
<1>14. fault # "none"
  BY <1>1, <1>13
<1>15. /\ Loading => Atomic!LoadFault(call.proc, call.bytes) = fault
       /\ ~Loading => Atomic!GrowFault(call.proc, call.bytes) = fault
  <2>1. call.at # "loadProgram"
    BY <1>1
  <2>2. ~Loading => OldNeed # 0
    BY <1>1, <1>2 DEF History, GrowBegun
  <2> QED BY <1>2, <1>3, <1>10, <2>1, <2>2, FaultOfCall
<1> QED BY <1>1, <1>2, <1>13, <1>14, <1>15, StopIsCall

-----------------------------------------------------------------------------
(* The calls that return. *)

\* The list of a table after m entries have been taken from it.
LEMMA ListDropped ==
  ASSUME NEW s \in Nat, NEW m \in Nat, s + m <= PAGE_CAPACITY
  PROVE  SubSeq(ListFrom(s), m + 1, Len(ListFrom(s))) = ListFrom(s + m)
<1> DEFINE C == PAGE_CAPACITY
<1>1. C \in Nat /\ C - s \in Nat /\ C - (s + m) \in Nat /\ m \in 0 .. C - s
      /\ (C - s) - m = C - (s + m)
  BY Sizes
<1>2. PICK a : a = ListFrom(s)
  OBVIOUS
<1>3. PICK b : b = ListFrom(s + m)
  OBVIOUS
<1>4. a \in Seq(Nat) /\ Len(a) = C - s /\ \A k \in 1 .. C - s : a[k] = s + k - 1
  BY <1>1, <1>2 DEF ListFrom
<1>5. b \in Seq(Nat) /\ Len(b) = C - (s + m) /\ \A k \in 1 .. C - (s + m) : b[k] = (s + m) + k - 1
  BY <1>1, <1>3 DEF ListFrom
<1>6. PICK d : d = SubSeq(a, m + 1, Len(a))
  OBVIOUS
<1>7. /\ d \in Seq(Nat) /\ Len(d) = Len(a) - m
      /\ \A k \in 1 .. Len(a) - m : d[k] = a[m + k]
  BY <1>1, <1>4, <1>6, DropFirst
<1>8. ASSUME NEW k \in 1 .. Len(b)
      PROVE  d[k] = b[k]
  <2>1. k \in 1 .. Len(a) - m /\ m + k \in 1 .. C - s /\ s + (m + k) - 1 = (s + m) + k - 1
    BY <1>1, <1>4, <1>5
  <2> QED BY <1>4, <1>5, <1>7, <2>1
<1>9. Len(d) = Len(b)
  BY <1>1, <1>4, <1>5, <1>7
<1>10. d = b
  BY <1>5, <1>7, <1>8, <1>9, SeqEqual
<1> QED BY <1>2, <1>3, <1>6, <1>10

\* The page table that m calls of writePageTable leave.
LEMMA WrittenTable ==
  ASSUME InCall, BeforeKept, NEW first, first = OldTable.size,
         NEW m \in Nat, first + m <= PAGE_CAPACITY,
         NEW table, DOMAIN table = Entries, table = [e \in Entries |-> table[e]],
         \A e \in Entries : table[e] = IF first <= e /\ e < first + m
                                       THEN before.mem_queue[e - first + 1]
                                       ELSE OldTable.table[e]
  PROVE  Atomic!WritePageTable(OldTable, m) =
           [table |-> table, size |-> first + m, queue |-> ListFrom(first + m)]
<1>1. /\ first \in Nat /\ PAGE_CAPACITY \in Nat /\ OldTable.queue = ListFrom(first)
      /\ Settled.mem_queue = before.mem_queue
  BY SettledInCall, Sizes DEF BeforeKept
<1>2. PICK list : list = ListFrom(first)
  OBVIOUS
<1>3. PICK old : old = OldTable.table
  OBVIOUS
<1>4. PICK pages : pages = before.mem_queue
  OBVIOUS
<1>5. Atomic!WritePageTable(OldTable, m) =
        [table |-> [e \in Entries |->
                      IF \E k \in 1 .. m : list[k] = e
                      THEN pages[CHOOSE k \in 1 .. m : list[k] = e]
                      ELSE old[e]],
         size  |-> first + m,
         queue |-> SubSeq(list, m + 1, Len(list))]
  BY <1>1, <1>2, <1>3, <1>4 DEF Atomic!WritePageTable, Atomic!Entries, Entries
<1>6. SubSeq(list, m + 1, Len(list)) = ListFrom(first + m)
  BY <1>1, <1>2, ListDropped
<1>7. \A k \in 1 .. m : list[k] = first + k - 1
  BY <1>1, <1>2 DEF ListFrom
<1>8. ASSUME NEW e \in Entries
      PROVE  table[e] = IF \E k \in 1 .. m : list[k] = e
                        THEN pages[CHOOSE k \in 1 .. m : list[k] = e]
                        ELSE old[e]
  <2>1. e \in Nat
    BY Sizes
  <2>2. \A k \in 1 .. m : list[k] = e <=> k = e - first + 1
    BY <1>1, <1>7, <2>1
  <2>3. CASE first <= e /\ e < first + m
    <3>1. PICK j : j = e - first + 1
      OBVIOUS
    <3>2. j \in 1 .. m
      BY <1>1, <2>1, <2>3, <3>1
    <3>3. (CHOOSE k \in 1 .. m : list[k] = e) = j
      BY <2>2, <3>1, <3>2
    <3>4. \E k \in 1 .. m : list[k] = e
      BY <2>2, <3>1, <3>2
    <3>5. table[e] = pages[j]
      BY <1>4, <2>3, <3>1
    <3> QED BY <3>3, <3>4, <3>5
  <2>4. CASE ~(first <= e /\ e < first + m)
    <3>1. \A k \in 1 .. m : list[k] # e
      BY <1>1, <1>7, <2>1, <2>4
    <3>2. table[e] = old[e]
      BY <1>3, <2>4
    <3> QED BY <3>1, <3>2
  <2> QED BY <2>3, <2>4
<1>9. table = [e \in Entries |->
                 IF \E k \in 1 .. m : list[k] = e
                 THEN pages[CHOOSE k \in 1 .. m : list[k] = e]
                 ELSE old[e]]
  BY <1>8
<1> QED BY <1>5, <1>6, <1>9

\* What the caller sees when a loading or growing call returns.
LEMMA ResizeSees ==
  ASSUME CallsInv, History, Resize, NEW p, p = call.proc
  PROVE  /\ call.at = "resize" /\ status = "running" /\ status' = status
         /\ InCall /\ ~Destroying(p) /\ p \in Pids /\ Settled = before
         /\ before.procSize = procSize /\ procSize \in [Pids -> Nat]
         /\ Settled'.mem_queue = Elements(mem_queue) /\ Settled'.user_used = user_used
         /\ Settled'.sys_used = sys_used /\ Settled'.pidQueue = Elements(pidQueue)
         /\ Settled'.procSize = [procSize EXCEPT ![p] = @ + call.bytes]
         /\ Settled'.PCBs = [r \in Pids |-> Seen.PCBs[r]]
         /\ before.PCBs = [r \in Pids |-> before.PCBs[r]]
         /\ \A r \in Pids : r # p => Seen.PCBs[r] = before.PCBs[r]
         /\ Seen.PCBs[p] =
              [pid |-> PCBs[p].pid, status |-> PCBs[p].status, page_table |->
                 [table |-> PCBs[p].page_table.table, size |-> Used(p),
                  queue |-> ListFrom(Used(p))]]
<1>1. /\ call.at = "resize" /\ status = "running" /\ status' = status /\ call'.at = "idle"
      /\ UNCHANGED <<mem_queue, user_used, sys_used, pidQueue, PCBs>>
      /\ procSize' = [procSize EXCEPT ![p] = @ + call.bytes]
  BY DEF Resize, At, Return, NoCall, memVars
<1>2. InCall /\ ~Destroying(p) /\ p \in Pids
  BY <1>1 DEF InCall, Destroying, CallsInv, CallTyped
<1>3. Settled = before /\ Settled' = Seen'
  BY <1>1 DEF Settled
<1>4. /\ Seen.PCBs = [r \in Pids |-> Seen.PCBs[r]]
      /\ Seen.PCBs[p] =
           [pid |-> PCBs[p].pid, status |-> PCBs[p].status, page_table |->
              [table |-> PCBs[p].page_table.table, size |-> Used(p),
               queue |-> Elements(Listed(p))]]
  BY <1>2, SeenFields DEF CallsInv
<1>5. Elements(Listed(p)) = ListFrom(Used(p))
  BY <1>2, SeenTable
<1>6. Seen'.PCBs = Seen.PCBs
  BY <1>1 DEF Seen
<1>7. /\ Seen'.mem_queue = Elements(mem_queue) /\ Seen'.user_used = user_used
      /\ Seen'.sys_used = sys_used /\ Seen'.pidQueue = Elements(pidQueue)
      /\ Seen'.procSize = procSize'
  BY <1>1 DEF Seen
<1>8. /\ before.procSize = procSize /\ procSize \in [Pids -> Nat]
      /\ before.PCBs = [r \in Pids |-> before.PCBs[r]]
      /\ \A r \in Pids : r # p => Seen.PCBs[r] = before.PCBs[r]
  BY <1>2 DEF History, BeforeKept, CountersTyped
<1>9. Seen.PCBs[p] =
        [pid |-> PCBs[p].pid, status |-> PCBs[p].status, page_table |->
           [table |-> PCBs[p].page_table.table, size |-> Used(p),
            queue |-> ListFrom(Used(p))]]
  BY <1>4, <1>5
<1>10. Settled'.PCBs = [r \in Pids |-> Seen.PCBs[r]]
  BY <1>3, <1>4, <1>6
<1> QED BY <1>1, <1>2, <1>3, <1>7, <1>8, <1>9, <1>10

\* What mem_allocate_user has done for it.
LEMMA AllocatedByResize ==
  ASSUME CallsInv, History, Resize, ~NothingNeeded, NEW p, p = call.proc, NEW n, n = call.n
  PROVE  /\ Atomic!AllocateFault(p, n) = "none"
         /\ Elements(mem_queue) =
              SubSeq(before.mem_queue, Atomic!PagesTaken(n) + 1, Len(before.mem_queue))
         /\ user_used = before.user_used + n * SIZE_OF_PAGE
         /\ Atomic!GrownTable(p, n) =
              [table |-> PCBs[p].page_table.table, size |-> Used(p), queue |-> ListFrom(Used(p))]
<1>1. /\ call.at = "resize" /\ InCall /\ ~Destroying(call.proc) /\ p \in Pids /\ Settled = before
  BY ResizeSees
<1>2. PICK m : m = Atomic!PagesTaken(n)
  OBVIOUS
<1>3. PICK first : first = OldTable.size
  OBVIOUS
<1>4. PICK table : table = PCBs[p].page_table.table
  OBVIOUS
<1>5. /\ call.i = m /\ n <= OldRemainder
      /\ Elements(mem_queue) = SubSeq(before.mem_queue, m + 1, Len(before.mem_queue))
      /\ user_used = before.user_used + n * SIZE_OF_PAGE
      /\ \A e \in Entries :
           PageOf(p, e) = IF first <= e /\ e < first + m THEN before.mem_queue[e - first + 1]
                          ELSE OldTable.table[e]
      /\ Used(p) = first + m
  BY <1>1, <1>2, <1>3 DEF History, AllocateBegun, Written
<1>6. /\ n \in Nat /\ m \in Nat /\ first \in Nat /\ PAGE_CAPACITY \in Nat /\ OldRemainder \in Int
      /\ Len(before.mem_queue) \in Nat /\ Len(OldTable.queue) = PAGE_CAPACITY - first
      /\ Len(OldTable.queue) \in Nat
      /\ m <= Len(before.mem_queue) /\ first + m <= PAGE_CAPACITY
  BY <1>1, <1>2, <1>3, <1>5, CallCounts
<1>7. Atomic!AllocateFault(p, n) = "none"
  <2>1. PICK free : free = Len(before.mem_queue)
    OBVIOUS
  <2>2. PICK listed : listed = Len(OldTable.queue)
    OBVIOUS
  <2>3. PICK rest : rest = OldRemainder
    OBVIOUS
  <2>4. PICK fault : fault = Atomic!AllocateFault(call.proc, n)
    OBVIOUS
  <2>5. /\ n \in Int /\ m \in Int /\ free \in Int /\ listed \in Int /\ first \in Int /\ rest \in Int
        /\ n <= rest /\ m <= free /\ m <= listed /\ first + m - 1 <= PAGE_CAPACITY
    BY <1>5, <1>6, <2>1, <2>2, <2>3
  <2>6. /\ InCall /\ n \in Int /\ m \in Int /\ free \in Int /\ listed \in Int /\ first \in Int
        /\ rest \in Int
    BY <1>1, <2>5
  <2>7. n <= rest /\ m <= free /\ m <= listed /\ first + m - 1 <= PAGE_CAPACITY => fault = "none"
    BY <1>2, <1>3, <2>1, <2>2, <2>3, <2>4, <2>6, AllocateFaultIs
  <2> QED BY <2>4, <2>5, <2>7
<1>8. table \in [Entries -> UserPages \cup {PAGE_NOT_USED}] /\ \A e \in Entries : table[e] = PageOf(p, e)
  <2>1. table \in [Entries -> UserPages \cup {PAGE_NOT_USED}]
    BY <1>1, <1>4, Fields DEF CallsInv
  <2> QED BY <1>4, <2>1 DEF PageOf
<1>9. Atomic!WritePageTable(OldTable, m) =
        [table |-> table, size |-> first + m, queue |-> ListFrom(first + m)]
  <2>1. DOMAIN table = Entries /\ table = [e \in Entries |-> table[e]]
    BY <1>8
  <2>2. \A e \in Entries : table[e] = IF first <= e /\ e < first + m
                                      THEN before.mem_queue[e - first + 1]
                                      ELSE OldTable.table[e]
    BY <1>5, <1>8
  <2>3. BeforeKept
    BY DEF History
  <2>4. InCall /\ m \in Nat /\ first + m <= PAGE_CAPACITY
    BY <1>1, <1>6
  <2> QED BY <1>3, <2>1, <2>2, <2>3, <2>4, WrittenTable
<1>10. Atomic!GrownTable(p, n) = Atomic!WritePageTable(OldTable, m)
  BY <1>1, <1>2 DEF Atomic!GrownTable, OldTable, OldPCB
<1> QED BY <1>2, <1>4, <1>5, <1>7, <1>9, <1>10

\* creatProcess and procAllocate are one step each.
LEMMA ResizeIsCall ==
  ASSUME CallsInv, History, Resize
  PROVE  Atomic!AtomicNext
<1>p. PICK p : p = call.proc
  OBVIOUS
<1>n. PICK n : n = call.n
  OBVIOUS
<1>b. PICK bytes : bytes = call.bytes
  OBVIOUS
<1>t. PICK pt : pt = [table |-> PCBs[p].page_table.table, size |-> Used(p), queue |-> ListFrom(Used(p))]
  OBVIOUS
<1>1. /\ call.at = "resize" /\ status = "running" /\ status' = status
      /\ InCall /\ ~Destroying(call.proc) /\ p \in Pids /\ Settled = before
      /\ before.procSize = procSize /\ procSize \in [Pids -> Nat]
      /\ Settled'.mem_queue = Elements(mem_queue) /\ Settled'.user_used = user_used
      /\ Settled'.sys_used = sys_used /\ Settled'.pidQueue = Elements(pidQueue)
      /\ Settled'.procSize = [procSize EXCEPT ![p] = @ + bytes]
      /\ Settled'.PCBs = [r \in Pids |-> Seen.PCBs[r]]
      /\ before.PCBs = [r \in Pids |-> before.PCBs[r]]
      /\ \A r \in Pids : r # p => Seen.PCBs[r] = before.PCBs[r]
      /\ Seen.PCBs[p] = [pid |-> PCBs[p].pid, status |-> PCBs[p].status, page_table |-> pt]
  BY <1>p, <1>b, <1>t, ResizeSees
<1>2. ~NothingNeeded =>
        /\ Atomic!AllocateFault(p, n) = "none"
        /\ Elements(mem_queue) =
             SubSeq(before.mem_queue, Atomic!PagesTaken(n) + 1, Len(before.mem_queue))
        /\ user_used = before.user_used + n * SIZE_OF_PAGE
        /\ Atomic!GrownTable(p, n) = pt
  BY <1>p, <1>n, <1>t, AllocatedByResize
<1>3. ~NothingNeeded => Atomic!TakePages(n)
  BY <1>1, <1>2 DEF Atomic!TakePages
<1>4. CASE Loading
  <2>1. /\ bytes \in CallSizes /\ n = byte2Page(bytes) /\ before.pidQueue # <<>>
        /\ p = Head(before.pidQueue) /\ Elements(pidQueue) = Tail(before.pidQueue)
        /\ PCBs[p].pid = p /\ PCBs[p].status = "Ready" /\ procSize[p] = 0
        /\ sys_used = before.sys_used + SIZE_OF_PCB
    BY <1>p, <1>n, <1>b, <1>1, <1>4 DEF History, LoadBegun
  <2>2. ~NothingNeeded /\ Atomic!byte2Page(bytes) = n
    BY <1>4, <2>1 DEF NothingNeeded, byte2Page, Atomic!byte2Page
  <2>3. Atomic!LoadFault(p, bytes) = "none"
    BY <1>p, <1>n, <1>b, <1>1, <1>2, <1>4, <2>2, FaultOfCall
  <2>4. Settled'.PCBs = [before.PCBs EXCEPT ![p] = Atomic!ReadyPCB(p, n)]
    <3>1. Atomic!ReadyPCB(p, n) = Seen.PCBs[p]
      BY <1>1, <1>2, <2>1, <2>2 DEF Atomic!ReadyPCB
    <3>2. PICK block : block = Atomic!ReadyPCB(p, n)
      OBVIOUS
    <3>3. [before.PCBs EXCEPT ![p] = block] = [r \in Pids |-> Seen.PCBs[r]]
      BY <1>1, <3>1, <3>2
    <3> QED BY <1>1, <3>2, <3>3
  <2>5. Settled'.procSize = [before.procSize EXCEPT ![p] = bytes]
    <3>1. bytes \in Int
      BY <2>1, CallSizesAssumption, KernelAssumption DEF MAX_SIZE_OF_PROGRAM
    <3>2. 0 + bytes = bytes
      BY <3>1
    <3> QED BY <1>1, <2>1, <3>2
  <2>6. Atomic!Load(p, bytes)
    BY <1>1, <1>3, <2>1, <2>2, <2>4, <2>5 DEF Atomic!Load
  <2>7. Atomic!LoadCall(bytes)
    BY <1>1, <2>1, <2>3, <2>6 DEF Atomic!LoadCall
  <2> QED BY <2>1, <2>7 DEF Atomic!AtomicNext
<1>5. CASE ~Loading
  <2>1. /\ bytes \in CallSizes /\ bytes <= MAX_SIZE_OF_PROGRAM - procSize[p]
        /\ Elements(pidQueue) = before.pidQueue /\ sys_used = before.sys_used
        /\ PCBs[p].pid = OldPCB.pid /\ PCBs[p].status = OldPCB.status
        /\ n = byte2Page(OldNeed)
    BY <1>p, <1>n, <1>b, <1>1, <1>5 DEF History, GrowBegun
  <2>2. /\ Atomic!Running(p) /\ Settled.PCBs[p] = OldPCB
        /\ OldPCB = [pid |-> OldPCB.pid, status |-> OldPCB.status, page_table |-> OldTable]
        /\ OldTable = [table |-> OldTable.table, size |-> OldTable.size,
                       queue |-> ListFrom(OldTable.size)]
    BY <1>p, <1>1, <1>5 DEF Atomic!Running, Loading, OldPCB, History, BeforeKept
  <2>3. /\ Atomic!Need(p, bytes) = OldNeed
        /\ Atomic!GrowFault(p, bytes) = "none"
    <3>1. OldNeed = 0 <=> NothingNeeded
      BY <1>5 DEF NothingNeeded
    <3> QED BY <1>p, <1>n, <1>b, <1>1, <1>2, <1>5, <3>1, FaultOfCall
  <2>4. Settled'.procSize = [before.procSize EXCEPT ![p] = @ + bytes]
    BY <1>1
  <2>5. CASE NothingNeeded
    <3>1. OldNeed = 0 /\ call.i = 0 /\ n = 0
      BY <1>p, <1>n, <1>1, <2>5 DEF NothingNeeded, History, AllocateBegun
    <3>2. /\ Used(p) = OldTable.size /\ user_used = before.user_used
          /\ Elements(mem_queue) = before.mem_queue
          /\ \A e \in Entries : PageOf(p, e) = OldTable.table[e]
      <4>1. Written = 0
        BY <1>1, <3>1 DEF Written
      <4>2. /\ Used(p) = OldTable.size + 0 /\ user_used = before.user_used + n * SIZE_OF_PAGE
            /\ Elements(mem_queue) = SubSeq(before.mem_queue, 0 + 1, Len(before.mem_queue))
            /\ \A e \in Entries :
                 PageOf(p, e) = IF OldTable.size <= e /\ e < OldTable.size + 0
                                THEN before.mem_queue[e - OldTable.size + 1]
                                ELSE OldTable.table[e]
        BY <1>p, <1>n, <1>1, <3>1, <4>1 DEF History, AllocateBegun
      <4>3. /\ OldTable.size \in Nat /\ before.user_used \in Nat /\ SIZE_OF_PAGE \in Nat
            /\ before.mem_queue \in Seq(UserPages)
        BY <1>1, UnderWay
      <4>4. 0 * SIZE_OF_PAGE = 0
        BY <4>3
      <4>5. user_used = before.user_used /\ Used(p) = OldTable.size
        BY <3>1, <4>2, <4>3, <4>4
      <4>6. Elements(mem_queue) = before.mem_queue
        BY <4>2, <4>3, DropNone
      <4>7. \A e \in Entries : ~(OldTable.size <= e /\ e < OldTable.size + 0)
        BY <4>3, Sizes
      <4> QED BY <4>2, <4>5, <4>6, <4>7
    <3>3. PCBs[p].page_table.table = OldTable.table
      <4>1. PCBs[p].page_table.table \in [Entries -> UserPages \cup {PAGE_NOT_USED}]
        BY <1>1, Fields DEF CallsInv
      <4>2. OldTable.table \in [Entries -> UserPages \cup {PAGE_NOT_USED}]
        BY <1>1 DEF History, BeforeKept
      <4> QED BY <3>2, <4>1, <4>2 DEF PageOf
    <3>4. Seen.PCBs[p] = OldPCB
      BY <1>t, <1>1, <2>1, <2>2, <3>2, <3>3
    <3>5. Settled'.PCBs = before.PCBs
      <4>1. before.PCBs[p] = OldPCB
        BY <1>p DEF OldPCB
      <4> QED BY <1>1, <3>4, <4>1
    <3>6. Atomic!Grow(p, bytes)
      BY <1>1, <2>1, <2>3, <2>4, <3>1, <3>2, <3>5 DEF Atomic!Grow
    <3>7. Atomic!GrowCall(p, bytes)
      BY <1>1, <2>1, <2>2, <2>3, <3>6
         DEF Atomic!GrowCall, Atomic!MAX_SIZE_OF_PROGRAM, MAX_SIZE_OF_PROGRAM
    <3> QED BY <1>1, <2>1, <3>7 DEF Atomic!AtomicNext, Atomic!Pids, Pids
  <2>6. CASE ~NothingNeeded
    <3>1. OldNeed # 0 /\ Atomic!byte2Page(OldNeed) = n
      BY <1>5, <2>1, <2>6 DEF NothingNeeded, byte2Page, Atomic!byte2Page
    <3>2. Settled'.PCBs = [before.PCBs EXCEPT ![p].page_table = Atomic!GrownTable(p, n)]
      <4>1. PICK old : old = before.PCBs[p]
        OBVIOUS
      <4>2. old = [pid |-> old.pid, status |-> old.status, page_table |-> old.page_table]
        BY <1>1, <2>2, <4>1 DEF OldTable
      <4>3. [old EXCEPT !.page_table = pt] = [pid |-> old.pid, status |-> old.status, page_table |-> pt]
        BY <4>2
      <4>4. Seen.PCBs[p] = [old EXCEPT !.page_table = pt]
        BY <1>1, <2>1, <2>2, <4>1, <4>3
      <4>5. [before.PCBs EXCEPT ![p].page_table = pt] = [r \in Pids |-> Seen.PCBs[r]]
        BY <1>1, <4>1, <4>4
      <4> QED BY <1>1, <1>2, <2>6, <4>5
    <3>3. Atomic!Grow(p, bytes)
      BY <1>1, <1>3, <2>1, <2>3, <2>4, <2>6, <3>1, <3>2 DEF Atomic!Grow
    <3>4. Atomic!GrowCall(p, bytes)
      BY <1>1, <2>1, <2>2, <2>3, <3>3
         DEF Atomic!GrowCall, Atomic!MAX_SIZE_OF_PROGRAM, MAX_SIZE_OF_PROGRAM
    <3> QED BY <1>1, <2>1, <3>4 DEF Atomic!AtomicNext, Atomic!Pids, Pids
  <2> QED BY <2>5, <2>6
<1> QED BY <1>4, <1>5

\* The pages mem_deallocate_all_user gives back, as the sequence they make.
LEMMA ReturnedAtOnce ==
  ASSUME InCall, BeforeKept, NEW first, first = OldTable.size, NEW table, table = OldTable.table
  PROVE  Atomic!ReturnedPages(OldTable) = [k \in 1 .. first |-> table[k - 1]]
<1>1. /\ first \in 0 .. PAGE_CAPACITY /\ PAGE_CAPACITY \in Nat /\ Entries = 0 .. PAGE_CAPACITY - 1
      /\ \A e \in Entries : table[e] # PAGE_NOT_USED <=> e < first
  BY Sizes DEF BeforeKept
<1>2. Atomic!Mapped(OldTable) = 0 .. first - 1
  BY <1>1 DEF Atomic!Mapped, Atomic!Entries, Entries, Atomic!PAGE_NOT_USED, PAGE_NOT_USED
<1>3. Atomic!SortedBy(0 .. first - 1, [i \in Entries |-> i]) = [k \in 1 .. first |-> k - 1]
  <2>1. SortedBy(0 .. first - 1, [i \in Entries |-> i]) = [k \in 1 .. first |-> k - 1]
    BY <1>1, SortedPrefix
  <2> QED BY <2>1 DEF SortedBy, Below, Atomic!SortedBy, Atomic!Below, Cardinality, Atomic!Cardinality
<1>4. PICK live : live = [k \in 1 .. first |-> k - 1]
  OBVIOUS
<1>5. Atomic!ReturnedPages(OldTable) = [k \in DOMAIN live |-> table[live[k]]]
  BY <1>2, <1>3, <1>4 DEF Atomic!ReturnedPages, Atomic!Entries, Entries
<1>6. [k \in DOMAIN live |-> table[live[k]]] = [k \in 1 .. first |-> table[k - 1]]
  BY <1>4
<1> QED BY <1>5, <1>6

\* A control block that has been built anew, to a caller.
LEMMA NewBlockSeen ==
  ASSUME NEW block, block = [pid |-> MAX_PID, status |-> "Undefined", page_table |-> creatPageTbale]
  PROVE  [block EXCEPT !.page_table = [table |-> @.table, size |-> @.size,
                                       queue |-> Elements(@.queue)]] = Atomic!IdlePCB
<1>1. PICK pt : pt = creatPageTbale
  OBVIOUS
<1>2. Elements(pt.queue) = ListFrom(0)
  <2>1. /\ pt.queue.size = PAGE_CAPACITY - 0 /\ pt.queue.capacity = PAGE_CAPACITY
        /\ pt.queue.head = 0 % PAGE_CAPACITY /\ \A i \in Entries : pt.queue.ptr[i] = i
        /\ 0 \in 0 .. PAGE_CAPACITY
    <3>1. pt.queue.capacity = PAGE_CAPACITY
      BY <1>1, NewTable DEF PageTable, EntryRing
    <3>2. PAGE_CAPACITY - 0 = PAGE_CAPACITY /\ 0 % PAGE_CAPACITY = 0 /\ 0 \in 0 .. PAGE_CAPACITY
      BY Sizes
    <3> QED BY <1>1, <3>1, <3>2, NewTable
  <2>2. PICK list : list = pt.queue
    OBVIOUS
  <2>3. Elements(list) = ListFrom(0)
    BY <2>1, <2>2, ListInOrder
  <2> QED BY <2>2, <2>3
<1>3. ListFrom(0) = [k \in 1 .. PAGE_CAPACITY |-> k - 1]
  BY Sizes DEF ListFrom
<1>4. pt.table = [i \in Entries |-> PAGE_NOT_USED] /\ pt.size = 0
  BY <1>1 DEF creatPageTbale
<1>5. Atomic!EmptyTable = [table |-> pt.table, size |-> pt.size, queue |-> Elements(pt.queue)]
  BY <1>2, <1>3, <1>4 DEF Atomic!EmptyTable, Atomic!Entries, Entries, Atomic!PAGE_NOT_USED, PAGE_NOT_USED
<1>6. block = [pid |-> MAX_PID, status |-> "Undefined", page_table |-> pt]
  BY <1>1
<1>7. PICK seen : seen = [table |-> pt.table, size |-> pt.size, queue |-> Elements(pt.queue)]
  OBVIOUS
<1>8. block.page_table = pt
  BY <1>6
<1>9. [block EXCEPT !.page_table = seen]
        = [pid |-> MAX_PID, status |-> "Undefined", page_table |-> seen]
  BY <1>6
<1> QED BY <1>5, <1>7, <1>8, <1>9 DEF Atomic!IdlePCB

\* destroyProcess is one step.
LEMMA RebuildIsCall ==
  ASSUME CallsInv, History, Rebuild
  PROVE  Atomic!AtomicNext
<1>p. PICK p : p = call.proc
  OBVIOUS
<1>f. PICK first : first = OldTable.size
  OBVIOUS
<1>t. PICK table : table = OldTable.table
  OBVIOUS
<1>b. PICK block : block = [pid |-> MAX_PID, status |-> "Undefined", page_table |-> creatPageTbale]
  OBVIOUS
<1>1. /\ call.at = "rebuild" /\ status = "running" /\ status' = status /\ call'.at = "idle"
      /\ UNCHANGED <<mem_queue, user_used, sys_used, pidQueue>>
      /\ PCBs' = [PCBs EXCEPT ![p] = block] /\ procSize' = [procSize EXCEPT ![p] = 0]
  BY <1>p, <1>b DEF Rebuild, At, Return, NoCall, memVars, initPCB
<1>2. InCall /\ Destroying(call.proc) /\ Settled = before /\ Settled' = Seen'
  BY <1>1 DEF InCall, Destroying, Settled
<1>3. /\ p \in Pids /\ first \in Nat
      /\ Gone = first - Used(p)
  BY <1>p, <1>f, <1>2, GoneFacts
<1>4. Used(p) = 0
  <2>1. FirstUsed(p) = PAGE_CAPACITY
    BY <1>p, <1>1, <1>2 DEF FirstUsed, CallsInv, CallTyped
  <2>2. FirstUsed(p) + Used(p) <= PAGE_CAPACITY /\ Used(p) \in 0 .. PAGE_CAPACITY
    BY <1>3, Fields DEF CallsInv, EntriesUsed
  <2> QED BY <2>1, <2>2, Sizes
<1>5. /\ OldPCB.pid = p /\ sys_used = before.sys_used
      /\ Elements(pidQueue) = Append(before.pidQueue, p)
      /\ Elements(mem_queue) = before.mem_queue \o [k \in 1 .. first |-> table[k - 1]]
      /\ user_used = Less(before.user_used, first)
  <2>1. Gone = first
    BY <1>3, <1>4
  <2> QED BY <1>p, <1>t, <1>1, <1>2, <2>1 DEF History, DestroyBegun
<1>6. Settled.PCBs[p] = OldPCB /\ OldPCB.page_table = OldTable /\ p # MAX_PID
  BY <1>p, <1>2, <1>3, Sizes DEF OldPCB, OldTable
<1>7. Atomic!ReturnedPages(Settled.PCBs[p].page_table) = [k \in 1 .. first |-> table[k - 1]]
  BY <1>f, <1>t, <1>2, <1>6, ReturnedAtOnce DEF History
<1>8. Len([k \in 1 .. first |-> table[k - 1]]) = first
  BY <1>3
<1>9. Atomic!UsedAfter(first) = Less(before.user_used, first)
  BY <1>2 DEF Atomic!UsedAfter, Less
<1>10. /\ Settled'.mem_queue = Elements(mem_queue) /\ Settled'.user_used = user_used
       /\ Settled'.sys_used = sys_used /\ Settled'.pidQueue = Elements(pidQueue)
       /\ Settled'.procSize = [procSize EXCEPT ![p] = 0]
  BY <1>1, <1>2 DEF Seen
<1>11. before.procSize = procSize
  BY <1>2 DEF History, BeforeKept
<1>12. Settled'.PCBs = [before.PCBs EXCEPT ![p] = Atomic!IdlePCB]
  <2>1. Seen'.PCBs = [r \in Pids |-> Seen'.PCBs[r]]
    BY DEF Seen
  <2>2. PCBs'[p] = block /\ \A r \in Pids : r # p => PCBs'[r] = PCBs[r]
    BY <1>1, <1>3 DEF CallsInv, PCBsTyped
  <2>3. Seen'.PCBs[p] = [block EXCEPT !.page_table = [table |-> @.table, size |-> @.size,
                                                      queue |-> Elements(@.queue)]]
    BY <1>3, <2>2 DEF Seen
  <2>4. Seen'.PCBs[p] = Atomic!IdlePCB
    BY <1>b, <2>3, NewBlockSeen
  <2>5. \A r \in Pids : r # p => Seen'.PCBs[r] = Seen.PCBs[r]
    BY <2>2 DEF Seen
  <2>6. /\ before.PCBs = [r \in Pids |-> before.PCBs[r]]
        /\ \A r \in Pids : r # p => before.PCBs[r] = Seen.PCBs[r]
    BY <1>p, <1>2 DEF History, BeforeKept
  <2>7. PICK idle : idle = Atomic!IdlePCB
    OBVIOUS
  <2>8. [before.PCBs EXCEPT ![p] = idle] = [r \in Pids |-> Seen'.PCBs[r]]
    BY <1>3, <2>4, <2>5, <2>6, <2>7
  <2> QED BY <1>2, <2>1, <2>7, <2>8
<1>13. Atomic!Destroy(p)
  <2>1. PICK returned : returned = [k \in 1 .. first |-> table[k - 1]]
    OBVIOUS
  <2>2. /\ Atomic!ReturnedPages(Settled.PCBs[p].page_table) = returned /\ Len(returned) = first
    BY <1>7, <1>8, <2>1
  <2>3. Elements(mem_queue) = before.mem_queue \o returned
    BY <1>5, <2>1
  <2> QED BY <1>2, <1>5, <1>6, <1>9, <1>10, <1>11, <1>12, <2>2, <2>3 DEF Atomic!Destroy
<1>14. Atomic!DestroyCall(p)
  BY <1>1, <1>5, <1>6, <1>13 DEF Atomic!DestroyCall, Atomic!Running
<1> QED BY <1>3, <1>14 DEF Atomic!AtomicNext, Atomic!Pids, Pids

-----------------------------------------------------------------------------
(* Every step of a call is that call, or changes nothing its caller sees. *)

LEMMA BootSeen ==
  Init => Atomic!AtomicInit
<1> SUFFICES ASSUME Init
             PROVE  Atomic!AtomicInit
  OBVIOUS
<1>p. PICK pages : pages = SortedBy(UserPages, BootKey)
  OBVIOUS
<1>q. PICK pids : pids = [k \in 1 .. MAX_PID |-> k - 1]
  OBVIOUS
<1>b. PICK block : block = [pid |-> MAX_PID, status |-> "Undefined", page_table |-> creatPageTbale]
  OBVIOUS
<1>c. PICK N : N = NUM_OF_PAGE_FOR_USER
  OBVIOUS
<1>1. Settled = Seen
  BY DEF Init, NoCall, Settled
<1>2. N \in Nat \ {0} /\ MAX_PID \in Nat \ {0}
  BY <1>c, Sizes
<1>3. pages \in Seq(UserPages) /\ Len(pages) = N /\ pages = [k \in 1 .. N |-> pages[k]]
  <2>1. pages \in [1 .. N -> UserPages]
    BY <1>p, <1>c, UserPagesCount, BootKeyDistinct, SortedByLists
  <2> QED BY <1>2, <2>1
<1>4. pids \in Seq(Pids) /\ Len(pids) = MAX_PID
  BY <1>q, <1>2, Sizes
<1>5. mem_queue = Pushed(N, pages) /\ pidQueue = Pushed(MAX_PID, pids)
  BY <1>p, <1>q, <1>c DEF Init
<1>6. Elements(mem_queue) = pages
  <2>1. /\ IsRing(mem_queue, N, UserPages \cup {UNSET})
        /\ mem_queue.size = N /\ \A k \in 1 .. N : Entry(mem_queue, k) = pages[k]
    <3>1. pages \in Seq(UserPages) /\ Len(pages) = N
      BY <1>3
    <3> QED BY <1>2, <1>5, <3>1, PushedRing
  <2> QED BY <1>3, <2>1 DEF Elements
<1>7. Elements(pidQueue) = pids
  <2>1. /\ IsRing(pidQueue, MAX_PID, Pids \cup {UNSET})
        /\ pidQueue.size = MAX_PID /\ \A k \in 1 .. MAX_PID : Entry(pidQueue, k) = pids[k]
    BY <1>2, <1>4, <1>5, PushedRing
  <2> QED BY <1>q, <2>1 DEF Elements
<1>8. \A p \in Pids : PCBs[p] = block
  BY <1>b DEF Init
<1>9. [block EXCEPT !.page_table = [table |-> @.table, size |-> @.size,
                                    queue |-> Elements(@.queue)]] = Atomic!IdlePCB
  BY <1>b, NewBlockSeen
<1>10. Settled.PCBs = [p \in Pids |-> Atomic!IdlePCB]
  BY <1>1, <1>8, <1>9 DEF Seen
<1>11. /\ Settled.mem_queue = pages /\ Settled.pidQueue = pids
       /\ Settled.user_used = 0 /\ Settled.sys_used = SYS_USED_AT_BOOT
       /\ Settled.procSize = [p \in Pids |-> 0] /\ status = "running"
  BY <1>1, <1>6, <1>7 DEF Init, Seen
<1>12. Atomic!SortedBy(Atomic!UserPages, Atomic!BootKey) = pages
  BY <1>p DEF SortedBy, Below, BootKey, UserPages, Cardinality, Atomic!SortedBy, Atomic!Below,
              Atomic!BootKey, Atomic!UserPages, Atomic!Cardinality
<1>13. Atomic!Pids = Pids
  BY DEF Atomic!Pids, Pids
<1> QED BY <1>q, <1>10, <1>11, <1>12, <1>13 DEF Atomic!AtomicInit, Atomic!KernelInit

LEMMA BeginsUnseen ==
  ASSUME NEW place, NEW p, NEW bytes, NEW n, place # "idle", Begin(place, p, bytes, n)
  PROVE  UNCHANGED Atomic!atomicVars
<1>1. Settled = Seen /\ Settled' = before' /\ before' = Seen /\ status' = status
  BY DEF Begin, At, Settled
<1> QED BY <1>1 DEF Atomic!atomicVars, Atomic!kernelVars

LEMMA InsideUnseen ==
  ASSUME call.at # "idle", call'.at # "idle", before' = before, status' = status
  PROVE  UNCHANGED Atomic!atomicVars
<1>1. Settled' = Settled
  BY DEF Settled
<1> QED BY <1>1 DEF Atomic!atomicVars, Atomic!kernelVars

\* A growth beyond what a page table can map is stopped before it begins.
LEMMA GrowTooFarStops ==
  ASSUME CallsInv, NEW p \in Pids, NEW bytes \in CallSizes, GrowTooFar(p, bytes)
  PROVE  Atomic!AtomicNext
<1>1. /\ status = "running" /\ status' = "program_size" /\ call.at = "idle"
      /\ PCBs[p].pid # MAX_PID /\ bytes > MAX_SIZE_OF_PROGRAM - procSize[p]
      /\ UNCHANGED <<mem_queue, user_used, sys_used, pidQueue, PCBs, procSize, call, before>>
  BY DEF GrowTooFar, At, Stop, memVars
<1>2. Settled = Seen /\ Settled' = Seen
  BY <1>1 DEF Settled, Seen, Elements, Entry
<1>3. Settled.PCBs[p].pid = PCBs[p].pid /\ Settled.procSize = procSize
  <2>1. PCBsTyped
    BY DEF CallsInv
  <2>2. Seen.procSize = procSize
    BY <2>1, SeenFields
  <2>3. Seen.PCBs[p] = [pid |-> PCBs[p].pid, status |-> PCBs[p].status, page_table |->
                          [table |-> PCBs[p].page_table.table, size |-> Used(p),
                           queue |-> Elements(Listed(p))]]
    BY <2>1, SeenFields
  <2>4. Seen.PCBs[p].pid = PCBs[p].pid
    BY <2>3
  <2> QED BY <1>2, <2>2, <2>4
<1>4. Atomic!Running(p)
  BY <1>1, <1>3 DEF Atomic!Running
<1>5. Atomic!Stop("program_size")
  BY <1>1, <1>2 DEF Atomic!Stop, Atomic!kernelVars
<1>6. Atomic!GrowCall(p, bytes)
  BY <1>1, <1>3, <1>4, <1>5
     DEF Atomic!GrowCall, Atomic!MAX_SIZE_OF_PROGRAM, MAX_SIZE_OF_PROGRAM
<1> QED BY <1>6 DEF Atomic!AtomicNext, Atomic!Pids, Pids

LEMMA StepIsAtomic ==
  ASSUME CallsInv, History, [Next]_vars
  PROVE  [Atomic!AtomicNext]_(Atomic!atomicVars)
<1>t. DOMAIN call = {"at", "proc", "bytes", "n", "i"}
  BY DEF CallsInv, CallTyped
<1>1. CASE \E bytes \in CallSizes : BeginLoad(bytes)
  BY <1>1, BeginsUnseen DEF BeginLoad
<1>2. CASE \E p \in Pids, bytes \in CallSizes : BeginGrow(p, bytes)
  <2>1. PICK p \in Pids, bytes \in CallSizes : BeginGrow(p, bytes)
    BY <1>2
  <2>2. \E place, n : place # "idle" /\ Begin(place, p, bytes, n)
    BY <2>1 DEF BeginGrow
  <2> QED BY <2>2, BeginsUnseen
<1>3. CASE \E p \in Pids : BeginDestroy(p)
  BY <1>3, BeginsUnseen DEF BeginDestroy
<1>4. CASE loadProgram /\ GoTo("allocate")
  <2>1. call.at # "idle" /\ call'.at # "idle" /\ before' = before /\ status' = status
    BY <1>t, <1>4 DEF loadProgram, At, GoTo
  <2> QED BY <2>1, InsideUnseen
<1>5. CASE loadProgram /\ ~GoTo("allocate")
  BY <1>5, LoadStops
<1>6. CASE (Allocate /\ GoTo("write")) \/ (Write /\ GoTo("pop"))
  <2>1. call.at # "idle" /\ call'.at # "idle" /\ before' = before /\ status' = status
    BY <1>t, <1>6 DEF Allocate, Write, At, GoTo
  <2> QED BY <2>1, InsideUnseen
<1>7. CASE (Allocate /\ ~GoTo("write")) \/ (Write /\ ~GoTo("pop"))
  BY <1>7, AllocateStops
<1>8. CASE Pop \/ Count
  <2>1. call.at # "idle" /\ call'.at # "idle" /\ before' = before /\ status' = status
    BY <1>t, <1>8 DEF Pop, Count, At, GoTo
  <2> QED BY <2>1, InsideUnseen
<1>9. CASE Scan \/ Recycle \/ Discount
  <2>1. call.at # "idle" /\ call'.at # "idle" /\ before' = before /\ status' = status
    BY <1>t, <1>9 DEF Scan, Recycle, Discount, At, GoTo
  <2> QED BY <2>1, InsideUnseen
<1>10. CASE Resize
  BY <1>10, ResizeIsCall
<1>11. CASE Rebuild
  BY <1>11, RebuildIsCall
<1>12. CASE UNCHANGED vars
  <2>1. Settled' = Settled /\ status' = status
    BY <1>12 DEF vars, memVars, Settled, Seen, Elements, Entry
  <2> QED BY <2>1 DEF Atomic!atomicVars, Atomic!kernelVars
<1>13. CASE \E p \in Pids, bytes \in CallSizes : GrowTooFar(p, bytes)
  BY <1>13, GrowTooFarStops
<1> QED BY <1>1, <1>2, <1>3, <1>4, <1>5, <1>6, <1>7, <1>8, <1>9, <1>10, <1>11, <1>12, <1>13
        DEF Next, Step

\* To the shell each call of the kernel is one step, though it runs statement
\* by statement on ring buffers: creatProcess with loadProgram, procAllocate
\* and destroyProcess do what the operators of Kernel say, all of it at their
\* last statement, or stop at the assert those operators name with the caller's
\* view unchanged.  What is proved of the shell on the operators of Kernel holds
\* for the loops and the rings they stand for.
THEOREM CallsAreAtomic ==
  Spec => ImplementsAtomic
BY BootSeen, StepIsAtomic, CallsInvariant, HistoryInvariant, PTL
   DEF Spec, ImplementsAtomic, Atomic!AtomicSpec

=============================================================================
