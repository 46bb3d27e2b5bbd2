---------------------------- MODULE ClientProofs ----------------------------
(***************************************************************************)
(* Proofs about the command shell and the kernel under it, for every       *)
(* number of pids, pages and page table entries: the types, that no page   *)
(* and no pid is lost or given out twice, that no command follows a stale  *)
(* pointer, and that page tables have no gaps.                             *)
(***************************************************************************)
EXTENDS Client, LayoutLemmas

-----------------------------------------------------------------------------
(* The inductive invariant. *)

\* user_used counts whole pages, so that getUserRemainder does not round.
UsedWholePages ==
  \E u \in 0 .. NUM_OF_PAGE_FOR_USER : user_used = u * SIZE_OF_PAGE

\* A PCB carries its own pid or none, and in the latter case an empty table.
PCBsKept ==
  \A p \in Pids :
    /\ PCBs[p].pid \in {p, MAX_PID}
    /\ ~Running(p) => PCBs[p].page_table = EmptyTable

KernelTypeOK ==
  /\ mem_queue \in Seq(UserPages)
  /\ user_used \in 0 .. USER_CAPACITY
  /\ sys_used \in 0 .. USER_ADDR_OFFSET
  /\ pidQueue \in Seq(Pids)
  /\ PCBs \in [Pids -> ControlBlocks]
  /\ procSize \in [Pids -> 0 .. MAX_SIZE_OF_PROGRAM]

ShellTypeOK ==
  /\ procList \in [Slots -> Pids \cup {NULL}]
  /\ disk \in [FileNames -> Nat \cup {NULL}]
  /\ streams \in 0 .. FOPEN_MAX
  /\ status \in {"running", "exited"} \cup Faults
  /\ reply \in Replies

\* What relates the parts: none of it holds of a step without the others.
Consistent ==
  /\ UsedWholePages
  /\ PCBsKept
  /\ TablesDense
  /\ PageConservation
  /\ PidConservation
  /\ ListedAreLive

IInv == KernelTypeOK /\ ShellTypeOK /\ Consistent

-----------------------------------------------------------------------------
(* Constants. *)

\* The constants as the proofs use them.
LEMMA Constants ==
  /\ MAX_PID \in Nat \ {0}
  /\ PAGE_CAPACITY \in Nat \ {0}
  /\ NUM_OF_PAGE_FOR_USER \in Nat \ {0}
  /\ SIZE_OF_PAGE \in Nat \ {0}
  /\ NUM_OF_PAGE_FOR_USER < BASE_MOD
  /\ BASE_MOD \in Nat \ {0}
  /\ ADDR_MOD \in Nat \ {0}
  /\ KB \in Nat \ {0}
  /\ FOPEN_MAX \in Nat
  /\ TypedPids \subseteq Nat /\ TypedSizes \subseteq Nat /\ FileSizes \subseteq Nat
  /\ Pids \subseteq Nat
  /\ MAX_PID \notin Pids
  /\ NULL \notin Pids
  /\ MAX_SIZE_OF_PROGRAM \in Nat
  /\ USER_ADDR_OFFSET \in Nat
  /\ USER_CAPACITY = NUM_OF_PAGE_FOR_USER * SIZE_OF_PAGE
BY KernelAssumption, ClientAssumption
   DEF Pids, MAX_SIZE_OF_PROGRAM, USER_ADDR_OFFSET, USER_CAPACITY

-----------------------------------------------------------------------------
(* Page tables. *)

\* n writes to a gap-free table put the first n free pages behind its last
\* entry, in their order, and leave the table gap-free.
LEMMA WriteDense ==
  ASSUME NEW pt \in PageTables, Dense(pt), mem_queue \in Seq(UserPages),
         NEW n \in 1 .. Len(pt.queue), n <= Len(mem_queue)
  PROVE  /\ WritePageTable(pt, n) \in PageTables
         /\ Dense(WritePageTable(pt, n))
         /\ WritePageTable(pt, n).size = pt.size + n
         /\ \A i \in Entries :
              WritePageTable(pt, n).table[i] =
                IF pt.size <= i /\ i < pt.size + n
                THEN mem_queue[i - pt.size + 1]
                ELSE pt.table[i]
<1> DEFINE new == WritePageTable(pt, n)
           C == PAGE_CAPACITY
<1>1. /\ pt.table \in [Entries -> UserPages \cup {PAGE_NOT_USED}]
      /\ pt.size \in 0 .. C
      /\ pt.queue \in Seq(Entries)
      /\ C \in Nat
      /\ Len(pt.queue) = C - pt.size
      /\ \A k \in 1 .. Len(pt.queue) : pt.queue[k] = pt.size + k - 1
  BY PageNotUsed DEF PageTables, Dense
<1>2. n \in Nat /\ n <= C - pt.size /\ n <= Len(mem_queue)
  BY <1>1
<1>3. \A i \in Entries :
        new.table[i] = IF pt.size <= i /\ i < pt.size + n
                       THEN mem_queue[i - pt.size + 1]
                       ELSE pt.table[i]
  <2> TAKE i \in Entries
  <2>1. i \in Int
    BY <1>1 DEF Entries
  <2>2. ASSUME NEW k \in 1 .. n
        PROVE  pt.queue[k] = i <=> k = i - pt.size + 1
    <3>1. k \in 1 .. Len(pt.queue)
      BY <1>1, <1>2
    <3>2. pt.queue[k] = pt.size + k - 1
      BY <1>1, <3>1
    <3>3. pt.size \in Int /\ k \in Int
      BY <1>1
    <3> QED BY <2>1, <3>2, <3>3
  <2>3. new.table[i] = IF \E k \in 1 .. n : pt.queue[k] = i
                       THEN mem_queue[CHOOSE k \in 1 .. n : pt.queue[k] = i]
                       ELSE pt.table[i]
    BY DEF WritePageTable
  <2>4. CASE pt.size <= i /\ i < pt.size + n
    <3>1. i - pt.size + 1 \in 1 .. n
      BY <1>1, <1>2, <2>1, <2>4
    <3>2. (CHOOSE k \in 1 .. n : pt.queue[k] = i) = i - pt.size + 1
      BY <2>2, <3>1
    <3> QED BY <2>2, <2>3, <2>4, <3>1, <3>2
  <2>5. CASE ~(pt.size <= i /\ i < pt.size + n)
    <3>1. i - pt.size + 1 \notin 1 .. n
      BY <1>1, <1>2, <2>1, <2>5
    <3> QED BY <2>2, <2>3, <2>5, <3>1
  <2> QED BY <2>4, <2>5
<1>4. new.size = pt.size + n /\ new.size \in 0 .. C
  BY <1>1, <1>2 DEF WritePageTable
<1>5. /\ new.queue \in Seq(Entries)
      /\ Len(new.queue) = C - new.size
      /\ \A k \in 1 .. Len(new.queue) : new.queue[k] = new.size + k - 1
  <2>1. new.queue = SubSeq(pt.queue, n + 1, Len(pt.queue))
    BY DEF WritePageTable
  <2>2. /\ new.queue \in Seq(Entries)
        /\ Len(new.queue) = Len(pt.queue) - n
        /\ \A k \in 1 .. Len(pt.queue) - n : new.queue[k] = pt.queue[n + k]
    <3>1. pt.queue \in Seq(Entries) /\ n \in 0 .. Len(pt.queue)
      BY <1>1, <1>2
    <3>2. LET rest == SubSeq(pt.queue, n + 1, Len(pt.queue))
          IN  /\ rest \in Seq(Entries)
              /\ Len(rest) = Len(pt.queue) - n
              /\ \A k \in 1 .. Len(pt.queue) - n : rest[k] = pt.queue[n + k]
      BY <3>1, DropFirst
    <3> HIDE DEF new
    <3> QED BY <2>1, <3>2
  <2> HIDE DEF new
  <2>3. ASSUME NEW k \in 1 .. Len(new.queue)
        PROVE  new.queue[k] = new.size + k - 1
    <3>1. /\ k \in 1 .. Len(pt.queue) - n
          /\ n + k \in 1 .. Len(pt.queue)
      BY <1>1, <1>2, <2>2
    <3>2. new.queue[k] = pt.size + (n + k) - 1
      BY <1>1, <2>2, <3>1
    <3>3. pt.size \in Int /\ k \in Int
      BY <1>1, <3>1
    <3> QED BY <1>2, <1>4, <3>2, <3>3
  <2>4. Len(new.queue) = C - new.size
    BY <1>1, <1>2, <1>4, <2>2
  <2> QED BY <2>2, <2>3, <2>4
<1>6. new.table \in [Entries -> UserPages \cup {PAGE_NOT_USED}]
  <2>1. new.table = [i \in Entries |-> new.table[i]]
    BY DEF WritePageTable
  <2>2. \A i \in Entries : new.table[i] \in UserPages \cup {PAGE_NOT_USED}
    <3> TAKE i \in Entries
    <3>1. CASE pt.size <= i /\ i < pt.size + n
      <4>1. i - pt.size + 1 \in 1 .. Len(mem_queue)
        BY <1>1, <1>2, <3>1 DEF Entries
      <4>2. mem_queue[i - pt.size + 1] \in UserPages
        BY <4>1, ElementOfSeq
      <4> QED BY <1>3, <3>1, <4>2
    <3>2. CASE ~(pt.size <= i /\ i < pt.size + n)
      BY <1>1, <1>3, <3>2
    <3> QED BY <3>1, <3>2
  <2> HIDE DEF new
  <2> QED BY <2>1, <2>2
<1>7. new \in PageTables
  <2>1. new = [table |-> new.table, size |-> new.size, queue |-> new.queue]
    BY DEF WritePageTable
  <2> HIDE DEF new
  <2> QED BY <1>4, <1>5, <1>6, <2>1 DEF PageTables
<1>8. Mapped(new) = {i \in Entries : i < new.size}
  <2>1. ASSUME NEW i \in Entries
        PROVE  new.table[i] # PAGE_NOT_USED <=> i < new.size
    <3>1. pt.table[i] # PAGE_NOT_USED <=> i < pt.size
      BY DEF Dense, Mapped
    <3>2. i \in Nat
      BY <1>1 DEF Entries
    <3>3. CASE pt.size <= i /\ i < pt.size + n
      <4>1. i - pt.size + 1 \in 1 .. Len(mem_queue)
        BY <1>1, <1>2, <3>2, <3>3
      <4>2. mem_queue[i - pt.size + 1] \in UserPages
        BY <4>1, ElementOfSeq
      <4> QED BY <1>3, <1>4, <3>3, <4>2, PageNotUsed
    <3>4. CASE ~(pt.size <= i /\ i < pt.size + n)
      <4>1. i < pt.size <=> i < new.size
        BY <1>1, <1>2, <1>4, <3>2, <3>4
      <4> QED BY <1>3, <3>1, <3>4, <4>1
    <3> QED BY <3>3, <3>4
  <2> HIDE DEF new
  <2> QED BY <2>1 DEF Mapped
<1>9. Dense(new)
  <2> HIDE DEF new
  <2> QED BY <1>5, <1>8 DEF Dense
<1> QED BY <1>3, <1>4, <1>7, <1>9

\* What a process gives back is its pages in logical order.
LEMMA ReturnedDense ==
  ASSUME NEW pt \in PageTables, Dense(pt)
  PROVE  ReturnedPages(pt) = [k \in 1 .. pt.size |-> pt.table[k - 1]]
<1>1. pt.size \in 0 .. PAGE_CAPACITY /\ PAGE_CAPACITY \in Nat
  BY PageNotUsed DEF PageTables
<1>2. Mapped(pt) = 0 .. pt.size - 1
  BY <1>1 DEF Dense, Entries
<1>3. SortedBy(Mapped(pt), [i \in Entries |-> i]) = [k \in 1 .. pt.size |-> k - 1]
  BY <1>1, <1>2, SortedPrefix
<1> QED BY <1>1, <1>3 DEF ReturnedPages

\* A new page table is gap-free.
LEMMA EmptyDense ==
  EmptyTable \in PageTables /\ Dense(EmptyTable)
<1>1. PAGE_CAPACITY \in Nat
  BY PageNotUsed
<1>2. /\ EmptyTable.table = [i \in Entries |-> PAGE_NOT_USED]
      /\ EmptyTable.size = 0
      /\ EmptyTable.queue = [k \in 1 .. PAGE_CAPACITY |-> k - 1]
      /\ EmptyTable = [table |-> EmptyTable.table, size |-> EmptyTable.size,
                       queue |-> EmptyTable.queue]
  BY DEF EmptyTable
<1>3. /\ EmptyTable.queue \in Seq(Entries)
      /\ Len(EmptyTable.queue) = PAGE_CAPACITY
  <2>1. \A k \in 1 .. PAGE_CAPACITY : k - 1 \in Entries
    BY <1>1 DEF Entries
  <2> QED BY <1>1, <1>2, <2>1, IsASeq
<1>4. Mapped(EmptyTable) = {i \in Entries : i < EmptyTable.size}
  BY <1>1, <1>2 DEF Mapped, Entries
<1> QED BY <1>1, <1>2, <1>3, <1>4 DEF PageTables, Dense

-----------------------------------------------------------------------------
(* The memory calls. *)

\* When mem_allocate_user goes through, there were pages and entries enough.
LEMMA AllocateGoesThrough ==
  ASSUME IInv, NEW p \in Pids, NEW n \in 0 .. BASE_MOD - 1,
         AllocateFault(p, n) = "none"
  PROVE  /\ n <= NUM_OF_PAGE_FOR_USER - user_used \div SIZE_OF_PAGE
         /\ PagesTaken(n) \in 1 .. Len(PCBs[p].page_table.queue)
         /\ PagesTaken(n) <= Len(mem_queue)
<1> DEFINE pt == PCBs[p].page_table
           m == PagesTaken(n)
<1>1. /\ n <= getUserRemainder
      /\ m <= Len(mem_queue)
      /\ m <= Len(pt.queue)
  BY DEF AllocateFault
<1>2. m \in Nat \ {0}
  BY Constants DEF PagesTaken
<1>3. getUserRemainder = NUM_OF_PAGE_FOR_USER - user_used \div SIZE_OF_PAGE
  <2>1. PICK u \in 0 .. NUM_OF_PAGE_FOR_USER : user_used = u * SIZE_OF_PAGE
    BY DEF IInv, Consistent, UsedWholePages
  <2>2. user_used \div SIZE_OF_PAGE = u
    BY <2>1, Constants, DivProduct
  <2>3. NUM_OF_PAGE_FOR_USER - u \in 0 .. BASE_MOD - 1
    BY Constants
  <2> QED BY <2>2, <2>3, Constants DEF getUserRemainder
<1>4. Len(pt.queue) \in Nat
  <2>1. pt \in PageTables
    BY DEF IInv, KernelTypeOK, ControlBlocks
  <2> QED BY <2>1, LenProperties DEF PageTables
<1> QED BY <1>1, <1>2, <1>3, <1>4

\* A page table of the invariant.
LEMMA TableShape ==
  ASSUME IInv, NEW p \in Pids
  PROVE  /\ PCBs[p] \in ControlBlocks
         /\ PCBs[p].page_table \in PageTables
         /\ Dense(PCBs[p].page_table)
         /\ PCBs[p].page_table.size \in 0 .. PAGE_CAPACITY
         /\ Len(PCBs[p].page_table.queue) = PAGE_CAPACITY - PCBs[p].page_table.size
         /\ \A i \in Entries :
              PCBs[p].page_table.table[i] \in UserPages
                <=> i < PCBs[p].page_table.size
         /\ \A i \in Entries :
              ~(i < PCBs[p].page_table.size)
                => PCBs[p].page_table.table[i] = PAGE_NOT_USED
<1> DEFINE pt == PCBs[p].page_table
<1>1. PCBs[p] \in ControlBlocks /\ pt \in PageTables
  BY DEF IInv, KernelTypeOK, ControlBlocks
<1>2. Dense(pt)
  BY DEF IInv, Consistent, TablesDense
<1>3. pt.size \in 0 .. PAGE_CAPACITY
  BY <1>1 DEF PageTables
<1>4. ASSUME NEW i \in Entries
      PROVE  /\ pt.table[i] \in UserPages <=> i < pt.size
             /\ ~(i < pt.size) => pt.table[i] = PAGE_NOT_USED
  <2>1. pt.table[i] \in UserPages \cup {PAGE_NOT_USED}
    BY <1>1 DEF PageTables
  <2>2. pt.table[i] # PAGE_NOT_USED <=> i < pt.size
    BY <1>2 DEF Dense, Mapped
  <2> QED BY <2>1, <2>2, PageNotUsed
<1>5. Len(pt.queue) = PAGE_CAPACITY - pt.size
  BY <1>2 DEF Dense
<1> QED BY <1>1, <1>2, <1>3, <1>4, <1>5

\* mem_allocate_user(n) for one process keeps every page in one place: its new
\* entries hold what left the queue.
LEMMA GrantKeepsPages ==
  ASSUME IInv, status' = status, NEW p \in Pids, NEW n \in 0 .. BASE_MOD - 1,
         AllocateFault(p, n) = "none", TakePages(n),
         \A q \in Pids :
           PCBs'[q].page_table = IF q = p THEN GrownTable(p, n) ELSE PCBs[q].page_table
  PROVE  /\ GrownTable(p, n) \in PageTables
         /\ mem_queue' \in Seq(UserPages)
         /\ user_used' \in 0 .. USER_CAPACITY
         /\ UsedWholePages'
         /\ TablesDense'
         /\ PageConservation'
<1> DEFINE m == PagesTaken(n)
           s == PCBs[p].page_table.size
           Tab(q, i) == PCBs[q].page_table.table[i]
           new == GrownTable(p, n)
           Here(i) == s <= i /\ i < s + m
<1>1. /\ n <= NUM_OF_PAGE_FOR_USER - user_used \div SIZE_OF_PAGE
      /\ m \in 1 .. Len(PCBs[p].page_table.queue)
      /\ m <= Len(mem_queue)
  BY AllocateGoesThrough
<1>2. /\ mem_queue \in Seq(UserPages)
      /\ Len(mem_queue) \in Nat
      /\ DOMAIN mem_queue = 1 .. Len(mem_queue)
      /\ \A k \in 1 .. Len(mem_queue) : mem_queue[k] \in UserPages
  BY LenProperties, ElementOfSeq DEF IInv, KernelTypeOK
<1>3. s \in 0 .. PAGE_CAPACITY /\ m \in Nat \ {0} /\ s + m <= PAGE_CAPACITY
  <2>1. s \in 0 .. PAGE_CAPACITY /\ m \in 1 .. PAGE_CAPACITY - s
    BY <1>1, TableShape
  <2> HIDE DEF m, s
  <2> QED BY <2>1, Constants
<1>4. /\ new \in PageTables
      /\ Dense(new)
      /\ \A i \in Entries : new.table[i] = IF Here(i) THEN mem_queue[i - s + 1] ELSE Tab(p, i)
  BY <1>1, <1>2, TableShape, WriteDense DEF GrownTable
<1>5. /\ mem_queue' \in Seq(UserPages)
      /\ Len(mem_queue') = Len(mem_queue) - m
      /\ DOMAIN mem_queue' = 1 .. Len(mem_queue) - m
      /\ \A k \in 1 .. Len(mem_queue) - m : mem_queue'[k] = mem_queue[m + k]
  <2>1. m \in 0 .. Len(mem_queue)
    BY <1>1, <1>2, <1>3
  <2>2. mem_queue' = SubSeq(mem_queue, m + 1, Len(mem_queue))
    BY DEF TakePages
  <2>3. /\ mem_queue' \in Seq(UserPages)
        /\ Len(mem_queue') = Len(mem_queue) - m
        /\ \A k \in 1 .. Len(mem_queue) - m : mem_queue'[k] = mem_queue[m + k]
    <3> HIDE DEF m
    <3> QED BY <1>2, <2>1, <2>2, DropFirst
  <2> QED BY <2>3, LenProperties
<1>6. user_used' \in 0 .. USER_CAPACITY /\ UsedWholePages'
  <2>1. PICK u \in 0 .. NUM_OF_PAGE_FOR_USER : user_used = u * SIZE_OF_PAGE
    BY DEF IInv, Consistent, UsedWholePages
  <2>2. n <= NUM_OF_PAGE_FOR_USER - u
    BY <1>1, <2>1, Constants, DivProduct
  <2>3. u + n \in 0 .. NUM_OF_PAGE_FOR_USER
    BY <2>2, Constants
  <2>4. user_used' = (u + n) * SIZE_OF_PAGE
    BY <2>1, Constants DEF TakePages
  <2>5. /\ (u + n) * SIZE_OF_PAGE <= USER_CAPACITY
        /\ (u + n) * SIZE_OF_PAGE \in Nat
        /\ USER_CAPACITY \in Nat
    BY <2>3, Constants, ProductLeq
  <2> QED BY <2>3, <2>4, <2>5 DEF UsedWholePages
<1>7. TablesDense'
  BY <1>4, TableShape DEF TablesDense
<1>8. ASSUME NEW q \in Pids, NEW i \in Entries
      PROVE  PCBs'[q].page_table.table[i] =
               IF q = p /\ Here(i) THEN mem_queue[i - s + 1] ELSE Tab(q, i)
  BY <1>4
<1>9. ASSUME NEW i \in Entries, Here(i)
      PROVE  i - s + 1 \in 1 .. m /\ i - s + 1 \in 1 .. Len(mem_queue)
  <2>1. i \in Int /\ m <= Len(mem_queue)
    BY <1>1 DEF Entries
  <2> HIDE DEF m, s
  <2> QED BY <1>2, <1>3, <1>9, <2>1
<1>10. /\ \A j, k \in 1 .. Len(mem_queue) : mem_queue[j] = mem_queue[k] => j = k
       /\ \A k \in 1 .. Len(mem_queue), q \in Pids, i \in Entries :
            mem_queue[k] # Tab(q, i)
  BY <1>2 DEF IInv, Consistent, PageConservation, FreePagesDistinct, FreeNotMapped
<1>11. FreePagesDistinct'
  <2> SUFFICES ASSUME NEW j \in 1 .. Len(mem_queue) - m, NEW k \in 1 .. Len(mem_queue) - m,
                      mem_queue'[j] = mem_queue'[k]
               PROVE  j = k
    BY <1>5 DEF FreePagesDistinct
  <2>1. m + j \in 1 .. Len(mem_queue) /\ m + k \in 1 .. Len(mem_queue)
    BY <1>2, <1>3
  <2>2. m + j = m + k
    BY <1>5, <1>10, <2>1
  <2> QED BY <1>3, <2>2
<1>12. FreeNotMapped'
  <2> SUFFICES ASSUME NEW k \in 1 .. Len(mem_queue) - m, NEW q \in Pids, NEW i \in Entries
               PROVE  mem_queue'[k] # PCBs'[q].page_table.table[i]
    BY <1>5 DEF FreeNotMapped
  <2>1. m + k \in 1 .. Len(mem_queue) /\ mem_queue'[k] = mem_queue[m + k]
    BY <1>2, <1>3, <1>5
  <2>2. CASE q = p /\ Here(i)
    <3>1. m + k # i - s + 1
      BY <1>3, <1>9, <2>2
    <3> QED BY <1>8, <1>9, <1>10, <2>1, <2>2, <3>1
  <2>3. CASE ~(q = p /\ Here(i))
    BY <1>8, <1>10, <2>1, <2>3
  <2> QED BY <2>2, <2>3
<1>13. MappedPagesDistinct'
  <2> SUFFICES ASSUME NEW q \in Pids, NEW r \in Pids, NEW i \in Entries, NEW j \in Entries,
                      PCBs'[q].page_table.table[i] = PCBs'[r].page_table.table[j],
                      PCBs'[q].page_table.table[i] # PAGE_NOT_USED
               PROVE  q = r /\ i = j
    BY DEF MappedPagesDistinct
  <2>1. CASE (q = p /\ Here(i)) /\ (r = p /\ Here(j))
    <3>1. i - s + 1 = j - s + 1
      BY <1>8, <1>9, <1>10, <2>1
    <3>2. i \in Int /\ j \in Int
      BY DEF Entries
    <3> QED BY <1>3, <2>1, <3>1, <3>2
  <2>2. CASE (q = p /\ Here(i)) /\ ~(r = p /\ Here(j))
    BY <1>8, <1>9, <1>10, <2>2
  <2>3. CASE ~(q = p /\ Here(i)) /\ (r = p /\ Here(j))
    BY <1>8, <1>9, <1>10, <2>3
  <2>4. CASE ~(q = p /\ Here(i)) /\ ~(r = p /\ Here(j))
    BY <1>8, <2>4 DEF IInv, Consistent, PageConservation, MappedPagesDistinct
  <2> QED BY <2>1, <2>2, <2>3, <2>4
<1>14. ASSUME NoPageLost
       PROVE  NoPageLost'
  <2> SUFFICES ASSUME NEW page \in UserPages
               PROVE  \/ \E k \in DOMAIN mem_queue' : mem_queue'[k] = page
                      \/ \E q \in Pids, i \in Entries : PCBs'[q].page_table.table[i] = page
    BY DEF NoPageLost
  <2>1. CASE \E k \in DOMAIN mem_queue : mem_queue[k] = page
    <3>1. PICK k \in 1 .. Len(mem_queue) : mem_queue[k] = page
      BY <1>2, <2>1
    <3>2. CASE k <= m
      <4>1. /\ s + k - 1 \in Entries
            /\ Here(s + k - 1)
            /\ (s + k - 1) - s + 1 = k
        <5> HIDE DEF m, s
        <5> QED BY <1>2, <1>3, <3>2, Constants DEF Entries
      <4>2. PCBs'[p].page_table.table[s + k - 1] = page
        BY <1>8, <3>1, <4>1
      <4> QED BY <4>1, <4>2
    <3>3. CASE ~(k <= m)
      <4>1. k - m \in 1 .. Len(mem_queue) - m /\ m + (k - m) = k
        BY <1>2, <1>3, <3>3
      <4>2. mem_queue'[k - m] = page
        BY <1>5, <3>1, <4>1
      <4> QED BY <1>5, <4>1, <4>2
    <3> QED BY <3>2, <3>3
  <2>2. CASE \E q \in Pids, i \in Entries : Tab(q, i) = page
    <3>1. PICK q \in Pids, i \in Entries : Tab(q, i) = page
      BY <2>2
    <3>2. ~(q = p /\ Here(i))
      <4> SUFFICES ASSUME q = p, Here(i) PROVE FALSE
        OBVIOUS
      <4>1. i < s
        BY <3>1, TableShape
      <4>2. i \in Int
        BY DEF Entries
      <4> QED BY <1>3, <4>1, <4>2
    <3>3. PCBs'[q].page_table.table[i] = page
      BY <1>8, <3>1, <3>2
    <3> QED BY <3>3
  <2> QED BY <2>1, <2>2, <1>14 DEF NoPageLost
<1>15. PageConservation'
  BY <1>11, <1>12, <1>13, <1>14 DEF IInv, Consistent, PageConservation
<1> QED BY <1>4, <1>5, <1>6, <1>7, <1>15

\* destroyProcess of a live process keeps every page and every pid in one place.
LEMMA ReleaseKeepsPages ==
  ASSUME IInv, status' = status, NEW p \in Pids, Running(p), Destroy(p)
  PROVE  /\ KernelTypeOK'
         /\ UsedWholePages'
         /\ PCBsKept'
         /\ TablesDense'
         /\ PageConservation'
         /\ PidConservation'
<1> DEFINE pt == PCBs[p].page_table
           s == pt.size
           Tab(q, i) == PCBs[q].page_table.table[i]
           r == [k \in 1 .. s |-> pt.table[k - 1]]
           L == Len(mem_queue)
<1>1. /\ pidQueue' = Append(pidQueue, p)
      /\ mem_queue' = mem_queue \o r
      /\ user_used' = UsedAfter(Len(r))
      /\ PCBs' = [PCBs EXCEPT ![p] = IdlePCB]
      /\ procSize' = [procSize EXCEPT ![p] = 0]
      /\ sys_used' = sys_used
  <2>1. PCBs[p].pid = p
    BY DEF IInv, Consistent, PCBsKept, Running
  <2>2. ReturnedPages(pt) = r
    BY TableShape, ReturnedDense
  <2> QED BY <2>1, <2>2 DEF Destroy
<1>2. /\ mem_queue \in Seq(UserPages)
      /\ L \in Nat
      /\ DOMAIN mem_queue = 1 .. L
      /\ \A k \in 1 .. L : mem_queue[k] \in UserPages
  BY LenProperties, ElementOfSeq DEF IInv, KernelTypeOK
<1>3. s \in 0 .. PAGE_CAPACITY /\ PAGE_CAPACITY \in Nat \ {0}
  BY TableShape, Constants
<1>4. \A k \in 1 .. s : k - 1 \in Entries /\ r[k] = Tab(p, k - 1) /\ r[k] \in UserPages
  <2> TAKE k \in 1 .. s
  <2>1. k - 1 \in Entries /\ k - 1 < s
    BY <1>3 DEF Entries
  <2> QED BY <2>1, TableShape
<1>5. r \in Seq(UserPages) /\ Len(r) = s
  <2>1. \A k \in 1 .. s : pt.table[k - 1] \in UserPages
    BY <1>4
  <2> QED BY <1>3, <2>1, IsASeq
<1>6. /\ mem_queue' \in Seq(UserPages)
      /\ DOMAIN mem_queue' = 1 .. L + s
      /\ \A k \in 1 .. L + s : mem_queue'[k] = IF k <= L THEN mem_queue[k] ELSE r[k - L]
  <2> HIDE DEF r
  <2>1. /\ mem_queue \o r \in Seq(UserPages)
        /\ Len(mem_queue \o r) = L + s
        /\ \A k \in 1 .. L + s : (mem_queue \o r)[k] = IF k <= L THEN mem_queue[k] ELSE r[k - L]
    BY <1>2, <1>5, ConcatProperties
  <2> QED BY <1>1, <2>1, LenProperties
<1>7. user_used' \in 0 .. USER_CAPACITY /\ UsedWholePages'
  <2>1. PICK u \in 0 .. NUM_OF_PAGE_FOR_USER : user_used = u * SIZE_OF_PAGE
    BY DEF IInv, Consistent, UsedWholePages
  <2>2. user_used' = IF user_used < s * SIZE_OF_PAGE THEN 0
                     ELSE user_used - s * SIZE_OF_PAGE
    BY <1>1, <1>5 DEF UsedAfter
  <2>3. CASE user_used < s * SIZE_OF_PAGE
    <3>1. user_used' = 0 * SIZE_OF_PAGE /\ 0 \in 0 .. NUM_OF_PAGE_FOR_USER
      BY <2>2, <2>3, Constants
    <3>2. 0 <= USER_CAPACITY /\ USER_CAPACITY \in Nat
      BY Constants
    <3> QED BY <3>1, <3>2, Constants DEF UsedWholePages
  <2>4. CASE ~(user_used < s * SIZE_OF_PAGE)
    <3>1. s <= u
      <4>1. ASSUME u + 1 <= s
            PROVE  FALSE
        <5>1. (u + 1) * SIZE_OF_PAGE <= s * SIZE_OF_PAGE
          <6> HIDE DEF s
          <6> QED BY <1>3, <4>1, Constants, ProductLeq
        <5>2. (u + 1) * SIZE_OF_PAGE = user_used + SIZE_OF_PAGE
          BY <2>1, Constants
        <5>3. user_used \in Nat /\ s * SIZE_OF_PAGE \in Nat
          <6> HIDE DEF s
          <6> QED BY <1>3, <2>1, Constants
        <5> HIDE DEF s
        <5> QED BY <2>4, <5>1, <5>2, <5>3, Constants
      <4> HIDE DEF s
      <4> QED BY <1>3, <4>1
    <3>2. u - s \in 0 .. NUM_OF_PAGE_FOR_USER
      <4> HIDE DEF s
      <4> QED BY <1>3, <3>1, Constants
    <3>3. user_used' = (u - s) * SIZE_OF_PAGE
      <4> HIDE DEF s
      <4> QED BY <1>3, <2>1, <2>2, <2>4, Constants
    <3>4. /\ (u - s) * SIZE_OF_PAGE <= NUM_OF_PAGE_FOR_USER * SIZE_OF_PAGE
          /\ (u - s) * SIZE_OF_PAGE \in Nat
      <4> HIDE DEF s
      <4> QED BY <3>2, Constants, ProductLeq
    <3>5. USER_CAPACITY = NUM_OF_PAGE_FOR_USER * SIZE_OF_PAGE /\ USER_CAPACITY \in Nat
      BY Constants
    <3> QED BY <3>2, <3>3, <3>4, <3>5 DEF UsedWholePages
  <2> QED BY <2>3, <2>4
<1>8. \A q \in Pids : PCBs'[q] = IF q = p THEN IdlePCB ELSE PCBs[q]
  BY <1>1 DEF IInv, KernelTypeOK
<1>9. /\ IdlePCB \in ControlBlocks
      /\ IdlePCB.pid = MAX_PID
      /\ IdlePCB.page_table = EmptyTable
      /\ Dense(EmptyTable)
      /\ \A i \in Entries : EmptyTable.table[i] = PAGE_NOT_USED
  BY EmptyDense DEF IdlePCB, ControlBlocks, EmptyTable
<1>10. /\ pidQueue \in Seq(Pids)
       /\ Len(pidQueue) \in Nat
       /\ DOMAIN pidQueue = 1 .. Len(pidQueue)
       /\ pidQueue' \in Seq(Pids)
       /\ DOMAIN pidQueue' = 1 .. Len(pidQueue) + 1
       /\ \A k \in 1 .. Len(pidQueue) + 1 :
            pidQueue'[k] = IF k <= Len(pidQueue) THEN pidQueue[k] ELSE p
  <2>1. pidQueue \in Seq(Pids)
    BY DEF IInv, KernelTypeOK
  <2>2. Len(pidQueue) \in Nat /\ DOMAIN pidQueue = 1 .. Len(pidQueue)
    BY <2>1, LenProperties
  <2>3. /\ Append(pidQueue, p) \in Seq(Pids)
        /\ Len(Append(pidQueue, p)) = Len(pidQueue) + 1
        /\ \A k \in 1 .. Len(pidQueue) : Append(pidQueue, p)[k] = pidQueue[k]
        /\ Append(pidQueue, p)[Len(pidQueue) + 1] = p
    BY <2>1, AppendProperties
  <2>4. DOMAIN pidQueue' = 1 .. Len(pidQueue) + 1
    BY <1>1, <2>3, LenProperties
  <2>5. ASSUME NEW k \in 1 .. Len(pidQueue) + 1
        PROVE  pidQueue'[k] = IF k <= Len(pidQueue) THEN pidQueue[k] ELSE p
    <3>1. CASE k <= Len(pidQueue)
      BY <1>1, <2>2, <2>3, <3>1
    <3>2. CASE ~(k <= Len(pidQueue))
      <4>1. k = Len(pidQueue) + 1
        BY <2>2, <3>2
      <4> QED BY <1>1, <2>3, <3>2, <4>1
    <3> QED BY <3>1, <3>2
  <2> QED BY <1>1, <2>1, <2>2, <2>3, <2>4, <2>5
<1>11. KernelTypeOK'
  <2>1. PCBs' \in [Pids -> ControlBlocks]
    BY <1>1, <1>9 DEF IInv, KernelTypeOK
  <2>2. procSize' \in [Pids -> 0 .. MAX_SIZE_OF_PROGRAM]
    BY <1>1, Constants DEF IInv, KernelTypeOK
  <2>3. sys_used' \in 0 .. USER_ADDR_OFFSET
    BY <1>1 DEF IInv, KernelTypeOK
  <2> QED BY <1>6, <1>7, <1>10, <2>1, <2>2, <2>3 DEF KernelTypeOK
<1>12. PCBsKept'
  BY <1>8, <1>9 DEF IInv, Consistent, PCBsKept, Running
<1>13. TablesDense'
  BY <1>8, <1>9 DEF IInv, Consistent, TablesDense
<1>14. ASSUME NEW q \in Pids, NEW i \in Entries
       PROVE  PCBs'[q].page_table.table[i] = IF q = p THEN PAGE_NOT_USED ELSE Tab(q, i)
  BY <1>8, <1>9
<1>15. PageConservation'
  <2>1. /\ \A j, k \in 1 .. L : mem_queue[j] = mem_queue[k] => j = k
        /\ \A k \in 1 .. L, q \in Pids, i \in Entries : mem_queue[k] # Tab(q, i)
        /\ \A q, q2 \in Pids, i, j \in Entries :
             Tab(q, i) = Tab(q2, j) /\ Tab(q, i) # PAGE_NOT_USED => q = q2 /\ i = j
    BY <1>2
       DEF IInv, Consistent, PageConservation, FreePagesDistinct, FreeNotMapped,
           MappedPagesDistinct
  <2>2. ASSUME NEW k \in 1 .. L + s
        PROVE  \/ /\ k \in 1 .. L
                  /\ mem_queue'[k] = mem_queue[k]
               \/ /\ ~(k <= L)
                  /\ k - L \in 1 .. s
                  /\ k - L - 1 \in Entries
                  /\ mem_queue'[k] = Tab(p, k - L - 1)
                  /\ mem_queue'[k] \in UserPages
    <3>1. CASE k <= L
      <4>1. k \in 1 .. L
        <5> HIDE DEF L, s
        <5> QED BY <1>2, <1>3, <3>1
      <4>2. mem_queue'[k] = mem_queue[k]
        BY <1>6, <3>1
      <4> QED BY <4>1, <4>2
    <3>2. CASE ~(k <= L)
      <4>1. k - L \in 1 .. s
        <5> HIDE DEF L, s
        <5> QED BY <1>2, <1>3, <3>2
      <4> QED BY <1>4, <1>6, <3>2, <4>1
    <3> QED BY <3>1, <3>2
  <2>3. ASSUME NEW j \in 1 .. L + s, NEW k \in 1 .. L + s, mem_queue'[j] = mem_queue'[k]
        PROVE  j = k
    <3>1. CASE j \in 1 .. L /\ k \in 1 .. L
      BY <1>2, <2>1, <2>2, <2>3, <3>1
    <3>2. CASE ~(j <= L) /\ ~(k <= L)
      <4>1. j - L - 1 = k - L - 1
        <5>1. Tab(p, j - L - 1) = Tab(p, k - L - 1) /\ Tab(p, j - L - 1) \in UserPages
          BY <1>2, <2>2, <2>3, <3>2
        <5>2. j - L - 1 \in Entries /\ k - L - 1 \in Entries
          BY <1>2, <2>2, <3>2
        <5> HIDE DEF Tab, L
        <5> QED BY <2>1, <5>1, <5>2, PageNotUsed
      <4> HIDE DEF L, s
      <4> QED BY <1>2, <1>3, <4>1
    <3>3. CASE j \in 1 .. L /\ ~(k <= L)
      BY <1>2, <2>1, <2>2, <2>3, <3>3
    <3>4. CASE ~(j <= L) /\ k \in 1 .. L
      BY <1>2, <2>1, <2>2, <2>3, <3>4
    <3> QED BY <2>2, <3>1, <3>2, <3>3, <3>4
  <2>4. FreePagesDistinct'
    BY <1>6, <2>3 DEF FreePagesDistinct
  <2>5. MappedPagesDistinct'
    <3> SUFFICES ASSUME NEW q \in Pids, NEW q2 \in Pids, NEW i \in Entries, NEW j \in Entries,
                        PCBs'[q].page_table.table[i] = PCBs'[q2].page_table.table[j],
                        PCBs'[q].page_table.table[i] # PAGE_NOT_USED
                 PROVE  q = q2 /\ i = j
      BY DEF MappedPagesDistinct
    <3>1. q # p /\ q2 # p
      BY <1>14
    <3>2. Tab(q, i) = Tab(q2, j) /\ Tab(q, i) # PAGE_NOT_USED
      BY <1>14, <3>1
    <3> HIDE DEF Tab
    <3> QED BY <2>1, <3>2
  <2>6. FreeNotMapped'
    <3> SUFFICES ASSUME NEW k \in 1 .. L + s, NEW q \in Pids, NEW i \in Entries
                 PROVE  mem_queue'[k] # PCBs'[q].page_table.table[i]
      BY <1>6 DEF FreeNotMapped
    <3>1. CASE q = p
      <4>1. mem_queue'[k] \in UserPages
        BY <1>2, <2>2
      <4> QED BY <1>14, <3>1, <4>1, PageNotUsed
    <3>2. CASE q # p
      <4>1. PCBs'[q].page_table.table[i] = Tab(q, i)
        BY <1>14, <3>2
      <4>2. CASE k \in 1 .. L
        <5>1. mem_queue'[k] = mem_queue[k]
          BY <1>2, <2>2, <4>2
        <5> QED BY <2>1, <4>1, <4>2, <5>1
      <4>3. CASE ~(k <= L)
        <5>1. /\ k - L - 1 \in Entries
              /\ mem_queue'[k] = Tab(p, k - L - 1)
              /\ mem_queue'[k] \in UserPages
          BY <1>2, <2>2, <4>3
        <5> HIDE DEF Tab, L
        <5> QED BY <2>1, <3>2, <4>1, <5>1, PageNotUsed
      <4> QED BY <2>2, <4>2, <4>3
    <3> QED BY <3>1, <3>2
  <2>7. ASSUME NoPageLost
        PROVE  NoPageLost'
    <3> SUFFICES ASSUME NEW page \in UserPages
                 PROVE  \/ \E k \in 1 .. L + s : mem_queue'[k] = page
                        \/ \E q \in Pids, i \in Entries : PCBs'[q].page_table.table[i] = page
      BY <1>6 DEF NoPageLost
    <3>1. CASE \E k \in DOMAIN mem_queue : mem_queue[k] = page
      <4>1. PICK k \in 1 .. L : mem_queue[k] = page
        BY <1>2, <3>1
      <4>2. k \in 1 .. L + s
        <5> HIDE DEF L, s
        <5> QED BY <1>2, <1>3, <4>1
      <4>3. k <= L
        BY <4>1
      <4> QED BY <1>6, <4>1, <4>2, <4>3
    <3>2. CASE \E q \in Pids, i \in Entries : Tab(q, i) = page
      <4>1. PICK q \in Pids, i \in Entries : Tab(q, i) = page
        BY <3>2
      <4>2. CASE q # p
        BY <1>14, <4>1, <4>2
      <4>3. CASE q = p
        <5>1. i < s /\ i \in 0 .. PAGE_CAPACITY - 1
          BY <4>1, <4>3, TableShape DEF Entries
        <5>2. /\ L + i + 1 \in 1 .. L + s
              /\ ~(L + i + 1 <= L)
              /\ L + i + 1 - L = i + 1
              /\ i + 1 \in 1 .. s
              /\ (i + 1) - 1 = i
          <6> HIDE DEF L, s
          <6> QED BY <1>2, <1>3, <5>1
        <5>3. mem_queue'[L + i + 1] = r[i + 1]
          <6> DEFINE z == L + i + 1
          <6>1. z \in 1 .. L + s /\ ~(z <= L) /\ z - L = i + 1
            BY <5>2
          <6>2. mem_queue'[z] = r[z - L]
            <7> HIDE DEF L, s, r, z
            <7> QED BY <1>6, <6>1
          <6> HIDE DEF L, r
          <6> QED BY <6>1, <6>2
        <5>4. r[i + 1] = page
          <6> HIDE DEF L, s, r, Tab
          <6> QED BY <1>4, <4>1, <4>3, <5>2
        <5> QED BY <5>2, <5>3, <5>4
      <4> QED BY <4>2, <4>3
    <3> QED BY <2>7, <3>1, <3>2 DEF NoPageLost
  <2> QED BY <2>4, <2>5, <2>6, <2>7 DEF IInv, Consistent, PageConservation
<1>16. PidConservation'
  <2>1. /\ \A j, k \in 1 .. Len(pidQueue) : pidQueue[j] = pidQueue[k] => j = k
        /\ \A k \in 1 .. Len(pidQueue) : ~Running(pidQueue[k]) /\ pidQueue[k] \in Pids
        /\ status # "exited" =>
             \A q \in Pids : Running(q) \/ \E k \in 1 .. Len(pidQueue) : pidQueue[k] = q
    BY <1>10, ElementOfSeq DEF IInv, Consistent, PidConservation
  <2>2. \A q \in Pids : Running(q)' <=> Running(q) /\ q # p
    BY <1>8, <1>9 DEF Running
  <2>3. \A k \in 1 .. Len(pidQueue) : pidQueue[k] # p
    BY <2>1
  <2>4. \A j, k \in DOMAIN pidQueue' : pidQueue'[j] = pidQueue'[k] => j = k
    <3> SUFFICES ASSUME NEW j \in 1 .. Len(pidQueue) + 1, NEW k \in 1 .. Len(pidQueue) + 1,
                        pidQueue'[j] = pidQueue'[k]
                 PROVE  j = k
      BY <1>10
    <3>0. Len(pidQueue) \in Nat
      BY <1>10
    <3>1. pidQueue'[j] = IF j <= Len(pidQueue) THEN pidQueue[j] ELSE p
      BY <1>10
    <3>2. pidQueue'[k] = IF k <= Len(pidQueue) THEN pidQueue[k] ELSE p
      BY <1>10
    <3>3. CASE j <= Len(pidQueue) /\ k <= Len(pidQueue)
      <4>1. j \in 1 .. Len(pidQueue) /\ k \in 1 .. Len(pidQueue)
        BY <3>0, <3>3
      <4>2. pidQueue[j] = pidQueue[k]
        BY <3>1, <3>2, <3>3
      <4> QED BY <2>1, <4>1, <4>2
    <3>4. CASE ~(j <= Len(pidQueue)) /\ ~(k <= Len(pidQueue))
      BY <1>10, <3>4
    <3>5. CASE j <= Len(pidQueue) /\ ~(k <= Len(pidQueue))
      <4>1. j \in 1 .. Len(pidQueue)
        BY <3>0, <3>5
      <4> QED BY <2>3, <3>1, <3>2, <3>5, <4>1
    <3>6. CASE ~(j <= Len(pidQueue)) /\ k <= Len(pidQueue)
      <4>1. k \in 1 .. Len(pidQueue)
        BY <3>0, <3>6
      <4> QED BY <2>3, <3>1, <3>2, <3>6, <4>1
    <3> QED BY <3>3, <3>4, <3>5, <3>6
  <2>5. ASSUME NEW k \in DOMAIN pidQueue'
        PROVE  PCBs'[pidQueue'[k]].pid = MAX_PID
    <3>1. k \in 1 .. Len(pidQueue) + 1
      BY <1>10
    <3>2. pidQueue'[k] = IF k <= Len(pidQueue) THEN pidQueue[k] ELSE p
      BY <1>10, <3>1
    <3>3. pidQueue'[k] \in Pids /\ ~(Running(pidQueue'[k]) /\ pidQueue'[k] # p)
      BY <1>10, <2>1, <3>1, <3>2
    <3> QED BY <3>3, <1>8, <1>9 DEF Running
  <2>6. ASSUME status' # "exited", NEW q \in Pids
        PROVE  Running(q)' \/ \E k \in DOMAIN pidQueue' : pidQueue'[k] = q
    <3>1. CASE q = p
      BY <1>10, <3>1
    <3>2. CASE q # p /\ Running(q)
      BY <2>2, <3>2
    <3>3. CASE ~Running(q)
      <4>1. PICK k \in 1 .. Len(pidQueue) : pidQueue[k] = q
        BY <2>1, <2>6, <3>3
      <4> QED BY <1>10, <4>1
    <3> QED BY <3>1, <3>2, <3>3
  <2> QED BY <2>4, <2>5, <2>6 DEF PidConservation, Running
<1> QED BY <1>7, <1>11, <1>12, <1>13, <1>15, <1>16

\* The labels of the faults a load and a growth can end in.
LEMMA FaultLabels ==
  ASSUME NEW p, NEW bytes
  PROVE  /\ LoadFault(p, bytes) \in Faults \cup {"none"}
         /\ ReadFault(p, bytes) \in Faults \cup {"none"}
         /\ GrowFault(p, bytes) \in Faults \cup {"none"}
         /\ LoadFault(p, bytes) = "none" =>
              /\ bytes # 0 /\ AllocateFault(p, byte2Page(bytes)) = "none"
              /\ ~(sys_used + SIZE_OF_PCB > USER_ADDR_OFFSET)
         /\ ReadFault(p, bytes) = "none" => LoadFault(p, bytes) = "none"
<1>1. ASSUME NEW n
      PROVE  AllocateFault(p, n) \in Faults \cup {"none"}
  BY Zenon DEF AllocateFault, Faults
<1>2. LoadFault(p, bytes) \in Faults \cup {"none"}
  BY <1>1, Zenon DEF LoadFault, Faults
<1>3. ReadFault(p, bytes) \in Faults \cup {"none"}
  BY <1>2 DEF ReadFault, Faults
<1>4. GrowFault(p, bytes) \in Faults \cup {"none"}
  BY <1>1 DEF GrowFault
<1>5. LoadFault(p, bytes) = "none" =>
        /\ bytes # 0 /\ AllocateFault(p, byte2Page(bytes)) = "none"
        /\ ~(sys_used + SIZE_OF_PCB > USER_ADDR_OFFSET)
  BY Zenon DEF LoadFault
<1>6. ReadFault(p, bytes) = "none" => LoadFault(p, bytes) = "none"
  BY DEF ReadFault
<1> QED BY <1>2, <1>3, <1>4, <1>5, <1>6

\* loadProgram asks mem_allocate_user for a number of pages that is a base_type,
\* for a pid that was free.
LEMMA LoadGrants ==
  ASSUME IInv, pidQueue # <<>>,
         NEW bytes \in 0 .. MAX_SIZE_OF_PROGRAM,
         LoadFault(Head(pidQueue), bytes) = "none",
         Load(Head(pidQueue), bytes)
  PROVE  /\ Head(pidQueue) \in Pids
         /\ byte2Page(bytes) \in 0 .. BASE_MOD - 1
         /\ AllocateFault(Head(pidQueue), byte2Page(bytes)) = "none"
         /\ TakePages(byte2Page(bytes))
         /\ \A q \in Pids :
              PCBs'[q] = IF q = Head(pidQueue)
                         THEN ReadyPCB(Head(pidQueue), byte2Page(bytes))
                         ELSE PCBs[q]
         /\ \A q \in Pids :
              PCBs'[q].page_table = IF q = Head(pidQueue)
                                    THEN GrownTable(Head(pidQueue), byte2Page(bytes))
                                    ELSE PCBs[q].page_table
<1> DEFINE p == Head(pidQueue)
           n == byte2Page(bytes)
<1>1. p \in Pids
  BY PopFirst DEF IInv, KernelTypeOK
<1>2. bytes \in Int
  BY Constants
<1>3. n \in 0 .. BASE_MOD - 1
  BY <1>2, byte2PageType
<1>4. AllocateFault(p, n) = "none"
  BY FaultLabels
<1>5. \A q \in Pids : PCBs'[q] = IF q = p THEN ReadyPCB(p, n) ELSE PCBs[q]
  BY <1>1 DEF IInv, KernelTypeOK, Load
<1>6. \A q \in Pids :
        PCBs'[q].page_table = IF q = p THEN GrownTable(p, n) ELSE PCBs[q].page_table
  BY <1>5 DEF ReadyPCB
<1> QED BY <1>1, <1>3, <1>4, <1>5, <1>6 DEF Load

\* creatProcess and loadProgram, when nothing stops them, keep every page and
\* every pid in one place; the new process gets an idle pid.
LEMMA LoadKeepsPages ==
  ASSUME IInv, status' = status, pidQueue # <<>>,
         NEW bytes \in 0 .. MAX_SIZE_OF_PROGRAM,
         LoadFault(Head(pidQueue), bytes) = "none",
         Load(Head(pidQueue), bytes)
  PROVE  /\ KernelTypeOK'
         /\ UsedWholePages'
         /\ PCBsKept'
         /\ TablesDense'
         /\ PageConservation'
         /\ PidConservation'
         /\ Head(pidQueue) \in Pids
         /\ ~Running(Head(pidQueue))
         /\ \A q \in Pids : PCBs'[q].pid = IF q = Head(pidQueue) THEN q ELSE PCBs[q].pid
<1> DEFINE p == Head(pidQueue)
           n == byte2Page(bytes)
           L == Len(pidQueue)
<1>1. /\ L \in Nat \ {0}
      /\ p = pidQueue[1] /\ p \in Pids
      /\ pidQueue' \in Seq(Pids)
      /\ DOMAIN pidQueue = 1 .. L
      /\ DOMAIN pidQueue' = 1 .. L - 1
      /\ \A k \in 1 .. L - 1 : pidQueue'[k] = pidQueue[k + 1]
  BY PopFirst DEF IInv, KernelTypeOK, Load
<1>2. ~Running(p)
  BY <1>1 DEF IInv, Consistent, PidConservation
<1>3. /\ n \in 0 .. BASE_MOD - 1
      /\ AllocateFault(p, n) = "none"
      /\ TakePages(n)
  BY LoadGrants
<1>4. \A q \in Pids : PCBs'[q] = IF q = p THEN ReadyPCB(p, n) ELSE PCBs[q]
  BY LoadGrants
<1>5. \A q \in Pids :
        PCBs'[q].page_table = IF q = p THEN GrownTable(p, n) ELSE PCBs[q].page_table
  BY LoadGrants
<1>6. /\ GrownTable(p, n) \in PageTables
      /\ mem_queue' \in Seq(UserPages)
      /\ user_used' \in 0 .. USER_CAPACITY
      /\ UsedWholePages'
      /\ TablesDense'
      /\ PageConservation'
  BY <1>1, <1>3, <1>5, GrantKeepsPages
<1>7. \A q \in Pids : PCBs'[q].pid = IF q = p THEN q ELSE PCBs[q].pid
  BY <1>4 DEF ReadyPCB
<1>8. KernelTypeOK'
  <2>1. ReadyPCB(p, n) \in ControlBlocks
    BY <1>1, <1>6 DEF ReadyPCB, ControlBlocks
  <2>2. PCBs' \in [Pids -> ControlBlocks]
    BY <1>1, <2>1 DEF IInv, KernelTypeOK, Load
  <2>3. procSize' \in [Pids -> 0 .. MAX_SIZE_OF_PROGRAM]
    BY <1>1 DEF IInv, KernelTypeOK, Load
  <2>4. sys_used' \in 0 .. USER_ADDR_OFFSET
    <3>1. sys_used' = sys_used + SIZE_OF_PCB /\ sys_used \in 0 .. USER_ADDR_OFFSET
      BY DEF IInv, KernelTypeOK, Load
    <3>2. ~(sys_used + SIZE_OF_PCB > USER_ADDR_OFFSET)
      BY FaultLabels
    <3> QED BY <3>1, <3>2, Constants, KernelAssumption
  <2> QED BY <1>1, <1>6, <2>2, <2>3, <2>4 DEF KernelTypeOK
<1>9. PCBsKept'
  <2> SUFFICES ASSUME NEW q \in Pids
               PROVE  /\ PCBs'[q].pid \in {q, MAX_PID}
                      /\ PCBs'[q].pid = MAX_PID => PCBs'[q].page_table = EmptyTable
    BY DEF PCBsKept, Running
  <2>1. CASE q = p
    BY <1>7, <2>1, Constants
  <2>2. CASE q # p
    BY <1>5, <1>7, <2>2 DEF IInv, Consistent, PCBsKept, Running
  <2> QED BY <2>1, <2>2
<1>10. PidConservation'
  <2>1. /\ \A j, k \in 1 .. L : pidQueue[j] = pidQueue[k] => j = k
        /\ \A k \in 1 .. L : PCBs[pidQueue[k]].pid = MAX_PID /\ pidQueue[k] \in Pids
        /\ status # "exited" =>
             \A q \in Pids : PCBs[q].pid # MAX_PID \/ \E k \in 1 .. L : pidQueue[k] = q
    BY <1>1, ElementOfSeq DEF IInv, KernelTypeOK, Consistent, PidConservation, Running
  <2>2. ASSUME NEW k \in 1 .. L - 1
        PROVE  k + 1 \in 1 .. L /\ k + 1 # 1 /\ pidQueue'[k] = pidQueue[k + 1]
    BY <1>1
  <2>3. ASSUME NEW j \in 1 .. L - 1, NEW k \in 1 .. L - 1, pidQueue'[j] = pidQueue'[k]
        PROVE  j = k
    <3>1. j + 1 = k + 1
      BY <2>1, <2>2, <2>3
    <3> QED BY <1>1, <3>1
  <2>4. ASSUME NEW k \in 1 .. L - 1
        PROVE  PCBs'[pidQueue'[k]].pid = MAX_PID
    <3>1. /\ pidQueue[k + 1] \in Pids
          /\ pidQueue[k + 1] # p
          /\ PCBs[pidQueue[k + 1]].pid = MAX_PID
      <4>1. 1 \in 1 .. L
        BY <1>1
      <4> QED BY <1>1, <2>1, <2>2, <4>1
    <3> QED BY <1>7, <2>2, <3>1
  <2>5. ASSUME status' # "exited", NEW q \in Pids, PCBs'[q].pid = MAX_PID
        PROVE  \E k \in 1 .. L - 1 : pidQueue'[k] = q
    <3>1. q # p /\ PCBs[q].pid = MAX_PID
      BY <1>7, <2>5, Constants
    <3>2. PICK k \in 1 .. L : pidQueue[k] = q
      BY <2>1, <2>5, <3>1
    <3>3. k # 1
      BY <1>1, <3>1, <3>2
    <3>4. k - 1 \in 1 .. L - 1 /\ (k - 1) + 1 = k
      BY <1>1, <3>2, <3>3
    <3>5. pidQueue'[k - 1] = q
      BY <1>1, <3>2, <3>4
    <3> QED BY <3>4, <3>5
  <2> QED BY <1>1, <2>3, <2>4, <2>5 DEF PidConservation, Running
<1> QED BY <1>1, <1>2, <1>6, <1>7, <1>8, <1>9, <1>10

\* procAllocate, where it allocates, asks mem_allocate_user for a number of pages
\* that is a base_type, whatever its unsigned difference comes to.
LEMMA GrowGrants ==
  ASSUME IInv, NEW p \in Pids, NEW bytes \in Nat, Need(p, bytes) # 0,
         GrowFault(p, bytes) = "none", Grow(p, bytes)
  PROVE  /\ byte2Page(Need(p, bytes)) \in 0 .. BASE_MOD - 1
         /\ AllocateFault(p, byte2Page(Need(p, bytes))) = "none"
         /\ TakePages(byte2Page(Need(p, bytes)))
         /\ PCBs' = [PCBs EXCEPT ![p].page_table = GrownTable(p, byte2Page(Need(p, bytes)))]
         /\ \A q \in Pids :
              PCBs'[q].page_table = IF q = p THEN GrownTable(p, byte2Page(Need(p, bytes)))
                                    ELSE PCBs[q].page_table
<1> DEFINE n == byte2Page(Need(p, bytes))
<1>1. n \in 0 .. BASE_MOD - 1
  <2>1. PagesFree(p) \in Int
    <3>1. /\ PCBs[p].page_table.size \in 0 .. PAGE_CAPACITY
          /\ procSize[p] \in 0 .. MAX_SIZE_OF_PROGRAM
      BY TableShape DEF IInv, KernelTypeOK
    <3> QED BY <3>1, Constants DEF PagesFree
  <2>2. Need(p, bytes) \in Int
    BY <2>1, Constants DEF Need
  <2> QED BY <2>2, byte2PageType
<1>2. AllocateFault(p, n) = "none"
  BY DEF GrowFault
<1>3. /\ TakePages(n)
      /\ PCBs' = [PCBs EXCEPT ![p].page_table = GrownTable(p, n)]
  BY DEF Grow
<1>4. \A q \in Pids :
        PCBs'[q].page_table = IF q = p THEN GrownTable(p, n) ELSE PCBs[q].page_table
  <2> HIDE DEF n
  <2> QED BY <1>3 DEF IInv, KernelTypeOK, ControlBlocks
<1> QED BY <1>1, <1>2, <1>3, <1>4

\* procAllocate keeps every page in one place, whatever its unsigned difference
\* comes to.
LEMMA GrowKeepsPages ==
  ASSUME IInv, status' = status, NEW p \in Pids, Running(p), NEW bytes \in Nat,
         procSize[p] + bytes <= MAX_SIZE_OF_PROGRAM,
         GrowFault(p, bytes) = "none", Grow(p, bytes)
  PROVE  /\ KernelTypeOK'
         /\ UsedWholePages'
         /\ PCBsKept'
         /\ TablesDense'
         /\ PageConservation'
         /\ PidConservation'
         /\ \A q \in Pids : PCBs'[q].pid = PCBs[q].pid
<1>1. procSize' \in [Pids -> 0 .. MAX_SIZE_OF_PROGRAM] /\ sys_used' \in 0 .. USER_ADDR_OFFSET
  <2>1. procSize[p] + bytes \in 0 .. MAX_SIZE_OF_PROGRAM
    BY Constants DEF IInv, KernelTypeOK
  <2> QED BY <2>1 DEF IInv, KernelTypeOK, Grow
<1>2. pidQueue' = pidQueue
  BY DEF Grow
<1>3. CASE Need(p, bytes) = 0
  <2>1. UNCHANGED <<mem_queue, user_used, PCBs>>
    BY <1>3 DEF Grow
  <2>2. KernelTypeOK'
    BY <1>1, <1>2, <2>1 DEF IInv, KernelTypeOK
  <2> QED BY <1>2, <2>1, <2>2
          DEF IInv, Consistent, UsedWholePages, PCBsKept, TablesDense, Running,
              PageConservation, FreePagesDistinct, MappedPagesDistinct, FreeNotMapped,
              NoPageLost, PidConservation
<1>4. CASE Need(p, bytes) # 0
  <2> DEFINE n == byte2Page(Need(p, bytes))
  <2>1. n \in 0 .. BASE_MOD - 1
    BY <1>4, GrowGrants
  <2>2. AllocateFault(p, n) = "none"
    BY <1>4, GrowGrants
  <2>3. /\ TakePages(n)
        /\ PCBs' = [PCBs EXCEPT ![p].page_table = GrownTable(p, n)]
    BY <1>4, GrowGrants
  <2>4. /\ \A q \in Pids : PCBs[q] \in ControlBlocks
        /\ \A q \in Pids :
             PCBs'[q].page_table = IF q = p THEN GrownTable(p, n) ELSE PCBs[q].page_table
        /\ \A q \in Pids : PCBs'[q].pid = PCBs[q].pid
    BY <2>3 DEF IInv, KernelTypeOK, ControlBlocks
  <2>5. /\ GrownTable(p, n) \in PageTables
        /\ mem_queue' \in Seq(UserPages)
        /\ user_used' \in 0 .. USER_CAPACITY
        /\ UsedWholePages'
        /\ TablesDense'
        /\ PageConservation'
    BY <2>1, <2>2, <2>3, <2>4, GrantKeepsPages
  <2>6. KernelTypeOK'
    <3>1. PCBs' \in [Pids -> ControlBlocks]
      BY <2>3, <2>4, <2>5 DEF IInv, KernelTypeOK, ControlBlocks
    <3> QED BY <1>1, <1>2, <2>5, <3>1 DEF IInv, KernelTypeOK
  <2>7. PCBsKept'
    BY <2>4 DEF IInv, Consistent, PCBsKept, Running
  <2>8. PidConservation'
    <3>1. \A k \in DOMAIN pidQueue : pidQueue[k] \in Pids
      BY ElementOfSeq, LenProperties DEF IInv, KernelTypeOK
    <3> QED BY <1>2, <2>4, <3>1 DEF IInv, Consistent, PidConservation, Running
  <2> QED BY <2>4, <2>5, <2>6, <2>7, <2>8
<1> QED BY <1>3, <1>4


-----------------------------------------------------------------------------
(* The steps of the shell. *)

\* Refusals, and commands that die, keep what the kernel holds.
LEMMA KernelUntouched ==
  ASSUME IInv, status = "running", UNCHANGED kernelVars, UNCHANGED procList, ShellTypeOK'
  PROVE  IInv'
BY DEF kernelVars, IInv, KernelTypeOK, Consistent, UsedWholePages, PCBsKept, TablesDense,
       Running, PageConservation, FreePagesDistinct, MappedPagesDistinct, FreeNotMapped,
       NoPageLost, PidConservation, ListedAreLive, EmptySlots

\* A refusal.
LEMMA RefuseKeeps ==
  ASSUME IInv, status = "running", NEW message \in Replies, Refuse(message)
  PROVE  IInv'
<1>1. ShellTypeOK'
  BY DEF IInv, ShellTypeOK, Refuse
<1> QED BY <1>1, KernelUntouched DEF Refuse

\* A fault.
LEMMA DieKeeps ==
  ASSUME IInv, status = "running", NEW fault \in Faults, Die(fault)
  PROVE  IInv'
<1>1. ShellTypeOK'
  BY DEF IInv, ShellTypeOK, Die, Replies
<1> QED BY <1>1, KernelUntouched DEF Die

\* The first empty slot is one.
LEMMA FirstEmptyIsEmpty ==
  ASSUME EmptySlots # {}
  PROVE  FirstEmpty \in EmptySlots
<1>1. EmptySlots \in SUBSET Nat
  BY Constants DEF EmptySlots, Slots
<1>2. \E i \in EmptySlots : \A j \in EmptySlots : i <= j
  BY <1>1, LeastExists
<1> QED BY <1>2 DEF FirstEmpty

\* creatProcess and loadProgram, from cp or from ld.
LEMMA StartKeeps ==
  ASSUME IInv, status = "running", CanStart, NEW bytes \in 0 .. MAX_SIZE_OF_PROGRAM,
         NEW fault \in Faults \cup {"none"},
         fault = "none" => LoadFault(Head(pidQueue), bytes) = "none",
         Start(bytes, fault)
  PROVE  IInv'
<1>1. CASE fault # "none"
  BY <1>1, DieKeeps DEF Start
<1>2. CASE fault = "none"
  <2> DEFINE p == Head(pidQueue)
  <2>1. /\ Load(p, bytes)
        /\ procList' = [procList EXCEPT ![FirstEmpty] = p]
        /\ reply' = "success"
        /\ UNCHANGED <<disk, streams, status>>
    BY <1>2 DEF Start
  <2>2. FirstEmpty \in Slots /\ procList[FirstEmpty] = NULL
    BY FirstEmptyIsEmpty DEF CanStart, EmptySlots
  <2>3. /\ KernelTypeOK'
        /\ UsedWholePages'
        /\ PCBsKept'
        /\ TablesDense'
        /\ PageConservation'
        /\ PidConservation'
        /\ p \in Pids
        /\ ~Running(p)
        /\ \A q \in Pids : PCBs'[q].pid = IF q = p THEN q ELSE PCBs[q].pid
    BY <1>2, <2>1, LoadKeepsPages DEF CanStart
  <2>4. ShellTypeOK'
    BY <2>1, <2>3 DEF IInv, ShellTypeOK, Replies
  <2>5. ListedAreLive'
    <3>1. \A i \in Slots :
            procList'[i] = IF i = FirstEmpty THEN p ELSE procList[i]
      BY <2>1 DEF IInv, ShellTypeOK
    <3>2. ASSUME NEW i \in Slots, procList[i] # NULL
          PROVE  procList[i] \in Pids /\ procList[i] # p /\ PCBs[procList[i]].pid # MAX_PID
      BY <2>3, <3>2 DEF IInv, ShellTypeOK, Consistent, ListedAreLive, EmptySlots, Running
    <3>3. ASSUME NEW i \in Slots, procList'[i] # NULL
          PROVE  PCBs'[procList'[i]].pid # MAX_PID
      <4>1. CASE i = FirstEmpty
        BY <2>3, <3>1, <4>1, Constants
      <4>2. CASE i # FirstEmpty
        BY <2>3, <3>1, <3>2, <3>3, <4>2
      <4> QED BY <4>1, <4>2
    <3>4. ASSUME NEW i \in Slots, NEW j \in Slots, procList'[i] # NULL,
                 procList'[i] = procList'[j]
          PROVE  i = j
      <4>1. CASE i = FirstEmpty \/ j = FirstEmpty
        BY <3>1, <3>2, <3>4, <4>1
      <4>2. CASE i # FirstEmpty /\ j # FirstEmpty
        BY <3>1, <3>4, <4>2 DEF IInv, Consistent, ListedAreLive, EmptySlots
      <4> QED BY <4>1, <4>2
    <3> QED BY <3>3, <3>4 DEF ListedAreLive, EmptySlots, Running
  <2> QED BY <2>3, <2>4, <2>5 DEF IInv, Consistent
<1> QED BY <1>1, <1>2

\* A slot that is not empty holds a live process, under its own pid.
LEMMA ListedProcess ==
  ASSUME IInv, NEW i \in Slots, procList[i] # NULL
  PROVE  /\ procList[i] \in Pids
         /\ Running(procList[i])
         /\ PCBs[procList[i]].pid = procList[i]
         /\ procSize[procList[i]] \in 0 .. MAX_SIZE_OF_PROGRAM
<1>1. procList[i] \in Pids /\ Running(procList[i])
  BY DEF IInv, ShellTypeOK, Consistent, ListedAreLive, EmptySlots
<1> QED BY <1>1 DEF IInv, KernelTypeOK, Consistent, PCBsKept, Running

\* The slot dp finds is not empty, so that its process is alive.
LEMMA FoundProcess ==
  ASSUME IInv, NEW pid, SlotsOf(pid) # {}
  PROVE  /\ SlotOf(pid) \in Slots
         /\ procList[SlotOf(pid)] # NULL
         /\ procList[SlotOf(pid)] \in Pids
         /\ Running(procList[SlotOf(pid)])
<1>1. SlotsOf(pid) \in SUBSET Nat
  BY Constants DEF SlotsOf, Slots
<1>2. \E i \in SlotsOf(pid) : \A j \in SlotsOf(pid) : i <= j
  BY <1>1, LeastExists
<1>3. SlotOf(pid) \in SlotsOf(pid)
  BY <1>2 DEF SlotOf
<1>4. SlotOf(pid) \in Slots /\ procList[SlotOf(pid)] # NULL
  BY <1>3 DEF SlotsOf, EmptySlots
<1> QED BY <1>4, ListedProcess

\* A typed pid is a slot when it is below MAX_PID, and a typed size a number.
LEMMA TypedArguments ==
  /\ \A typed \in TypedPids : PidArg(typed) < MAX_PID => PidArg(typed) \in Slots
  /\ \A typed \in TypedSizes : SizeArg(typed) \in Nat
<1>1. ASSUME NEW typed \in TypedPids
      PROVE  PidArg(typed) \in Nat
  BY Constants, ModRange DEF PidArg
<1>2. ASSUME NEW typed \in TypedSizes
      PROVE  SizeArg(typed) \in Nat
  <2>1. typed * KB \in Int
    BY Constants
  <2> QED BY <2>1, Constants, ModRange DEF SizeArg
<1> QED BY <1>1, <1>2, Constants DEF Slots, Pids

\* cp.
LEMMA CpKeeps ==
  ASSUME IInv, NEW typed \in TypedSizes, Cp(typed)
  PROVE  IInv'
<1> DEFINE bytes == SizeArg(typed)
           p == Head(pidQueue)
<1>1. status = "running"
  BY DEF Cp
<1>2. CASE \E message \in Replies : Refuse(message)
  BY <1>1, <1>2, RefuseKeeps
<1>3. CASE /\ bytes # 0 /\ bytes <= MAX_SIZE_OF_PROGRAM
           /\ CanStart
           /\ Start(bytes, LoadFault(p, bytes))
  <2>1. bytes \in 0 .. MAX_SIZE_OF_PROGRAM
    BY <1>3, TypedArguments, Constants
  <2>2. LoadFault(p, bytes) \in Faults \cup {"none"}
    BY FaultLabels
  <2> QED BY <1>1, <1>3, <2>1, <2>2, StartKeeps
<1> QED BY <1>2, <1>3 DEF Cp, Replies

\* dp.
LEMMA DpKeeps ==
  ASSUME IInv, NEW typed \in TypedPids, Dp(typed)
  PROVE  IInv'
<1> DEFINE pid == PidArg(typed)
           slot == SlotOf(pid)
<1>1. status = "running"
  BY DEF Dp
<1>2. CASE \E message \in Replies : Refuse(message)
  BY <1>1, <1>2, RefuseKeeps
<1>3. CASE /\ pid < MAX_PID
           /\ SlotsOf(pid) # {}
           /\ Destroy(procList[slot])
           /\ procList' = Cleared(pid)
           /\ reply' = "success"
           /\ UNCHANGED <<disk, streams, status>>
  <2>1. slot \in Slots /\ procList[slot] # NULL
    BY <1>3, FoundProcess
  <2>2. procList[slot] \in Pids /\ Running(procList[slot]) /\ pid \in Slots
    BY <1>3, FoundProcess, TypedArguments
  <2>3. /\ KernelTypeOK'
        /\ UsedWholePages'
        /\ PCBsKept'
        /\ TablesDense'
        /\ PageConservation'
        /\ PidConservation'
    BY <1>3, <2>2, ReleaseKeepsPages
  <2>4. \A i \in Slots :
          procList'[i] = IF i = slot \/ i = pid THEN NULL ELSE procList[i]
    BY <1>3, <2>1, <2>2 DEF Cleared, IInv, ShellTypeOK
  <2>5. ShellTypeOK'
    <3>1. procList' \in [Slots -> Pids \cup {NULL}]
      BY <1>3, <2>1, <2>2 DEF Cleared, IInv, ShellTypeOK
    <3> QED BY <1>3, <3>1 DEF IInv, ShellTypeOK, Replies
  <2>6. ListedAreLive'
    <3> SUFFICES ASSUME NEW i \in Slots, NEW j \in Slots,
                        procList'[i] # NULL, procList'[j] # NULL
                 PROVE  /\ PCBs'[procList'[i]].pid # MAX_PID
                        /\ procList'[i] = procList'[j] => i = j
      BY DEF ListedAreLive, EmptySlots, Running
    <3>1. /\ procList'[i] = procList[i] /\ procList[i] # NULL /\ i # slot
          /\ procList'[j] = procList[j] /\ procList[j] # NULL
      BY <2>4
    <3>2. /\ Running(procList[i])
          /\ procList[i] = procList[j] => i = j
          /\ procList[i] # procList[slot]
      BY <2>1, <3>1 DEF IInv, Consistent, ListedAreLive, EmptySlots
    <3>3. PCBs'[procList[i]] = PCBs[procList[i]]
      BY <1>3, <3>2, <2>2, <3>1, ListedProcess DEF Destroy, IInv, KernelTypeOK
    <3> QED BY <3>1, <3>2, <3>3 DEF Running
  <2> QED BY <2>3, <2>5, <2>6 DEF IInv, Consistent
<1> QED BY <1>2, <1>3 DEF Dp, Replies

\* pa.
LEMMA PaKeeps ==
  ASSUME IInv, NEW typedPid \in TypedPids, NEW typedSize \in TypedSizes,
         Pa(typedPid, typedSize)
  PROVE  IInv'
<1> DEFINE slot == PidArg(typedPid)
           p == procList[slot]
           bytes == SizeArg(typedSize)
<1>1. status = "running"
  BY DEF Pa
<1>2. CASE \E message \in Replies : Refuse(message)
  BY <1>1, <1>2, RefuseKeeps
<1>3. CASE \E fault \in Faults : Die(fault)
  BY <1>1, <1>3, DieKeeps
<1>4. CASE /\ slot < MAX_PID
           /\ p # NULL
           /\ MAX_SIZE_OF_PROGRAM - procSize[p] > bytes
           /\ GrowFault(p, bytes) = "none"
           /\ Grow(p, bytes)
           /\ reply' = "success"
           /\ UNCHANGED <<procList, disk, streams, status>>
  <2>1. slot \in Slots /\ bytes \in Nat
    BY <1>4, TypedArguments
  <2>2. /\ p \in Pids
        /\ Running(p)
        /\ procSize[p] \in 0 .. MAX_SIZE_OF_PROGRAM
    BY <1>4, <2>1, ListedProcess
  <2>3. procSize[p] + bytes <= MAX_SIZE_OF_PROGRAM
    <3> HIDE DEF p, bytes
    <3> QED BY <1>4, <2>1, <2>2, Constants
  <2>4. /\ KernelTypeOK'
        /\ UsedWholePages'
        /\ PCBsKept'
        /\ TablesDense'
        /\ PageConservation'
        /\ PidConservation'
        /\ \A q \in Pids : PCBs'[q].pid = PCBs[q].pid
    BY <1>4, <2>1, <2>2, <2>3, GrowKeepsPages
  <2>5. ShellTypeOK'
    BY <1>4 DEF IInv, ShellTypeOK, Replies
  <2>6. ListedAreLive'
    BY <1>4, <2>4 DEF IInv, ShellTypeOK, Consistent, ListedAreLive, EmptySlots, Running
  <2> QED BY <2>4, <2>5, <2>6 DEF IInv, Consistent
<1>5. /\ "null_process" \in Faults
      /\ GrowFault(p, bytes) # "none" => GrowFault(p, bytes) \in Faults
  BY FaultLabels DEF Faults
<1>6. /\ "pid is unvalid" \in Replies
      /\ "size is unvalid" \in Replies
      /\ "space is not enough" \in Replies
  BY DEF Replies
<1> QED BY <1>2, <1>3, <1>4, <1>5, <1>6 DEF Pa


\* sd.
LEMMA SdKeeps ==
  ASSUME IInv, NEW typed \in TypedPids, NEW file \in FileNames, Sd(typed, file)
  PROVE  IInv'
<1> DEFINE slot == PidArg(typed)
           p == procList[slot]
<1>1. status = "running"
  BY DEF Sd
<1>2. CASE \E message \in Replies : Refuse(message)
  BY <1>1, <1>2, RefuseKeeps
<1>3. CASE \E fault \in Faults : Die(fault)
  BY <1>1, <1>3, DieKeeps
<1>4. CASE /\ slot < MAX_PID
           /\ p # NULL
           /\ disk' = [disk EXCEPT ![file] = procSize[p]]
           /\ reply' = "success"
           /\ UNCHANGED <<kernelVars, procList, streams, status>>
  <2>1. procSize[p] \in Nat
    BY <1>4, TypedArguments, ListedProcess, Constants
  <2>2. ShellTypeOK'
    BY <1>4, <2>1 DEF IInv, ShellTypeOK, Replies
  <2> QED BY <1>1, <1>4, <2>2, KernelUntouched
<1>5. "fill_overrun" \in Faults /\ "bad_page" \in Faults
  BY DEF Faults
<1>6. /\ "pid is unvalid" \in Replies
      /\ "process not exist" \in Replies
      /\ "store failed" \in Replies
  BY DEF Replies
<1> QED BY <1>2, <1>3, <1>4, <1>5, <1>6 DEF Sd

\* ld.
LEMMA LdKeeps ==
  ASSUME IInv, NEW file \in FileNames, Ld(file)
  PROVE  IInv'
<1> DEFINE bytes == disk[file]
           fault == ReadFault(Head(pidQueue), bytes)
<1>1. status = "running"
  BY DEF Ld
<1>2. CASE Refuse("load failed")
  BY <1>1, <1>2, RefuseKeeps DEF Replies
<1>3. CASE /\ CanOpen
           /\ streams' = streams + 1
           /\ reply' = "load failed"
           /\ UNCHANGED <<kernelVars, procList, disk, status>>
  <2>1. streams' \in 0 .. FOPEN_MAX
    <3>1. streams \in 0 .. FOPEN_MAX /\ FOPEN_MAX \in Nat /\ streams < FOPEN_MAX
      BY <1>3, Constants DEF CanOpen, IInv, ShellTypeOK
    <3>2. streams' = streams + 1
      BY <1>3
    <3> QED BY <3>1, <3>2
  <2>2. ShellTypeOK'
    BY <1>3, <2>1 DEF IInv, ShellTypeOK, Replies
  <2> QED BY <1>1, <1>3, <2>2, KernelUntouched
<1>4. CASE /\ bytes # NULL
           /\ ~TooLarge(bytes)
           /\ CanStart
           /\ Start(bytes, fault)
  <2>1. bytes \in Nat
    BY <1>4 DEF IInv, ShellTypeOK
  <2>2. bytes \in 0 .. MAX_SIZE_OF_PROGRAM
    BY <1>4, <2>1, Constants DEF TooLarge
  <2>3. /\ fault \in Faults \cup {"none"}
        /\ fault = "none" => LoadFault(Head(pidQueue), bytes) = "none"
    BY FaultLabels
  <2> QED BY <1>1, <1>4, <2>2, <2>3, StartKeeps
<1> QED BY <1>2, <1>3, <1>4 DEF Ld

\* An idle PCB, as at boot and after exit.
LEMMA IdleShape ==
  /\ IdlePCB \in ControlBlocks
  /\ IdlePCB.pid = MAX_PID
  /\ IdlePCB.page_table = EmptyTable
  /\ Dense(EmptyTable)
  /\ \A i \in Entries : EmptyTable.table[i] = PAGE_NOT_USED
BY EmptyDense DEF IdlePCB, ControlBlocks, EmptyTable

\* exit.
LEMMA ExitKeeps ==
  ASSUME IInv, Exit
  PROVE  IInv'
<1>1. KernelTypeOK'
  <2>1. mem_queue' \in Seq(UserPages) /\ pidQueue' \in Seq(Pids)
    BY DEF Exit
  <2>2. user_used' \in 0 .. USER_CAPACITY /\ sys_used' \in 0 .. USER_ADDR_OFFSET
    BY Constants DEF Exit
  <2>3. PCBs' \in [Pids -> ControlBlocks] /\ procSize' \in [Pids -> 0 .. MAX_SIZE_OF_PROGRAM]
    BY Constants, IdleShape DEF Exit
  <2> QED BY <2>1, <2>2, <2>3 DEF KernelTypeOK
<1>2. ShellTypeOK'
  BY DEF Exit, IInv, ShellTypeOK, Replies
<1>3. /\ \A p \in Pids : PCBs'[p] = IdlePCB
      /\ \A i \in Slots : procList'[i] = NULL
      /\ DOMAIN mem_queue' = {} /\ DOMAIN pidQueue' = {}
      /\ status' = "exited"
  BY DEF Exit
<1>4. UsedWholePages'
  <2>1. user_used' = 0 * SIZE_OF_PAGE /\ 0 \in 0 .. NUM_OF_PAGE_FOR_USER
    BY Constants DEF Exit
  <2> QED BY <2>1 DEF UsedWholePages
<1>5. PCBsKept' /\ TablesDense'
  BY <1>3, IdleShape DEF PCBsKept, TablesDense
<1>6. PageConservation'
  BY <1>3, IdleShape
     DEF PageConservation, FreePagesDistinct, MappedPagesDistinct, FreeNotMapped
<1>7. PidConservation' /\ ListedAreLive'
  BY <1>3 DEF PidConservation, ListedAreLive, EmptySlots
<1> QED BY <1>1, <1>2, <1>4, <1>5, <1>6, <1>7 DEF IInv, Consistent

-----------------------------------------------------------------------------
(* The invariant, and what follows from it. *)

\* The free page list at boot: every page of the user area, once.
LEMMA BootPages ==
  ASSUME KernelInit
  PROVE  /\ mem_queue \in Seq(UserPages)
         /\ DOMAIN mem_queue = 1 .. NUM_OF_PAGE_FOR_USER
         /\ FreePagesDistinct
         /\ \A page \in UserPages : \E k \in DOMAIN mem_queue : mem_queue[k] = page
<1> DEFINE N == NUM_OF_PAGE_FOR_USER
<1>1. IsFiniteSet(UserPages) /\ Cardinality(UserPages) = N
  BY UserPagesCount
<1>2. /\ mem_queue \in [1 .. N -> UserPages]
      /\ \A j, k \in 1 .. N : mem_queue[j] = mem_queue[k] => j = k
      /\ \A x \in UserPages : \E k \in 1 .. N : mem_queue[k] = x
  BY <1>1, SortedByLists, BootKeyDistinct DEF KernelInit
<1>3. mem_queue \in Seq(UserPages) /\ DOMAIN mem_queue = 1 .. N
  <2>1. N \in Nat /\ mem_queue = [k \in 1 .. N |-> mem_queue[k]]
    BY <1>2, Constants
  <2>2. \A k \in 1 .. N : mem_queue[k] \in UserPages
    BY <1>2
  <2> QED BY <1>2, <2>1, <2>2, IsASeq
<1> QED BY <1>2, <1>3 DEF FreePagesDistinct

\* It holds when the program starts.
LEMMA InitInvariant ==
  ASSUME Init
  PROVE  IInv
<1>1. KernelInit
  BY DEF Init
<1>2. /\ mem_queue \in Seq(UserPages)
      /\ FreePagesDistinct
      /\ \A page \in UserPages : \E k \in DOMAIN mem_queue : mem_queue[k] = page
      /\ \A k \in DOMAIN mem_queue : mem_queue[k] \in UserPages
  BY <1>1, BootPages, ElementOfSeq, LenProperties
<1>3. /\ pidQueue \in Seq(Pids)
      /\ DOMAIN pidQueue = 1 .. MAX_PID
      /\ \A k \in 1 .. MAX_PID : pidQueue[k] = k - 1
  <2>1. MAX_PID \in Nat /\ \A k \in 1 .. MAX_PID : k - 1 \in Pids
    BY Constants DEF Pids
  <2>2. [k \in 1 .. MAX_PID |-> k - 1] \in Seq(Pids)
    BY <2>1, IsASeq
  <2> QED BY <1>1, <2>2 DEF KernelInit
<1>4. /\ user_used = 0 /\ sys_used \in 0 .. USER_ADDR_OFFSET
      /\ PCBs = [p \in Pids |-> IdlePCB]
      /\ procSize = [p \in Pids |-> 0]
  BY <1>1, Constants, KernelAssumption DEF KernelInit
<1>5. KernelTypeOK
  <2>1. user_used \in 0 .. USER_CAPACITY
    BY <1>4, Constants
  <2>2. PCBs \in [Pids -> ControlBlocks] /\ procSize \in [Pids -> 0 .. MAX_SIZE_OF_PROGRAM]
    BY <1>4, Constants, IdleShape
  <2> QED BY <1>2, <1>3, <1>4, <2>1, <2>2 DEF KernelTypeOK
<1>6. ShellTypeOK
  <2>1. disk \in [FileNames -> Nat \cup {NULL}]
    BY Constants DEF Init
  <2>2. procList \in [Slots -> Pids \cup {NULL}]
    BY DEF Init
  <2>3. streams \in 0 .. FOPEN_MAX
    <3>1. FOPEN_MAX \in Nat /\ streams = 0
      BY Constants DEF Init
    <3> QED BY <3>1
  <2> QED BY <2>1, <2>2, <2>3 DEF Init, ShellTypeOK, Replies
<1>7. UsedWholePages
  <2>1. user_used = 0 * SIZE_OF_PAGE /\ 0 \in 0 .. NUM_OF_PAGE_FOR_USER
    BY <1>4, Constants
  <2> QED BY <2>1 DEF UsedWholePages
<1>8. PCBsKept /\ TablesDense
  BY <1>4, IdleShape DEF PCBsKept, TablesDense
<1>9. PageConservation
  BY <1>2, <1>4, IdleShape, PageNotUsed
     DEF PageConservation, MappedPagesDistinct, FreeNotMapped, NoPageLost
<1>10. PidConservation
  <2>1. \A j, k \in DOMAIN pidQueue : pidQueue[j] = pidQueue[k] => j = k
    BY <1>3, Constants
  <2>2. \A k \in DOMAIN pidQueue : ~Running(pidQueue[k])
    <3>1. \A k \in DOMAIN pidQueue : pidQueue[k] \in Pids
      BY <1>3, ElementOfSeq, LenProperties
    <3> QED BY <1>4, <3>1, IdleShape DEF Running
  <2>3. ASSUME NEW p \in Pids
        PROVE  \E k \in DOMAIN pidQueue : pidQueue[k] = p
    <3>1. p + 1 \in 1 .. MAX_PID /\ (p + 1) - 1 = p
      BY Constants DEF Pids
    <3> QED BY <1>3, <3>1
  <2> QED BY <2>1, <2>2, <2>3 DEF PidConservation
<1>11. ListedAreLive
  BY DEF Init, ListedAreLive, EmptySlots
<1> QED BY <1>5, <1>6, <1>7, <1>8, <1>9, <1>10, <1>11 DEF IInv, Consistent

\* Every command keeps it.
LEMMA NextInvariant ==
  ASSUME IInv, [Next]_vars
  PROVE  IInv'
<1>1. CASE Next
  BY <1>1, CpKeeps, DpKeeps, PaKeeps, SdKeeps, LdKeeps, ExitKeeps DEF Next
<1>2. CASE UNCHANGED vars
  BY <1>2
     DEF vars, kernelVars, shellVars, IInv, KernelTypeOK, ShellTypeOK, Consistent,
         UsedWholePages, PCBsKept, TablesDense, Running, PageConservation,
         FreePagesDistinct, MappedPagesDistinct, FreeNotMapped, NoPageLost,
         PidConservation, ListedAreLive, EmptySlots
<1> QED BY <1>1, <1>2

\* Every step calls at most one of the kernel's operations, under the
\* conditions the shell has established.
LEMMA KernelSteps ==
  ASSUME IInv, [Next]_vars
  PROVE  \/ UNCHANGED kernelVars
         \/ /\ CanStart
            /\ \E bytes \in 0 .. MAX_SIZE_OF_PROGRAM :
                 /\ LoadFault(Head(pidQueue), bytes) = "none"
                 /\ Load(Head(pidQueue), bytes)
         \/ \E p \in Pids, bytes \in Nat :
              /\ Running(p)
              /\ procSize[p] + bytes <= MAX_SIZE_OF_PROGRAM
              /\ GrowFault(p, bytes) = "none"
              /\ Grow(p, bytes)
         \/ \E p \in Pids : Running(p) /\ Destroy(p)
         \/ Exit
<1> DEFINE Loads == /\ CanStart
                    /\ \E bytes \in 0 .. MAX_SIZE_OF_PROGRAM :
                         /\ LoadFault(Head(pidQueue), bytes) = "none"
                         /\ Load(Head(pidQueue), bytes)
           Grows == \E p \in Pids, bytes \in Nat :
                      /\ Running(p)
                      /\ procSize[p] + bytes <= MAX_SIZE_OF_PROGRAM
                      /\ GrowFault(p, bytes) = "none"
                      /\ Grow(p, bytes)
           Destroys == \E p \in Pids : Running(p) /\ Destroy(p)
<1>1. ASSUME NEW bytes \in 0 .. MAX_SIZE_OF_PROGRAM, NEW fault, CanStart,
             fault = "none" => LoadFault(Head(pidQueue), bytes) = "none",
             Start(bytes, fault)
      PROVE  UNCHANGED kernelVars \/ Loads
  BY <1>1 DEF Start, Die
<1>2. ASSUME NEW typed \in TypedSizes, Cp(typed)
      PROVE  UNCHANGED kernelVars \/ Loads
  <2> DEFINE bytes == SizeArg(typed)
  <2>1. CASE /\ bytes <= MAX_SIZE_OF_PROGRAM
             /\ CanStart
             /\ Start(bytes, LoadFault(Head(pidQueue), bytes))
    <3>1. bytes \in 0 .. MAX_SIZE_OF_PROGRAM
      BY <2>1, TypedArguments, Constants
    <3> HIDE DEF bytes, Loads
    <3> QED BY <1>1, <2>1, <3>1
  <2> HIDE DEF Loads
  <2> QED BY <1>2, <2>1 DEF Cp, Refuse
<1>3. ASSUME NEW typed \in TypedPids, Dp(typed)
      PROVE  UNCHANGED kernelVars \/ Destroys
  <2>1. CASE SlotsOf(PidArg(typed)) # {} /\ Destroy(procList[SlotOf(PidArg(typed))])
    BY <2>1, FoundProcess
  <2> HIDE DEF Destroys
  <2> QED BY <1>3, <2>1 DEF Dp, Refuse
<1>4. ASSUME NEW typedPid \in TypedPids, NEW typedSize \in TypedSizes,
             Pa(typedPid, typedSize)
      PROVE  UNCHANGED kernelVars \/ Grows
  <2> DEFINE slot == PidArg(typedPid)
             p == procList[slot]
             bytes == SizeArg(typedSize)
  <2>1. CASE /\ slot < MAX_PID /\ p # NULL
             /\ MAX_SIZE_OF_PROGRAM - procSize[p] > bytes
             /\ GrowFault(p, bytes) = "none"
             /\ Grow(p, bytes)
    <3>1. /\ p \in Pids /\ bytes \in Nat /\ Running(p)
          /\ procSize[p] \in 0 .. MAX_SIZE_OF_PROGRAM
      BY <2>1, TypedArguments, ListedProcess
    <3>2. procSize[p] + bytes <= MAX_SIZE_OF_PROGRAM
      <4> HIDE DEF p, bytes
      <4> QED BY <2>1, <3>1, Constants
    <3> HIDE DEF p, bytes
    <3> QED BY <2>1, <3>1, <3>2
  <2> HIDE DEF Grows
  <2> QED BY <1>4, <2>1 DEF Pa, Refuse, Die
<1>5. ASSUME NEW typed \in TypedPids, NEW file \in FileNames, Sd(typed, file)
      PROVE  UNCHANGED kernelVars
  BY <1>5 DEF Sd, Refuse, Die
<1>6. ASSUME NEW file \in FileNames, Ld(file)
      PROVE  UNCHANGED kernelVars \/ Loads
  <2> DEFINE bytes == disk[file]
             fault == ReadFault(Head(pidQueue), bytes)
  <2>1. CASE /\ bytes # NULL /\ ~TooLarge(bytes)
             /\ CanStart
             /\ Start(bytes, fault)
    <3>1. bytes \in 0 .. MAX_SIZE_OF_PROGRAM
      <4>1. bytes \in Nat
        BY <2>1 DEF IInv, ShellTypeOK
      <4> QED BY <2>1, <4>1, Constants DEF TooLarge
    <3>2. fault = "none" => LoadFault(Head(pidQueue), bytes) = "none"
      BY FaultLabels
    <3> HIDE DEF bytes, fault, Loads
    <3> QED BY <1>1, <2>1, <3>1, <3>2
  <2> HIDE DEF Loads
  <2> QED BY <1>6, <2>1 DEF Ld, Refuse
<1>7. ASSUME UNCHANGED vars
      PROVE  UNCHANGED kernelVars
  BY <1>7 DEF vars
<1> HIDE DEF Loads, Grows, Destroys
<1>8. UNCHANGED kernelVars \/ Loads \/ Grows \/ Destroys \/ Exit
  BY <1>2, <1>3, <1>4, <1>5, <1>6, <1>7 DEF Next
<1> QED BY <1>8 DEF Loads, Grows, Destroys

\* What a step may do to the pages: nothing,
MovesNoPage ==
  /\ UNCHANGED <<mem_queue, user_used>>
  /\ \A q \in Pids : PCBs'[q].page_table = PCBs[q].page_table

\* or grant the pages a call of mem_allocate_user takes for one process.
GrantsPages(p, n) ==
  /\ AllocateFault(p, n) = "none"
  /\ TakePages(n)
  /\ \A q \in Pids :
       PCBs'[q].page_table = IF q = p THEN GrownTable(p, n) ELSE PCBs[q].page_table

\* Every step moves no page, is a grant, destroys a live process, or is exit.
LEMMA PageSteps ==
  ASSUME IInv, [Next]_vars
  PROVE  \/ MovesNoPage
         \/ \E p \in Pids, n \in 0 .. BASE_MOD - 1 : GrantsPages(p, n)
         \/ \E p \in Pids : Running(p) /\ Destroy(p)
         \/ Exit
<1>1. CASE UNCHANGED kernelVars
  BY <1>1 DEF kernelVars, MovesNoPage
<1>2. ASSUME CanStart, NEW bytes \in 0 .. MAX_SIZE_OF_PROGRAM,
             LoadFault(Head(pidQueue), bytes) = "none", Load(Head(pidQueue), bytes)
      PROVE  \E p \in Pids, n \in 0 .. BASE_MOD - 1 : GrantsPages(p, n)
  BY <1>2, LoadGrants DEF CanStart, GrantsPages
<1>3. ASSUME NEW p \in Pids, NEW bytes \in Nat, GrowFault(p, bytes) = "none", Grow(p, bytes)
      PROVE  MovesNoPage \/ \E n \in 0 .. BASE_MOD - 1 : GrantsPages(p, n)
  <2>1. CASE Need(p, bytes) = 0
    BY <1>3, <2>1 DEF Grow, MovesNoPage
  <2>2. CASE Need(p, bytes) # 0
    BY <1>3, <2>2, GrowGrants DEF GrantsPages
  <2> QED BY <2>1, <2>2
<1> QED BY <1>1, <1>2, <1>3, KernelSteps

\* The inductive invariant holds of every behaviour of the shell.
THEOREM Invariant == Spec => []IInv
<1>1. Init => IInv
  BY InitInvariant
<1>2. IInv /\ [Next]_vars => IInv'
  BY NextInvariant
<1> QED BY <1>1, <1>2, PTL DEF Spec

\* For any number of pids, pages and entries, the variables keep their types:
\* in particular user_used never leaves the user area.
THEOREM TypeCorrect == Spec => []TypeOK
<1>1. IInv => TypeOK
  BY DEF IInv, KernelTypeOK, ShellTypeOK, TypeOK
<1> QED BY <1>1, Invariant, PTL

\* No sequence of commands loses a page or gives one to two processes.
THEOREM PagesConserved == Spec => []PageConservation
<1>1. IInv => PageConservation
  BY DEF IInv, Consistent
<1> QED BY <1>1, Invariant, PTL

\* No sequence of commands loses a pid or gives one to two processes.
THEOREM PidsConserved == Spec => []PidConservation
<1>1. IInv => PidConservation
  BY DEF IInv, Consistent
<1> QED BY <1>1, Invariant, PTL

\* No command follows a pointer that destroyProcess has freed.
THEOREM ListedLive == Spec => []ListedAreLive
<1>1. IInv => ListedAreLive
  BY DEF IInv, Consistent
<1> QED BY <1>1, Invariant, PTL

\* Page tables stay gap-free through any history of their PCB.
THEOREM TablesStayDense == Spec => []TablesDense
<1>1. IInv => TablesDense
  BY DEF IInv, Consistent
<1> QED BY <1>1, Invariant, PTL


=============================================================================
