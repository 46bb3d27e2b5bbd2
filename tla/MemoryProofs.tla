----------------------------- MODULE MemoryProofs -----------------------------
(***************************************************************************)
(* The memory the shell's processes share, for every value of the          *)
(* constants: user_used, the counter a request is compared with, against   *)
(* the pages that are really taken; the process table against the kernel's *)
(* pid queue; every address below a process's size backed by a page,       *)
(* although procAllocate computes what it asks for with an unsigned        *)
(* subtraction that wraps; pages handed out and taken back as              *)
(* PageAllocator promises; and page tables shown by sp as they are.        *)
(***************************************************************************)
EXTENDS ClientProofs, Display

-----------------------------------------------------------------------------
(* What is refused and what is admitted. *)

\* There are no more free pages than pages.
LEMMA FreeAtMostAll ==
  ASSUME NEW s \in Seq(UserPages), \A j, k \in DOMAIN s : s[j] = s[k] => j = k
  PROVE  Len(s) \in Nat /\ Len(s) <= NUM_OF_PAGE_FOR_USER
<1>1. IsFiniteSet(UserPages) /\ Cardinality(UserPages) = NUM_OF_PAGE_FOR_USER
  BY UserPagesCount
<1>2. Len(s) \in Nat /\ DOMAIN s = 1 .. Len(s) /\ s \in [1 .. Len(s) -> UserPages]
  BY LenProperties
<1>3. s \in Injection(1 .. Len(s), UserPages)
  BY <1>2 DEF Injection, IsInjective
<1>4. Cardinality(1 .. Len(s)) <= Cardinality(UserPages)
  BY <1>1, <1>3, FS_Injection
<1>5. Cardinality(1 .. Len(s)) = Len(s)
  BY <1>2, FS_Interval
<1> QED BY <1>1, <1>2, <1>4, <1>5

\* A grant of n pages takes PagesTaken(n) from the free list, which has them.
LEMMA GrantTakes ==
  ASSUME IInv, NEW p \in Pids, NEW n \in 0 .. BASE_MOD - 1, GrantsPages(p, n)
  PROVE  /\ PagesTaken(n) \in Nat /\ n \in Nat /\ n <= PagesTaken(n)
         /\ Len(mem_queue) \in Nat
         /\ Len(mem_queue') = Len(mem_queue) - PagesTaken(n)
         /\ user_used' = user_used + n * SIZE_OF_PAGE
         /\ PCBs'[p].page_table.size = PCBs[p].page_table.size + PagesTaken(n)
<1> DEFINE m == PagesTaken(n)
<1>1. m <= Len(mem_queue)
  BY AllocateGoesThrough DEF GrantsPages
<1>2. n \in Nat /\ m \in Nat /\ n <= m
  BY Constants DEF PagesTaken
<1>3. mem_queue \in Seq(UserPages) /\ Len(mem_queue) \in Nat
  BY LenProperties DEF IInv, KernelTypeOK
<1>4. m \in 0 .. Len(mem_queue)
  <2> HIDE DEF m
  <2> QED BY <1>1, <1>2, <1>3
<1>5. /\ mem_queue' = SubSeq(mem_queue, m + 1, Len(mem_queue))
      /\ user_used' = user_used + n * SIZE_OF_PAGE
  BY DEF GrantsPages, TakePages
<1>6. PCBs'[p].page_table.size = PCBs[p].page_table.size + m
  <2>1. PCBs'[p].page_table = GrownTable(p, n)
    BY DEF GrantsPages
  <2>2. GrownTable(p, n).size = PCBs[p].page_table.size + m
    BY DEF GrownTable, WritePageTable
  <2> QED BY <2>1, <2>2
<1>7. Len(mem_queue') = Len(mem_queue) - m
  <2> HIDE DEF m
  <2> QED BY <1>3, <1>4, <1>5, DropFirst
<1> QED BY <1>2, <1>3, <1>5, <1>6, <1>7

\* A grant of n pages takes at least n of them.
LEMMA GrantCounts ==
  ASSUME IInv, UsedNeverOverstated, status # "exited",
         NEW p \in Pids, NEW n \in 0 .. BASE_MOD - 1, GrantsPages(p, n)
  PROVE  user_used' <= (NUM_OF_PAGE_FOR_USER - Len(mem_queue')) * SIZE_OF_PAGE
<1> DEFINE m == PagesTaken(n)
           N == NUM_OF_PAGE_FOR_USER
           L == Len(mem_queue)
           P == SIZE_OF_PAGE
<1>1. /\ m \in Nat /\ n \in Nat /\ n <= m /\ L \in Nat
      /\ Len(mem_queue') = L - m
      /\ user_used' = user_used + n * P
  BY GrantTakes
<1>2. N \in Nat /\ P \in Nat /\ user_used \in Int
  BY Constants DEF IInv, KernelTypeOK
<1>3. user_used <= (N - L) * P
  BY DEF UsedNeverOverstated
<1> HIDE DEF m, L, N, P
<1>4. n * P <= m * P
  BY <1>1, <1>2, ProductLeq
<1>5. (N - L) * P + m * P = (N - (L - m)) * P
  BY <1>1, <1>2
<1>6. n * P \in Int /\ m * P \in Int /\ (N - L) * P \in Int
  BY <1>1, <1>2
<1>7. user_used + n * P <= (N - L) * P + m * P
  BY <1>2, <1>3, <1>4, <1>6
<1> QED BY <1>1, <1>5, <1>7 DEF N, P

\* A process that is destroyed gives its pages back, and at most the bytes that
\* are counted are taken off.
LEMMA ReleaseGives ==
  ASSUME IInv, IInv', NEW p \in Pids, Running(p), Destroy(p)
  PROVE  LET s == PCBs[p].page_table.size
         IN  /\ s \in Nat
             /\ Len(mem_queue) \in Nat
             /\ Len(mem_queue') = Len(mem_queue) + s
             /\ Len(mem_queue) + s <= NUM_OF_PAGE_FOR_USER
             /\ user_used' = IF user_used < s * SIZE_OF_PAGE THEN 0
                             ELSE user_used - s * SIZE_OF_PAGE
<1> DEFINE r == ReturnedPages(PCBs[p].page_table)
           s == PCBs[p].page_table.size
           N == NUM_OF_PAGE_FOR_USER
           L == Len(mem_queue)
           P == SIZE_OF_PAGE
<1>1. r \in Seq(UserPages) /\ Len(r) = s /\ s \in Nat
  <2>1. s \in Nat /\ s <= PAGE_CAPACITY /\ PAGE_CAPACITY \in Nat
    BY TableShape, Constants
  <2>2. r = [k \in 1 .. s |-> PCBs[p].page_table.table[k - 1]]
    BY TableShape, ReturnedDense
  <2>3. ASSUME NEW k \in 1 .. s
        PROVE  PCBs[p].page_table.table[k - 1] \in UserPages
    <3>1. k - 1 \in Entries /\ k - 1 < s
      BY <2>1 DEF Entries
    <3> QED BY <3>1, TableShape
  <2> HIDE DEF r
  <2> QED BY <2>1, <2>2, <2>3, IsASeq
<1>2. mem_queue \in Seq(UserPages) /\ L \in Nat
  BY LenProperties DEF IInv, KernelTypeOK
<1>3. Len(mem_queue') = L + s
  <2>1. mem_queue' = mem_queue \o r
    BY DEF Destroy
  <2> HIDE DEF r
  <2> QED BY <1>1, <1>2, <2>1, ConcatProperties
<1>4. L + s <= N
  <2>1. mem_queue' \in Seq(UserPages)
    BY DEF IInv, KernelTypeOK
  <2>2. \A j, k \in DOMAIN mem_queue' : mem_queue'[j] = mem_queue'[k] => j = k
    BY DEF IInv, Consistent, PageConservation, FreePagesDistinct
  <2> QED BY <1>3, <2>1, <2>2, FreeAtMostAll
<1>5. user_used' = IF user_used < s * P THEN 0 ELSE user_used - s * P
  <2>1. user_used' = UsedAfter(Len(r))
    BY DEF Destroy
  <2> HIDE DEF r
  <2> QED BY <1>1, <2>1 DEF UsedAfter
<1> QED BY <1>1, <1>2, <1>3, <1>4, <1>5

\* A process that is destroyed takes at most its own pages off the count.
LEMMA ReleaseCounts ==
  ASSUME IInv, IInv', UsedNeverOverstated, status # "exited",
         NEW p \in Pids, Running(p), Destroy(p)
  PROVE  user_used' <= (NUM_OF_PAGE_FOR_USER - Len(mem_queue')) * SIZE_OF_PAGE
<1> DEFINE s == PCBs[p].page_table.size
           N == NUM_OF_PAGE_FOR_USER
           L == Len(mem_queue)
           P == SIZE_OF_PAGE
<1>1. /\ s \in Nat /\ L \in Nat
      /\ Len(mem_queue') = L + s /\ L + s <= N
      /\ user_used' = IF user_used < s * P THEN 0 ELSE user_used - s * P
  BY ReleaseGives
<1>2. N \in Nat /\ P \in Nat /\ user_used \in Int
  BY Constants DEF IInv, KernelTypeOK
<1>3. user_used <= (N - L) * P
  BY DEF UsedNeverOverstated
<1> HIDE DEF s, L, N, P
<1>4. (N - L) * P - s * P = (N - (L + s)) * P
  BY <1>1, <1>2
<1>5. 0 <= (N - (L + s)) * P
  <2>1. N - (L + s) \in Nat
    BY <1>1, <1>2
  <2> QED BY <1>2, <2>1
<1>6. s * P \in Int /\ (N - L) * P \in Int
  BY <1>1, <1>2
<1> QED BY <1>1, <1>2, <1>3, <1>4, <1>5, <1>6 DEF N, P

\* The counter is at or below what the pages taken come to, at every step.
LEMMA StepCounts ==
  ASSUME IInv, IInv', UsedNeverOverstated, [Next]_vars
  PROVE  UsedNeverOverstated'
<1> SUFFICES ASSUME status' # "exited"
             PROVE  user_used' <= (NUM_OF_PAGE_FOR_USER - Len(mem_queue')) * SIZE_OF_PAGE
  BY DEF UsedNeverOverstated
<1>1. status # "exited"
  BY DEF Next, Cp, Dp, Pa, Sd, Ld, Exit, vars, shellVars
<1>2. CASE MovesNoPage
  BY <1>1, <1>2 DEF MovesNoPage, UsedNeverOverstated
<1>3. CASE \E p \in Pids, n \in 0 .. BASE_MOD - 1 : GrantsPages(p, n)
  BY <1>1, <1>3, GrantCounts
<1>4. CASE \E p \in Pids : Running(p) /\ Destroy(p)
  BY <1>1, <1>4, ReleaseCounts
<1>5. CASE Exit
  BY <1>5 DEF Exit
<1> QED BY <1>2, <1>3, <1>4, <1>5, PageSteps

\* user_used never counts a byte of a page that is still free, so what the shell
\* compares a request with is at least what the free list holds.
THEOREM UsedNotOverstated == Spec => []UsedNeverOverstated
<1>1. Init => UsedNeverOverstated
  <2> SUFFICES ASSUME Init PROVE UsedNeverOverstated
    OBVIOUS
  <2>1. /\ mem_queue \in Seq(UserPages)
        /\ Len(mem_queue) = NUM_OF_PAGE_FOR_USER
    <3>1. mem_queue \in Seq(UserPages) /\ DOMAIN mem_queue = 1 .. NUM_OF_PAGE_FOR_USER
      BY BootPages DEF Init
    <3>2. DOMAIN mem_queue = 1 .. Len(mem_queue) /\ Len(mem_queue) \in Nat
      BY <3>1, LenProperties
    <3> QED BY <3>1, <3>2, Constants
  <2>2. user_used = 0
    BY DEF Init, KernelInit
  <2>3. (NUM_OF_PAGE_FOR_USER - NUM_OF_PAGE_FOR_USER) * SIZE_OF_PAGE = 0
    BY Constants
  <2> QED BY <2>1, <2>2, <2>3 DEF UsedNeverOverstated
<1>2. IInv /\ IInv' /\ UsedNeverOverstated /\ [Next]_vars => UsedNeverOverstated'
  BY StepCounts
<1> QED BY <1>1, <1>2, Invariant, PTL DEF Spec

-----------------------------------------------------------------------------
(* Sizes that are whole pages: the counter is exact, and what the shell    *)
(* admits the memory grants.                                               *)

\* Every size a request can carry, and every file there is at the start, is a
\* whole number of pages.
WholePageSizes ==
  /\ \A typed \in TypedSizes : SizeArg(typed) % SIZE_OF_PAGE = 0
  /\ \A bytes \in FileSizes : bytes % SIZE_OF_PAGE = 0

IsWhole(bytes) == \E n \in Nat : bytes = n * SIZE_OF_PAGE

\* No assert on the pages or the page table entries has stopped the program.
NeverRunsOut == status \notin {"remainder", "mem_queue", "page_table"}

\* What has to hold with UsedExact for a step to keep it: a process is as large
\* as its pages are, and so is what is written of it.
Exact ==
  /\ UsedExact
  /\ NeverRunsOut
  /\ \A p \in Pids : procSize[p] = PCBs[p].page_table.size * SIZE_OF_PAGE
  /\ \A file \in FileNames : disk[file] # NULL => IsWhole(disk[file])

\* A size that leaves no remainder is a whole number of pages.
LEMMA NoRemainder ==
  ASSUME NEW bytes \in Nat, bytes % SIZE_OF_PAGE = 0
  PROVE  IsWhole(bytes)
<1>1. SIZE_OF_PAGE \in Nat \ {0}
  BY Constants
<1>2. bytes = (bytes \div SIZE_OF_PAGE) * SIZE_OF_PAGE /\ bytes \div SIZE_OF_PAGE \in Nat
  BY <1>1
<1> QED BY <1>2 DEF IsWhole

\* Whole pages compare as their numbers do.
LEMMA PagesCompare ==
  ASSUME NEW a \in Int, NEW b \in Int
  PROVE  /\ a * SIZE_OF_PAGE <= b * SIZE_OF_PAGE => a <= b
         /\ a * SIZE_OF_PAGE < b * SIZE_OF_PAGE => a < b
<1> DEFINE P == SIZE_OF_PAGE
<1>1. P \in Nat \ {0}
  BY Constants
<1> HIDE DEF P
<1>2. a * P \in Int /\ b * P \in Int /\ (b + 1) * P = b * P + P
  BY <1>1
<1>3. CASE b + 1 <= a
  <2>1. (b + 1) * P <= a * P
    BY <1>1, <1>3, ProductLeq
  <2> QED BY <1>1, <1>2, <2>1 DEF P
<1>4. CASE a = b
  BY <1>2, <1>4 DEF P
<1> QED BY <1>3, <1>4

\* byte2Page of a whole number of pages is that number.
LEMMA WholeSize ==
  ASSUME NEW n \in 1 .. PAGE_CAPACITY
  PROVE  /\ n * SIZE_OF_PAGE \in 1 .. MAX_SIZE_OF_PROGRAM
         /\ byte2Page(n * SIZE_OF_PAGE) = n
<1> DEFINE P == SIZE_OF_PAGE
           k == byte2Page(n * P)
<1>1. P \in Nat \ {0} /\ PAGE_CAPACITY \in Nat /\ MAX_SIZE_OF_PROGRAM = PAGE_CAPACITY * P
  BY Constants DEF MAX_SIZE_OF_PROGRAM
<1>2. n * P \in 1 .. MAX_SIZE_OF_PROGRAM
  <2> HIDE DEF P
  <2>1. 1 * P <= n * P /\ n * P <= PAGE_CAPACITY * P
    BY <1>1, ProductLeq
  <2>2. 1 * P = P /\ n * P \in Nat /\ PAGE_CAPACITY * P \in Nat
    BY <1>1
  <2> QED BY <1>1, <2>1, <2>2
<1>3. k \in 1 .. PAGE_CAPACITY /\ n * P <= k * P /\ k * P < n * P + P
  BY <1>2, byte2PageRange
<1> HIDE DEF k
<1>4. n <= k
  BY <1>1, <1>3, PagesCompare
<1>5. k < n + 1
  <2>1. n * P + P = (n + 1) * P
    <3> HIDE DEF P
    <3> QED BY <1>1
  <2> QED BY <1>1, <1>3, <2>1, PagesCompare
<1>6. k = n
  BY <1>1, <1>3, <1>4, <1>5
<1> QED BY <1>2, <1>6 DEF k

\* As many pages as the counter leaves are in the free list, and as many
\* entries as the size leaves are in the page table.
LEMMA RoomIsEnough ==
  ASSUME IInv, Exact, status = "running", NEW p \in Pids, NEW n \in Nat \ {0},
         n * SIZE_OF_PAGE <= USER_CAPACITY - user_used,
         n <= PAGE_CAPACITY - PCBs[p].page_table.size
  PROVE  AllocateFault(p, n) = "none"
<1> DEFINE pt == PCBs[p].page_table
           N == NUM_OF_PAGE_FOR_USER
           L == Len(mem_queue)
           P == SIZE_OF_PAGE
<1>1. /\ P \in Nat \ {0} /\ N \in Nat /\ BASE_MOD \in Nat \ {0} /\ N < BASE_MOD
      /\ PAGE_CAPACITY \in Nat
  BY Constants
<1>2. L \in Nat /\ L <= N
  BY FreeAtMostAll DEF IInv, KernelTypeOK, Consistent, PageConservation, FreePagesDistinct
<1>3. user_used = (N - L) * P /\ USER_CAPACITY = N * P
  BY Constants DEF Exact, UsedExact
<1>4. n <= L
  <2>1. N * P - (N - L) * P = L * P
    <3> HIDE DEF N, L, P
    <3> QED BY <1>1, <1>2
  <2>2. n * P <= L * P
    BY <1>3, <2>1
  <2> HIDE DEF L
  <2> QED BY <1>2, <2>2, PagesCompare
<1>5. getUserRemainder = L
  <2>1. user_used \div P = N - L
    <3>1. N - L \in Nat
      <4> HIDE DEF N, L
      <4> QED BY <1>1, <1>2
    <3> HIDE DEF N, L, P
    <3> QED BY <1>1, <1>3, <3>1, DivProduct
  <2>2. (N - (N - L)) % BASE_MOD = L
    <3> HIDE DEF N, L
    <3> QED BY <1>1, <1>2
  <2> QED BY <2>1, <2>2 DEF getUserRemainder
<1>6. PagesTaken(n) = n
  BY DEF PagesTaken
<1>7. Len(pt.queue) = PAGE_CAPACITY - pt.size /\ pt.size \in Nat
  BY TableShape, Constants
<1>8. n <= Len(pt.queue) /\ pt.size + n - 1 <= PAGE_CAPACITY
  <2>1. n <= PAGE_CAPACITY - pt.size
    OBVIOUS
  <2> HIDE DEF pt
  <2> QED BY <1>1, <1>7, <2>1
<1>9. /\ n <= getUserRemainder /\ ~(n > getUserRemainder)
      /\ PagesTaken(n) <= L /\ ~(PagesTaken(n) > L)
      /\ PagesTaken(n) <= Len(pt.queue)
      /\ pt.size + PagesTaken(n) - 1 <= PAGE_CAPACITY
  <2> HIDE DEF L, pt
  <2> QED BY <1>2, <1>4, <1>5, <1>6, <1>8
<1> QED BY <1>9, Zenon DEF AllocateFault

\* A grant of n pages counts just those it takes.
LEMMA GrantExact ==
  ASSUME IInv, UsedExact, status = "running",
         NEW p \in Pids, NEW n \in 1 .. BASE_MOD - 1, GrantsPages(p, n)
  PROVE  /\ UsedExact'
         /\ PCBs'[p].page_table.size = PCBs[p].page_table.size + n
<1> DEFINE N == NUM_OF_PAGE_FOR_USER
           L == Len(mem_queue)
           P == SIZE_OF_PAGE
<1>1. n \in 0 .. BASE_MOD - 1 /\ PagesTaken(n) = n
  BY Constants DEF PagesTaken
<1>2. /\ n \in Nat /\ L \in Nat /\ Len(mem_queue') = L - n
      /\ user_used' = user_used + n * P
      /\ PCBs'[p].page_table.size = PCBs[p].page_table.size + n
  BY <1>1, GrantTakes
<1>3. user_used = (N - L) * P
  BY DEF UsedExact
<1>4. (N - L) * P + n * P = (N - (L - n)) * P
  <2>1. N \in Nat /\ P \in Nat
    BY Constants
  <2> HIDE DEF N, L, P
  <2> QED BY <1>2, <2>1
<1> QED BY <1>2, <1>3, <1>4 DEF UsedExact

\* A process that is destroyed takes just its own pages off the count.
LEMMA ReleaseExact ==
  ASSUME IInv, IInv', UsedExact, status = "running", NEW p \in Pids, Running(p), Destroy(p)
  PROVE  UsedExact'
<1> DEFINE s == PCBs[p].page_table.size
           N == NUM_OF_PAGE_FOR_USER
           L == Len(mem_queue)
           P == SIZE_OF_PAGE
<1>1. /\ s \in Nat /\ L \in Nat
      /\ Len(mem_queue') = L + s /\ L + s <= N
      /\ user_used' = IF user_used < s * P THEN 0 ELSE user_used - s * P
  BY ReleaseGives
<1>2. N \in Nat /\ P \in Nat /\ user_used \in Int
  BY Constants DEF IInv, KernelTypeOK
<1>3. user_used = (N - L) * P
  BY DEF UsedExact
<1>4. user_used - s * P = (N - (L + s)) * P /\ s * P <= user_used
  <2> HIDE DEF s, N, L, P
  <2>1. s <= N - L
    BY <1>1, <1>2
  <2>2. s * P <= (N - L) * P
    BY <1>1, <1>2, <2>1, ProductLeq
  <2>3. (N - L) * P - s * P = (N - (L + s)) * P
    BY <1>1, <1>2
  <2> QED BY <1>3, <2>2, <2>3
<1>5. user_used' = (N - (L + s)) * P
  <2>1. s * P \in Int
    <3> HIDE DEF s, P
    <3> QED BY <1>1, <1>2
  <2> HIDE DEF s, N, L, P
  <2> QED BY <1>1, <1>2, <1>4, <2>1
<1> QED BY <1>1, <1>5 DEF UsedExact

\* A new process of whole pages, within what the counter leaves, is granted
\* its pages; an empty one is stopped before it asks for any.
LEMMA StartExact ==
  ASSUME IInv, Exact, status = "running", CanStart, disk' = disk,
         NEW bytes \in 0 .. MAX_SIZE_OF_PROGRAM, IsWhole(bytes),
         bytes <= USER_CAPACITY - user_used,
         NEW fault, fault \in {LoadFault(Head(pidQueue), bytes), ReadFault(Head(pidQueue), bytes)},
         Start(bytes, fault)
  PROVE  Exact'
<1> DEFINE p == Head(pidQueue)
<1>1. PICK n \in Nat : bytes = n * SIZE_OF_PAGE
  BY DEF IsWhole
<1>2. p \in Pids /\ PCBs[p].page_table = EmptyTable
  <2>1. p = pidQueue[1] /\ 1 \in DOMAIN pidQueue /\ p \in Pids
    BY PopFirst DEF CanStart, IInv, KernelTypeOK
  <2>2. ~Running(p)
    BY <2>1 DEF IInv, Consistent, PidConservation
  <2> HIDE DEF p
  <2> QED BY <2>1, <2>2 DEF IInv, Consistent, PCBsKept
<1>3. n <= PAGE_CAPACITY
  <2>1. n * SIZE_OF_PAGE <= PAGE_CAPACITY * SIZE_OF_PAGE /\ PAGE_CAPACITY \in Int
    BY <1>1, Constants DEF MAX_SIZE_OF_PROGRAM
  <2> QED BY <2>1, PagesCompare
<1>4. CASE n = 0
  <2>1. bytes = 0
    BY <1>1, <1>4, Constants
  <2>2. LoadFault(p, bytes) = "empty_program" /\ ReadFault(p, bytes) = "empty_program"
    BY <2>1, Zenon DEF LoadFault, ReadFault
  <2>3. Die("empty_program")
    BY <2>2 DEF Start
  <2> QED BY <2>3 DEF Die, kernelVars, Exact, UsedExact, NeverRunsOut
<1>5. CASE n # 0
  <2>1. n \in 1 .. PAGE_CAPACITY /\ byte2Page(bytes) = n
    <3>1. n \in 1 .. PAGE_CAPACITY
      BY <1>3, <1>5, Constants
    <3> QED BY <1>1, <3>1, WholeSize
  <2>2. AllocateFault(p, n) = "none"
    <3>1. PCBs[p].page_table.size = 0
      BY <1>2 DEF EmptyTable
    <3>2. n <= PAGE_CAPACITY - 0
      BY <2>1, Constants
    <3> HIDE DEF p
    <3> QED BY <1>1, <1>2, <1>5, <3>1, <3>2, RoomIsEnough
  <2>3. LoadFault(p, bytes) \in {"empty_program", "sys_used", "none"}
    BY <2>1, <2>2, Zenon DEF LoadFault
  <2>4. fault \in {"empty_program", "sys_used", "bad_page", "none"}
    BY <2>3 DEF ReadFault
  <2>5. CASE Die(fault)
    BY <2>4, <2>5 DEF Die, kernelVars, Exact, UsedExact, NeverRunsOut
  <2>6. CASE /\ fault = "none"
             /\ Load(p, bytes)
             /\ status' = status
    <3>1. LoadFault(p, bytes) = "none"
      BY <2>6, FaultLabels
    <3>2. GrantsPages(p, n)
      BY <1>1, <2>1, <2>6, <3>1, LoadGrants DEF CanStart, GrantsPages
    <3>3. n \in 1 .. BASE_MOD - 1
      BY <2>1, KernelAssumption
    <3>4. UsedExact' /\ PCBs'[p].page_table.size = n
      <4>1. UsedExact' /\ PCBs'[p].page_table.size = PCBs[p].page_table.size + n
        <5> HIDE DEF p
        <5> QED BY <1>2, <3>2, <3>3, GrantExact DEF Exact
      <4> QED BY <1>2, <4>1 DEF EmptyTable
    <3>5. ASSUME NEW q \in Pids
          PROVE  procSize'[q] = PCBs'[q].page_table.size * SIZE_OF_PAGE
      <4>1. procSize'[q] = IF q = p THEN bytes ELSE procSize[q]
        BY <2>6 DEF Load, IInv, KernelTypeOK
      <4>2. q # p => PCBs'[q].page_table = PCBs[q].page_table
        BY <3>2 DEF GrantsPages
      <4> HIDE DEF p
      <4> QED BY <1>1, <3>4, <4>1, <4>2 DEF Exact
    <3>6. NeverRunsOut'
      BY <2>6 DEF Exact, NeverRunsOut
    <3> QED BY <3>4, <3>5, <3>6 DEF Exact
  <2> QED BY <2>5, <2>6 DEF Start
<1> QED BY <1>4, <1>5

\* A process of whole pages that grows by whole pages within its page table and
\* what the counter leaves is granted them.
LEMMA GrowExact ==
  ASSUME IInv, Exact, status = "running", NEW p \in Pids, NEW n \in Nat \ {0},
         n * SIZE_OF_PAGE <= USER_CAPACITY - user_used,
         n * SIZE_OF_PAGE < MAX_SIZE_OF_PROGRAM - procSize[p]
  PROVE  /\ GrowFault(p, n * SIZE_OF_PAGE) = "none"
         /\ Grow(p, n * SIZE_OF_PAGE) =>
              /\ UsedExact'
              /\ \A q \in Pids : procSize'[q] = PCBs'[q].page_table.size * SIZE_OF_PAGE
<1> DEFINE P == SIZE_OF_PAGE
           size == PCBs[p].page_table.size
           bytes == n * P
<1>1. P \in Nat \ {0} /\ PAGE_CAPACITY \in Nat /\ MAX_SIZE_OF_PROGRAM = PAGE_CAPACITY * P
  BY Constants DEF MAX_SIZE_OF_PROGRAM
<1>2. size \in Nat /\ procSize[p] = size * P
  BY TableShape, Constants DEF Exact
<1>3. n < PAGE_CAPACITY - size
  <2>1. PAGE_CAPACITY * P - size * P = (PAGE_CAPACITY - size) * P
    <3> HIDE DEF P, size
    <3> QED BY <1>1, <1>2
  <2>2. n * P < (PAGE_CAPACITY - size) * P
    BY <1>1, <1>2, <2>1
  <2>3. PAGE_CAPACITY - size \in Int
    <3> HIDE DEF size
    <3> QED BY <1>1, <1>2
  <2> HIDE DEF size
  <2> QED BY <2>2, <2>3, PagesCompare
<1>4. n \in 1 .. PAGE_CAPACITY
  <2> HIDE DEF size
  <2> QED BY <1>1, <1>2, <1>3
<1>5. bytes \in 1 .. MAX_SIZE_OF_PROGRAM /\ byte2Page(bytes) = n
  BY <1>4, WholeSize
<1>6. Need(p, bytes) = bytes
  <2>1. PagesFree(p) = 0
    <3>1. size * P \in Int
      <4> HIDE DEF size, P
      <4> QED BY <1>1, <1>2
    <3> QED BY <1>2, <3>1 DEF PagesFree
  <2>2. MAX_SIZE_OF_PROGRAM < ADDR_MOD /\ ADDR_MOD \in Nat \ {0} /\ MAX_SIZE_OF_PROGRAM \in Nat
    BY Constants, KernelAssumption
  <2>3. (bytes - 0) % ADDR_MOD = bytes
    <3> HIDE DEF bytes
    <3> QED BY <1>5, <2>2
  <2> QED BY <2>1, <2>3 DEF Need
<1>7. AllocateFault(p, n) = "none"
  <2>1. n <= PAGE_CAPACITY - size
    <3> HIDE DEF size
    <3> QED BY <1>1, <1>2, <1>3
  <2> QED BY <2>1, RoomIsEnough
<1>8. bytes # 0
  <2> HIDE DEF bytes
  <2> QED BY <1>5
<1>9. GrowFault(p, bytes) = "none"
  <2> HIDE DEF bytes
  <2> QED BY <1>5, <1>6, <1>7 DEF GrowFault
<1>10. ASSUME Grow(p, bytes)
       PROVE  /\ UsedExact'
              /\ \A q \in Pids : procSize'[q] = PCBs'[q].page_table.size * P
  <2>1. bytes \in Nat
    <3> HIDE DEF bytes
    <3> QED BY <1>5, Constants
  <2>2. GrantsPages(p, n)
    <3> HIDE DEF bytes
    <3> QED BY <1>5, <1>6, <1>7, <1>8, <1>9, <1>10, <2>1, GrowGrants DEF GrantsPages
  <2>3. UsedExact' /\ PCBs'[p].page_table.size = size + n
    <3>1. n \in 1 .. BASE_MOD - 1
      BY <1>4, KernelAssumption
    <3> QED BY <2>2, <3>1, GrantExact DEF Exact
  <2>4. ASSUME NEW q \in Pids
        PROVE  procSize'[q] = PCBs'[q].page_table.size * P
    <3>1. procSize'[q] = IF q = p THEN procSize[p] + bytes ELSE procSize[q]
      <4> HIDE DEF bytes
      <4> QED BY <1>10 DEF Grow, IInv, KernelTypeOK
    <3>2. q # p => PCBs'[q].page_table = PCBs[q].page_table
      BY <2>2 DEF GrantsPages
    <3>3. size * P + n * P = (size + n) * P
      <4> HIDE DEF P, size
      <4> QED BY <1>1, <1>2
    <3> HIDE DEF size
    <3> QED BY <1>2, <2>3, <3>1, <3>2, <3>3 DEF Exact
  <2> QED BY <2>3, <2>4
<1> QED BY <1>9, <1>10

\* A size that is typed is a whole number of pages.
LEMMA TypedWhole ==
  ASSUME WholePageSizes, NEW typed \in TypedSizes
  PROVE  SizeArg(typed) \in Nat /\ IsWhole(SizeArg(typed))
BY TypedArguments, NoRemainder DEF WholePageSizes

\* Every command keeps the counter exact and is granted what it is admitted for.
LEMMA StepExact ==
  ASSUME WholePageSizes, IInv, IInv', Exact, [Next]_vars
  PROVE  Exact'
<1>1. ASSUME NEW message, Refuse(message)
      PROVE  Exact'
  BY <1>1 DEF Refuse, kernelVars, Exact, UsedExact, NeverRunsOut
<1>2. ASSUME status = "running",
             NEW fault, fault \in {"null_process", "fill_overrun", "bad_page"}, Die(fault)
      PROVE  Exact'
  BY <1>2 DEF Die, kernelVars, Exact, UsedExact, NeverRunsOut
<1>3. CASE UNCHANGED vars
  BY <1>3 DEF vars, shellVars, kernelVars, Exact, UsedExact, NeverRunsOut
<1>4. ASSUME NEW typed \in TypedSizes, Cp(typed)
      PROVE  Exact'
  <2> DEFINE bytes == SizeArg(typed)
  <2>1. bytes \in Nat /\ IsWhole(bytes)
    BY TypedWhole
  <2>2. CASE /\ bytes <= MAX_SIZE_OF_PROGRAM
             /\ USER_CAPACITY - user_used > bytes
             /\ CanStart
             /\ Start(bytes, LoadFault(Head(pidQueue), bytes))
    <3>1. bytes \in 0 .. MAX_SIZE_OF_PROGRAM
      <4> HIDE DEF bytes
      <4> QED BY <2>1, <2>2, Constants
    <3>2. bytes <= USER_CAPACITY - user_used
      <4>1. USER_CAPACITY - user_used \in Int
        BY Constants DEF IInv, KernelTypeOK
      <4> HIDE DEF bytes
      <4> QED BY <2>1, <2>2, <4>1
    <3>3. disk' = disk /\ status = "running"
      BY <1>4, <2>2 DEF Cp, Start, Die
    <3> HIDE DEF bytes
    <3> QED BY <2>1, <2>2, <3>1, <3>2, <3>3, StartExact
  <2> QED BY <1>1, <1>4, <2>2 DEF Cp
<1>5. ASSUME NEW typed \in TypedPids, Dp(typed)
      PROVE  Exact'
  <2> DEFINE p == procList[SlotOf(PidArg(typed))]
  <2>1. CASE /\ SlotsOf(PidArg(typed)) # {}
             /\ Destroy(p)
             /\ UNCHANGED <<disk, status>>
    <3>1. p \in Pids /\ Running(p)
      BY <2>1, FoundProcess
    <3>2. UsedExact'
      <4>1. status = "running"
        BY <1>5 DEF Dp
      <4> HIDE DEF p
      <4> QED BY <2>1, <3>1, <4>1, ReleaseExact DEF Exact
    <3>3. ASSUME NEW q \in Pids
          PROVE  procSize'[q] = PCBs'[q].page_table.size * SIZE_OF_PAGE
      <4>1. /\ procSize'[q] = IF q = p THEN 0 ELSE procSize[q]
            /\ PCBs'[q].page_table.size = IF q = p THEN 0 ELSE PCBs[q].page_table.size
        <5> HIDE DEF p
        <5> QED BY <2>1, <3>1, IdleShape DEF Destroy, IInv, KernelTypeOK, EmptyTable
      <4>2. 0 = 0 * SIZE_OF_PAGE
        BY Constants
      <4> HIDE DEF p
      <4> QED BY <4>1, <4>2 DEF Exact
    <3> QED BY <2>1, <3>2, <3>3 DEF Exact, NeverRunsOut
  <2> QED BY <1>1, <1>5, <2>1 DEF Dp
<1>6. ASSUME NEW typedPid \in TypedPids, NEW typedSize \in TypedSizes, Pa(typedPid, typedSize)
      PROVE  Exact'
  <2> DEFINE p == procList[PidArg(typedPid)]
             bytes == SizeArg(typedSize)
  <2>1. CASE /\ PidArg(typedPid) < MAX_PID /\ p # NULL
             /\ bytes # 0
             /\ USER_CAPACITY - user_used > bytes
             /\ MAX_SIZE_OF_PROGRAM - procSize[p] > bytes
             /\ \/ GrowFault(p, bytes) # "none"
                \/ Grow(p, bytes) /\ UNCHANGED <<disk, status>>
    <3>1. p \in Pids /\ status = "running"
      BY <1>6, <2>1, TypedArguments, ListedProcess DEF Pa
    <3>2. PICK n \in Nat : bytes = n * SIZE_OF_PAGE
      BY TypedWhole DEF IsWhole
    <3>3. n # 0
      BY <2>1, <3>2, Constants
    <3>4. /\ n * SIZE_OF_PAGE <= USER_CAPACITY - user_used
          /\ n * SIZE_OF_PAGE < MAX_SIZE_OF_PROGRAM - procSize[p]
      <4>1. /\ USER_CAPACITY - user_used \in Int
            /\ MAX_SIZE_OF_PROGRAM - procSize[p] \in Int
            /\ n * SIZE_OF_PAGE \in Int
        <5>1. user_used \in Int /\ procSize[p] \in Int
          <6> HIDE DEF p
          <6> QED BY <3>1, Constants DEF IInv, KernelTypeOK
        <5>2. n * SIZE_OF_PAGE \in Int
          BY <3>2, Constants
        <5> HIDE DEF p
        <5> QED BY <5>1, <5>2, Constants
      <4> HIDE DEF p, bytes
      <4> QED BY <2>1, <3>2, <4>1
    <3>5. /\ GrowFault(p, bytes) = "none"
          /\ Grow(p, bytes) =>
               /\ UsedExact'
               /\ \A q \in Pids : procSize'[q] = PCBs'[q].page_table.size * SIZE_OF_PAGE
      <4> HIDE DEF p, bytes
      <4> QED BY <3>1, <3>2, <3>3, <3>4, GrowExact
    <3>6. Grow(p, bytes) /\ UNCHANGED <<disk, status>>
      BY <2>1, <3>5
    <3> QED BY <3>5, <3>6 DEF Exact, NeverRunsOut
  <2>2. CASE status = "running" /\ Die("null_process")
    BY <1>2, <2>2
  <2> QED BY <1>1, <1>6, <2>1, <2>2 DEF Pa
<1>7. ASSUME NEW typed \in TypedPids, NEW file \in FileNames, Sd(typed, file)
      PROVE  Exact'
  <2> DEFINE p == procList[PidArg(typed)]
  <2>1. CASE /\ PidArg(typed) < MAX_PID /\ p # NULL
             /\ disk' = [disk EXCEPT ![file] = procSize[p]]
             /\ UNCHANGED <<kernelVars, status>>
    <3>1. p \in Pids
      BY <2>1, TypedArguments, ListedProcess
    <3>2. IsWhole(procSize[p])
      <4>1. PCBs[p].page_table.size \in Nat /\ procSize[p] = PCBs[p].page_table.size * SIZE_OF_PAGE
        <5> HIDE DEF p
        <5> QED BY <3>1, TableShape, Constants DEF Exact
      <4> QED BY <4>1 DEF IsWhole
    <3>3. \A f \in FileNames : disk'[f] # NULL => IsWhole(disk'[f])
      <4> HIDE DEF p
      <4> QED BY <2>1, <3>2 DEF Exact, IInv, ShellTypeOK
    <3> QED BY <2>1, <3>3 DEF kernelVars, Exact, UsedExact, NeverRunsOut
  <2>2. CASE status = "running" /\ (Die("fill_overrun") \/ Die("bad_page"))
    BY <1>2, <2>2
  <2> QED BY <1>1, <1>7, <2>1, <2>2 DEF Sd
<1>8. ASSUME NEW file \in FileNames, Ld(file)
      PROVE  Exact'
  <2> DEFINE bytes == disk[file]
             fault == ReadFault(Head(pidQueue), bytes)
  <2>1. CASE /\ bytes # NULL /\ ~TooLarge(bytes) /\ CanStart
             /\ Start(bytes, fault)
    <3>1. bytes \in Nat /\ IsWhole(bytes)
      BY <2>1 DEF Exact, IInv, ShellTypeOK
    <3>2. bytes \in 0 .. MAX_SIZE_OF_PROGRAM /\ bytes <= USER_CAPACITY - user_used
      <4>1. USER_CAPACITY - user_used \in Int
        BY Constants DEF IInv, KernelTypeOK
      <4> HIDE DEF bytes
      <4> QED BY <2>1, <3>1, <4>1, Constants DEF TooLarge
    <3>3. disk' = disk /\ status = "running"
      BY <1>8, <2>1 DEF Ld, Start, Die
    <3> HIDE DEF bytes
    <3> QED BY <2>1, <3>1, <3>2, <3>3, StartExact
  <2>2. CASE UNCHANGED <<kernelVars, disk, status>>
    BY <2>2 DEF kernelVars, Exact, UsedExact, NeverRunsOut
  <2> QED BY <1>1, <1>8, <2>1, <2>2 DEF Ld
<1>9. CASE Exit
  <2>1. \A p \in Pids : procSize'[p] = 0 /\ PCBs'[p].page_table.size = 0
    BY <1>9, IdleShape DEF Exit, EmptyTable
  <2>2. 0 = 0 * SIZE_OF_PAGE
    BY Constants
  <2> QED BY <1>9, <2>1, <2>2 DEF Exit, Exact, UsedExact, NeverRunsOut
<1> QED BY <1>3, <1>4, <1>5, <1>6, <1>7, <1>8, <1>9 DEF Next

\* It holds at boot, when nothing is taken.
LEMMA InitExact ==
  ASSUME WholePageSizes, Init
  PROVE  Exact
<1>1. user_used = (NUM_OF_PAGE_FOR_USER - Len(mem_queue)) * SIZE_OF_PAGE
  <2>1. mem_queue \in Seq(UserPages) /\ DOMAIN mem_queue = 1 .. NUM_OF_PAGE_FOR_USER
    BY BootPages DEF Init
  <2>2. Len(mem_queue) = NUM_OF_PAGE_FOR_USER
    <3>1. DOMAIN mem_queue = 1 .. Len(mem_queue) /\ Len(mem_queue) \in Nat
      BY <2>1, LenProperties
    <3> QED BY <2>1, <3>1, Constants
  <2>3. (NUM_OF_PAGE_FOR_USER - NUM_OF_PAGE_FOR_USER) * SIZE_OF_PAGE = 0
    BY Constants
  <2> QED BY <2>2, <2>3 DEF Init, KernelInit
<1>2. ASSUME NEW p \in Pids
      PROVE  procSize[p] = PCBs[p].page_table.size * SIZE_OF_PAGE
  <2>1. procSize[p] = 0 /\ PCBs[p].page_table = EmptyTable
    BY IdleShape DEF Init, KernelInit
  <2>2. EmptyTable.size = 0
    BY DEF EmptyTable
  <2>3. 0 = 0 * SIZE_OF_PAGE
    BY Constants
  <2> QED BY <2>1, <2>2, <2>3
<1>3. ASSUME NEW file \in FileNames, disk[file] # NULL
      PROVE  IsWhole(disk[file])
  <2>1. disk[file] \in FileSizes
    BY <1>3 DEF Init
  <2>2. disk[file] \in Nat /\ disk[file] % SIZE_OF_PAGE = 0
    BY <2>1, Constants DEF WholePageSizes
  <2> QED BY <2>2, NoRemainder
<1> QED BY <1>1, <1>2, <1>3 DEF Init, Exact, UsedExact, NeverRunsOut

\* Where every size is a whole number of pages, these hold for ever.
LEMMA AlwaysExact ==
  ASSUME WholePageSizes
  PROVE  Spec => []Exact
<1>1. Init => Exact
  BY InitExact
<1>2. IInv /\ IInv' /\ Exact /\ [Next]_vars => Exact'
  BY StepExact
<1> QED BY <1>1, <1>2, Invariant, PTL DEF Spec

\* Where every size is a whole number of pages, user_used is neither above nor
\* below what the pages out of the free list come to.
THEOREM UsedIsExact ==
  ASSUME WholePageSizes
  PROVE  Spec => []UsedExact
<1>1. Exact => UsedExact
  BY DEF Exact
<1> QED BY <1>1, AlwaysExact, PTL

-----------------------------------------------------------------------------
(* The process table and the pid queue drift apart, but never so far that   *)
(* one is full while the other is not.                                     *)

\* When every slot holds a process, every pid is out of the queue: the
\* processes differ and are alive, and there are as many slots as pids.
LEMMA FullTableFullQueue ==
  ASSUME IInv, EmptySlots = {}
  PROVE  pidQueue = <<>>
<1>1. IsFiniteSet(Pids)
  BY Constants, FS_Interval DEF Pids
<1>2. /\ \A i \in Slots : procList[i] \in Pids /\ Running(procList[i])
      /\ \A i, j \in Slots : procList[i] = procList[j] => i = j
  BY DEF IInv, ShellTypeOK, Consistent, ListedAreLive, EmptySlots
<1>3. procList \in Injection(Slots, Pids)
  BY <1>2 DEF IInv, ShellTypeOK, Injection, IsInjective
<1>4. procList \in Surjection(Slots, Pids)
  BY <1>1, <1>3, FS_Injection DEF Slots
<1>5. \A p \in Pids : Running(p)
  BY <1>2, <1>4 DEF Surjection
<1>6. pidQueue \in Seq(Pids) /\ \A k \in DOMAIN pidQueue : ~Running(pidQueue[k])
  BY DEF IInv, KernelTypeOK, Consistent, PidConservation
<1>7. CASE pidQueue # <<>>
  <2>1. pidQueue[1] \in Pids /\ 1 \in DOMAIN pidQueue
    BY <1>6, <1>7, PopFirst
  <2> QED BY <1>5, <1>6, <2>1
<1> QED BY <1>7

\* "number of processes is full" is true of the kernel, whichever of the two
\* tables the shell says it of.
THEOREM FullIsFull == Spec => []FullMeansFull
<1>1. Init => FullMeansFull
  BY DEF Init, FullMeansFull
<1>2. IInv /\ FullMeansFull /\ [Next]_vars => FullMeansFull'
  <2> SUFFICES ASSUME IInv, FullMeansFull, [Next]_vars, reply' = "processes is full"
               PROVE  pidQueue' = <<>>
    BY DEF FullMeansFull
  <2>1. CASE UNCHANGED vars
    BY <2>1 DEF vars, kernelVars, shellVars, FullMeansFull
  <2>2. ASSUME NEW typed \in TypedSizes, Cp(typed)
        PROVE  pidQueue' = <<>>
    <3>1. ~CanStart /\ UNCHANGED kernelVars
      BY <2>2 DEF Cp, Refuse, Start, Die
    <3>2. pidQueue = <<>>
      BY <3>1, FullTableFullQueue DEF CanStart
    <3> QED BY <3>1, <3>2 DEF kernelVars
  <2>3. CASE \E typed \in TypedPids : Dp(typed)
    BY <2>3 DEF Dp, Refuse
  <2>4. CASE \E pid \in TypedPids, size \in TypedSizes : Pa(pid, size)
    BY <2>4 DEF Pa, Refuse, Die
  <2>5. CASE \E pid \in TypedPids, file \in FileNames : Sd(pid, file)
    BY <2>5 DEF Sd, Refuse, Die
  <2>6. CASE \E file \in FileNames : Ld(file)
    BY <2>6 DEF Ld, Refuse, Start, Die
  <2>7. CASE Exit
    BY <2>7 DEF Exit
  <2> QED BY <2>1, <2>2, <2>3, <2>4, <2>5, <2>6, <2>7 DEF Next
<1> QED BY <1>1, <1>2, Invariant, PTL DEF Spec

-----------------------------------------------------------------------------
(* Every address is backed. *)

\* A process's pages hold its size, with less than two pages to spare.
Backed ==
  \A p \in Pids :
    /\ procSize[p] <= PCBs[p].page_table.size * SIZE_OF_PAGE
    /\ PagesFree(p) < 2 * SIZE_OF_PAGE

\* Quotient and remainder of a sum that is already split into them.
LEMMA DivMod ==
  ASSUME NEW q \in Nat, NEW b \in Nat \ {0}, NEW r \in 0 .. b - 1
  PROVE  (q * b + r) % b = r /\ (q * b + r) \div b = q
OBVIOUS

\* The remainder of a negative number no greater than the modulus.
LEMMA ModNegative ==
  ASSUME NEW b \in Nat \ {0}, NEW d \in 1 .. b
  PROVE  (0 - d) % b = (IF d = b THEN 0 ELSE b - d)
OBVIOUS

\* Just below 2^32, a size rounds up to 0 pages or to 2^16 - 1.
LEMMA WrappedPages ==
  ASSUME NEW d \in 1 .. 2 * SIZE_OF_PAGE - 1
  PROVE  byte2Page(ADDR_MOD - d) = IF d < SIZE_OF_PAGE THEN 0 ELSE BASE_MOD - 1
<1> DEFINE P == SIZE_OF_PAGE
           B == BASE_MOD
           A == ADDR_MOD
<1>0. d \in 1 .. 2 * P - 1
  OBVIOUS
<1>1. P \in Nat \ {0} /\ B \in Nat \ {0} /\ A \in Nat \ {0} /\ 2 * P <= A /\ A % (P * B) = 0
  <2>1. MAX_SIZE_OF_PROGRAM >= P
    <3>1. 1 * P <= PAGE_CAPACITY * P
      BY KernelAssumption, ProductLeq
    <3>2. 1 * P = P
      BY KernelAssumption
    <3> QED BY <3>1, <3>2, KernelAssumption DEF MAX_SIZE_OF_PROGRAM
  <2>2. MAX_SIZE_OF_PROGRAM \in Int
    BY Constants
  <2> QED BY <2>1, <2>2, KernelAssumption
<1>2. byte2Page(A - d) = (((A - d + P - 1) % A) \div P) % B
  BY DEF byte2Page
<1>3. CASE d < P
  <2>1. A - d + P - 1 = 1 * A + (P - 1 - d) /\ P - 1 - d \in 0 .. A - 1
    <3> HIDE DEF P, A
    <3> QED BY <1>1, <1>0, <1>3
  <2>2. (A - d + P - 1) % A = P - 1 - d
    <3> DEFINE r == P - 1 - d
    <3>1. (1 * A + r) % A = r
      <4>1. 1 \in Nat /\ r \in 0 .. A - 1
        BY <2>1
      <4> HIDE DEF r, A
      <4> QED BY <1>1, <4>1, DivMod
    <3> QED BY <2>1, <3>1
  <2>3. (P - 1 - d) \div P = 0
    <3>1. P - 1 - d = 0 * P + (P - 1 - d) /\ P - 1 - d \in 0 .. P - 1
      BY <1>1, <1>3
    <3> HIDE DEF P
    <3> QED BY <1>1, <3>1, DivMod
  <2>4. 0 % B = 0
    <3>1. 0 = 0 * B + 0 /\ 0 \in 0 .. B - 1
      BY <1>1
    <3> HIDE DEF B
    <3> QED BY <1>1, <3>1, DivMod
  <2> QED BY <1>2, <1>3, <2>2, <2>3, <2>4
<1>4. CASE ~(d < P)
  <2> DEFINE e == d - P + 1
             c == A \div (P * B)
  <2>1. e \in 1 .. P
    BY <1>1, <1>4
  <2>2. (A - d + P - 1) % A = A - e
    <3>1. A - d + P - 1 = 0 * A + (A - e) /\ A - e \in 0 .. A - 1
      <4> HIDE DEF P, A
      <4> QED BY <1>1, <1>0, <1>4
    <3> HIDE DEF P, A, e
    <3> QED BY <1>1, <3>1, DivMod
  <2>3. c \in Nat \ {0} /\ A = (c * B) * P
    <3>1. P * B \in Nat \ {0}
      <4> HIDE DEF P, B
      <4> QED BY <1>1
    <3>2. c \in Nat /\ A = c * (P * B)
      <4> DEFINE M == P * B
      <4>1. A \div M \in Nat /\ A = (A \div M) * M
        <5> HIDE DEF M, A
        <5> QED BY <1>1, <3>1 DEF M
      <4> QED BY <4>1
    <3>3. c # 0
      <4> HIDE DEF c, P, B, A
      <4> QED BY <1>1, <3>2
    <3> HIDE DEF c, P, B, A
    <3> QED BY <1>1, <3>2, <3>3
  <2>4. c * B - 1 \in Nat
    <3> HIDE DEF c, B
    <3> QED BY <1>1, <2>3
  <2>5. (A - e) \div P = c * B - 1
    <3>1. A - e = (c * B - 1) * P + (P - e) /\ P - e \in 0 .. P - 1
      <4> HIDE DEF c, B, P, A, e
      <4> QED BY <1>1, <2>1, <2>3
    <3> DEFINE q == c * B - 1
               r == P - e
    <3>2. (q * P + r) \div P = q
      <4>1. q \in Nat /\ r \in 0 .. P - 1
        BY <2>4, <3>1
      <4> HIDE DEF q, r, P
      <4> QED BY <1>1, <4>1, DivMod
    <3> QED BY <3>1, <3>2
  <2>6. (c * B - 1) % B = B - 1
    <3>1. c * B - 1 = (c - 1) * B + (B - 1) /\ c - 1 \in Nat /\ B - 1 \in 0 .. B - 1
      <4> HIDE DEF c, B
      <4> QED BY <1>1, <2>3
    <3> DEFINE q == c - 1
               r == B - 1
    <3>2. (q * B + r) % B = r
      <4>1. q \in Nat /\ r \in 0 .. B - 1
        BY <3>1
      <4> HIDE DEF q, r, B
      <4> QED BY <1>1, <4>1, DivMod
    <3> QED BY <3>1, <3>2
  <2> QED BY <1>2, <1>4, <2>2, <2>5, <2>6
<1> QED BY <1>3, <1>4

\* What procAllocate takes, when the memory grants it: enough for the process
\* to grow by bytes, and less than two pages too much.
LEMMA GrowthTaken ==
  ASSUME IInv, Backed, NEW p \in Pids, NEW bytes \in Nat,
         procSize[p] + bytes <= MAX_SIZE_OF_PROGRAM,
         Need(p, bytes) # 0, GrowFault(p, bytes) = "none", Grow(p, bytes)
  PROVE  LET m == PagesTaken(byte2Page(Need(p, bytes)))
         IN  /\ bytes <= PagesFree(p) + m * SIZE_OF_PAGE
             /\ PagesFree(p) + m * SIZE_OF_PAGE - bytes < 2 * SIZE_OF_PAGE
<1> DEFINE P == SIZE_OF_PAGE
           A == ADDR_MOD
           f == PagesFree(p)
           need == Need(p, bytes)
           n == byte2Page(need)
           m == PagesTaken(n)
           size == PCBs[p].page_table.size
<1>1. /\ P \in Nat \ {0} /\ A \in Nat \ {0}
      /\ MAX_SIZE_OF_PROGRAM \in Nat
      /\ P <= MAX_SIZE_OF_PROGRAM
      /\ MAX_SIZE_OF_PROGRAM + P <= A
  <2>1. 1 * P <= PAGE_CAPACITY * P /\ 1 * P = P
    BY KernelAssumption, ProductLeq
  <2> QED BY <2>1, Constants, KernelAssumption DEF MAX_SIZE_OF_PROGRAM
<1>2. f \in Int /\ 0 <= f /\ f < 2 * P
  <2>1. size \in Nat /\ procSize[p] \in Nat
    BY TableShape, Constants DEF IInv, KernelTypeOK
  <2>2. size * P \in Nat /\ f = size * P - procSize[p] /\ procSize[p] <= size * P
    <3> HIDE DEF size, P
    <3> QED BY <1>1, <2>1 DEF PagesFree, Backed, size, P
  <2>3. f < 2 * P
    BY DEF Backed
  <2> HIDE DEF size, P, f
  <2> QED BY <2>1, <2>2, <2>3
<1>3. need = (bytes - f) % A
  BY DEF Need
<1>4. bytes <= MAX_SIZE_OF_PROGRAM
  <2>1. procSize[p] \in Nat
    BY Constants DEF IInv, KernelTypeOK
  <2> QED BY <1>1, <2>1
<1>5. CASE f <= bytes
  <2>1. need = bytes - f
    <3>1. bytes - f \in 0 .. A - 1 /\ bytes - f = 0 * A + (bytes - f)
      <4> HIDE DEF P, A, f
      <4> QED BY <1>1, <1>2, <1>4, <1>5
    <3> DEFINE r == bytes - f
    <3>2. (0 * A + r) % A = r
      <4>1. r \in 0 .. A - 1
        BY <3>1
      <4> HIDE DEF r, A
      <4> QED BY <1>1, <4>1, DivMod
    <3> HIDE DEF need
    <3> QED BY <1>3, <3>1, <3>2
  <2>2. need \in 1 .. MAX_SIZE_OF_PROGRAM
    <3>1. need # 0
      OBVIOUS
    <3> HIDE DEF need, f, P
    <3> QED BY <1>1, <1>2, <1>4, <1>5, <2>1, <3>1
  <2>3. n \in 1 .. PAGE_CAPACITY /\ need <= n * P /\ n * P < need + P
    <3> HIDE DEF need
    <3> QED BY <2>2, byte2PageRange
  <2>4. m = n /\ n * P \in Nat
    <3>1. n # 0 /\ n \in Nat
      <4> HIDE DEF n
      <4> QED BY <2>3, Constants
    <3>2. m = n
      <4> HIDE DEF n
      <4> QED BY <3>1 DEF PagesTaken
    <3> HIDE DEF n, m, P
    <3> QED BY <1>1, <3>1, <3>2
  <2> HIDE DEF n, m, P, f, need
  <2>5. /\ bytes <= f + m * P
        /\ f + m * P - bytes < 2 * P
    BY <1>1, <1>2, <2>1, <2>3, <2>4
  <2> QED BY <2>5 DEF n, m, P, f, need
<1>6. CASE bytes < f
  <2> DEFINE d == f - bytes
  <2>1. d \in 1 .. 2 * P - 1 /\ d \in 1 .. A
    <3> HIDE DEF P, A, f
    <3> QED BY <1>1, <1>2, <1>6
  <2>2. need = (0 - d) % A
    <3>1. bytes - f = 0 - d
      <4> HIDE DEF f
      <4> QED BY <1>2
    <3> QED BY <1>3, <3>1
  <2>3. need = A - d
    <3>1. need = IF d = A THEN 0 ELSE A - d
      <4> HIDE DEF d, A, need
      <4> QED BY <1>1, <2>1, <2>2, ModNegative
    <3>2. need # 0
      OBVIOUS
    <3> HIDE DEF d, A, need
    <3> QED BY <3>1, <3>2
  <2>4. n = IF d < P THEN 0 ELSE BASE_MOD - 1
    <3> HIDE DEF d, need
    <3> QED BY <2>1, <2>3, WrappedPages
  <2>5. n <= NUM_OF_PAGE_FOR_USER - user_used \div P
    <3>1. n \in 0 .. BASE_MOD - 1 /\ AllocateFault(p, n) = "none"
      BY GrowGrants
    <3> HIDE DEF n
    <3> QED BY <3>1, AllocateGoesThrough
  <2>6. n <= NUM_OF_PAGE_FOR_USER
    <3>1. user_used \div P \in Nat
      <4>1. user_used \in Nat
        BY Constants DEF IInv, KernelTypeOK
      <4> HIDE DEF P
      <4> QED BY <1>1, <4>1, DivRange
    <3>2. n \in Int
      <4> HIDE DEF n
      <4> QED BY <2>4, Constants
    <3> HIDE DEF n, P
    <3> QED BY <2>5, <3>1, <3>2, Constants
  <2>7. d < P /\ n = 0
    <3>1. NUM_OF_PAGE_FOR_USER < BASE_MOD - 1
      BY KernelAssumption
    <3> HIDE DEF n, d, P
    <3> QED BY <2>4, <2>6, <3>1, Constants
  <2>8. m = 1
    <3> HIDE DEF n
    <3> QED BY <2>7 DEF PagesTaken
  <2>9. m * P = P
    <3> HIDE DEF m, P
    <3> QED BY <1>1, <2>8
  <2>10. /\ bytes <= f + m * P
         /\ f + m * P - bytes < 2 * P
    <3>1. f - bytes < P
      BY <2>7
    <3> HIDE DEF m, P, f
    <3> QED BY <1>1, <1>2, <1>6, <2>9, <3>1
  <2> HIDE DEF n, m, P, f, need
  <2> QED BY <2>10 DEF n, m, P, f, need
<1> QED
  <2> HIDE DEF f
  <2> QED BY <1>2, <1>5, <1>6


\* A table after a call of mem_allocate_user has as many entries more as pages
\* were taken.
LEMMA GrantedSize ==
  ASSUME IInv, NEW p \in Pids, NEW n \in 0 .. BASE_MOD - 1, AllocateFault(p, n) = "none"
  PROVE  GrownTable(p, n).size = PCBs[p].page_table.size + PagesTaken(n)
BY DEF GrownTable, WritePageTable

\* Every step keeps the sizes backed.
LEMMA StepBacked ==
  ASSUME IInv, Backed, [Next]_vars
  PROVE  Backed'
<1> DEFINE P == SIZE_OF_PAGE
           Size(q) == PCBs[q].page_table.size
           SizeNext(q) == PCBs'[q].page_table.size
<1>1. P \in Nat \ {0}
  BY Constants
<1>2. \A q \in Pids : procSize[q] <= Size(q) * P /\ Size(q) * P - procSize[q] < 2 * P
  BY DEF Backed, PagesFree
<1> SUFFICES \A q \in Pids :
               /\ procSize'[q] <= SizeNext(q) * P
               /\ SizeNext(q) * P - procSize'[q] < 2 * P
  BY DEF Backed, PagesFree
<1>3. CASE UNCHANGED kernelVars
  BY <1>2, <1>3 DEF kernelVars
<1>4. ASSUME CanStart, NEW bytes \in 0 .. MAX_SIZE_OF_PROGRAM,
             LoadFault(Head(pidQueue), bytes) = "none", Load(Head(pidQueue), bytes),
             NEW q \in Pids
      PROVE  procSize'[q] <= SizeNext(q) * P /\ SizeNext(q) * P - procSize'[q] < 2 * P
  <2> DEFINE p == Head(pidQueue)
             n == byte2Page(bytes)
  <2>1. /\ p \in Pids
        /\ n \in 0 .. BASE_MOD - 1
        /\ AllocateFault(p, n) = "none"
        /\ PCBs'[q].page_table = IF q = p THEN GrownTable(p, n) ELSE PCBs[q].page_table
    BY <1>4, LoadGrants DEF CanStart
  <2>2. procSize'[q] = IF q = p THEN bytes ELSE procSize[q]
    BY <1>4 DEF Load, IInv, KernelTypeOK
  <2>3. CASE q # p
    BY <1>2, <2>1, <2>2, <2>3
  <2>4. CASE q = p
    <3>1. Size(p) = 0
      <4>1. p = pidQueue[1] /\ 1 \in DOMAIN pidQueue
        BY <1>4, PopFirst DEF CanStart, IInv, KernelTypeOK
      <4>2. ~Running(p)
        BY <4>1 DEF IInv, Consistent, PidConservation
      <4>3. PCBs[p].page_table = EmptyTable
        <5> HIDE DEF p
        <5> QED BY <2>1, <4>2 DEF IInv, Consistent, PCBsKept
      <4> QED BY <4>3 DEF EmptyTable
    <3>2. bytes # 0
      BY <1>4, FaultLabels
    <3>3. /\ n \in 1 .. PAGE_CAPACITY
          /\ bytes <= n * P
          /\ n * P < bytes + P
      BY <3>2, Constants, byte2PageRange
    <3>4. SizeNext(q) = n
      <4>1. SizeNext(q) = 0 + PagesTaken(n)
        BY <2>1, <2>4, <3>1, GrantedSize
      <4>2. n \in Nat \ {0}
        BY <3>3, Constants
      <4> HIDE DEF n
      <4> QED BY <4>1, <4>2 DEF PagesTaken
    <3>5. bytes \in Nat /\ n * P \in Nat
      <4>1. n \in Nat /\ bytes \in Nat
        BY <3>3, Constants
      <4> HIDE DEF n, P
      <4> QED BY <1>1, <4>1
    <3> HIDE DEF n, P, SizeNext
    <3> QED BY <1>1, <2>2, <2>4, <3>3, <3>4, <3>5
  <2> QED BY <2>3, <2>4
<1>5. ASSUME NEW p \in Pids, NEW bytes \in Nat, Running(p),
             procSize[p] + bytes <= MAX_SIZE_OF_PROGRAM,
             GrowFault(p, bytes) = "none", Grow(p, bytes),
             NEW q \in Pids
      PROVE  procSize'[q] <= SizeNext(q) * P /\ SizeNext(q) * P - procSize'[q] < 2 * P
  <2>1. procSize'[q] = IF q = p THEN procSize[p] + bytes ELSE procSize[q]
    BY <1>5 DEF Grow, IInv, KernelTypeOK
  <2>2. procSize[p] \in Nat /\ Size(p) \in Nat /\ Size(p) * P \in Nat
    <3>1. procSize[p] \in Nat /\ Size(p) \in Nat
      BY TableShape, Constants DEF IInv, KernelTypeOK
    <3> HIDE DEF Size, P
    <3> QED BY <1>1, <3>1
  <2>3. CASE Need(p, bytes) = 0
    <3>1. SizeNext(q) = Size(q)
      BY <1>5, <2>3 DEF Grow
    <3>2. Size(p) * P - procSize[p] = bytes
      <4>1. Size(p) * P - procSize[p] \in 0 .. 2 * P - 1
        <5> HIDE DEF Size, P
        <5> QED BY <1>1, <1>2, <2>2
      <4>2. bytes \in 0 .. MAX_SIZE_OF_PROGRAM
        BY <1>5, <2>2, Constants
      <4> DEFINE f == Size(p) * P - procSize[p]
                 A == ADDR_MOD
                 M == MAX_SIZE_OF_PROGRAM
      <4>3. (bytes - f) % A = 0
        BY <2>3 DEF Need, PagesFree
      <4>4. A \in Nat \ {0} /\ M \in Nat /\ M + P <= A /\ P <= M
        <5>1. 1 * P <= PAGE_CAPACITY * P /\ 1 * P = P
          BY KernelAssumption, ProductLeq
        <5> QED BY <5>1, Constants, KernelAssumption DEF MAX_SIZE_OF_PROGRAM
      <4>5. CASE f <= bytes
        <5> DEFINE r == bytes - f
        <5>1. r \in 0 .. A - 1 /\ bytes - f = 0 * A + r
          <6> HIDE DEF f, A, M, P
          <6> QED BY <1>1, <4>1, <4>2, <4>4, <4>5 DEF M, f
        <5>2. (0 * A + r) % A = r
          <6> HIDE DEF r, A
          <6> QED BY <4>4, <5>1, DivMod
        <5>3. r = 0
          BY <4>3, <5>1, <5>2
        <5> HIDE DEF f
        <5> QED BY <4>1, <4>2, <5>3 DEF f
      <4>6. CASE bytes < f
        <5> DEFINE d == f - bytes
        <5>1. d \in 1 .. A /\ d # A /\ bytes - f = 0 - d
          <6>1. f \in 0 .. 2 * P - 1 /\ bytes \in Nat
            BY <4>1
          <6> HIDE DEF f, A, M, P
          <6> QED BY <1>1, <4>4, <4>6, <6>1
        <5>2. (0 - d) % A = A - d
          <6> HIDE DEF d, A
          <6> QED BY <4>4, <5>1, ModNegative
        <5>3. A - d = 0
          BY <4>3, <5>1, <5>2
        <5> HIDE DEF d, A
        <5> QED BY <4>4, <5>1, <5>3
      <4> HIDE DEF f
      <4> QED BY <4>1, <4>2, <4>5, <4>6 DEF f
    <3>3. CASE q = p
      <4> HIDE DEF Size, SizeNext, P
      <4> QED BY <1>1, <2>1, <2>2, <3>1, <3>2, <3>3
    <3>4. CASE q # p
      BY <1>2, <2>1, <3>1, <3>4
    <3> QED BY <3>3, <3>4
  <2>4. CASE Need(p, bytes) # 0
    <3> DEFINE n == byte2Page(Need(p, bytes))
               m == PagesTaken(n)
               f == Size(p) * P - procSize[p]
    <3>1. /\ bytes <= f + m * P
          /\ f + m * P - bytes < 2 * P
      BY <1>5, <2>4, GrowthTaken DEF PagesFree
    <3>2. /\ n \in 0 .. BASE_MOD - 1
          /\ AllocateFault(p, n) = "none"
          /\ PCBs'[q].page_table = IF q = p THEN GrownTable(p, n) ELSE PCBs[q].page_table
      BY <1>5, <2>4, GrowGrants
    <3>3. CASE q # p
      BY <1>2, <2>1, <3>2, <3>3
    <3>4. CASE q = p
      <4>1. SizeNext(q) = Size(p) + m
        BY <3>2, <3>4, GrantedSize
      <4>2. m \in Nat
        BY <3>2, Constants DEF PagesTaken
      <4>3. (Size(p) + m) * P = Size(p) * P + m * P /\ m * P \in Nat
        <5> HIDE DEF Size, m, P
        <5> QED BY <1>1, <2>2, <4>2
      <4> HIDE DEF Size, SizeNext, m, P
      <4> QED BY <1>1, <2>1, <2>2, <3>1, <3>4, <4>1, <4>3
    <3> QED BY <3>3, <3>4
  <2> QED BY <2>3, <2>4
<1>6. ASSUME NEW p \in Pids, Destroy(p), NEW q \in Pids
      PROVE  procSize'[q] <= SizeNext(q) * P /\ SizeNext(q) * P - procSize'[q] < 2 * P
  <2>1. /\ procSize'[q] = IF q = p THEN 0 ELSE procSize[q]
        /\ SizeNext(q) = IF q = p THEN 0 ELSE Size(q)
    BY <1>6, IdleShape DEF Destroy, IInv, KernelTypeOK, EmptyTable
  <2>2. 0 <= 0 * P /\ 0 * P - 0 < 2 * P
    BY <1>1
  <2> QED BY <1>2, <2>1, <2>2
<1>7. ASSUME Exit, NEW q \in Pids
      PROVE  procSize'[q] <= SizeNext(q) * P /\ SizeNext(q) * P - procSize'[q] < 2 * P
  <2>1. procSize'[q] = 0 /\ SizeNext(q) = 0
    BY <1>7, IdleShape DEF Exit, EmptyTable
  <2>2. 0 <= 0 * P /\ 0 * P - 0 < 2 * P
    BY <1>1
  <2> QED BY <2>1, <2>2
<1> QED
  <2> HIDE DEF P, Size, SizeNext
  <2> QED BY <1>3, <1>4, <1>5, <1>6, <1>7, KernelSteps

\* Pages enough, and no gap among them: every address is translated.
LEMMA DenseTranslates ==
  ASSUME NEW pt \in PageTables, Dense(pt), NEW bytes \in Nat,
         bytes <= pt.size * SIZE_OF_PAGE
  PROVE  Translates(pt, bytes)
<1> SUFFICES ASSUME NEW addr \in 0 .. bytes - 1
             PROVE  /\ addr \div SIZE_OF_PAGE < pt.size
                    /\ pt.table[addr \div SIZE_OF_PAGE] # PAGE_NOT_USED
  BY DEF Translates
<1> DEFINE i == addr \div SIZE_OF_PAGE
<1>1. SIZE_OF_PAGE \in Nat \ {0} /\ pt.size \in 0 .. PAGE_CAPACITY /\ PAGE_CAPACITY \in Nat
  BY Constants DEF PageTables
<1>2. i \in Nat /\ i * SIZE_OF_PAGE <= addr
  BY <1>1, DivRange
<1>3. i < pt.size
  <2> SUFFICES ASSUME pt.size <= i
               PROVE  FALSE
    <3> HIDE DEF i
    <3> QED BY <1>1, <1>2
  <2>1. pt.size * SIZE_OF_PAGE <= i * SIZE_OF_PAGE
    <3> HIDE DEF i
    <3> QED BY <1>1, <1>2, ProductLeq
  <2>2. pt.size * SIZE_OF_PAGE \in Int /\ i * SIZE_OF_PAGE \in Int
    <3> HIDE DEF i
    <3> QED BY <1>1, <1>2
  <2> HIDE DEF i
  <2> QED BY <1>2, <2>1, <2>2
<1>4. i \in Entries
  <2> HIDE DEF i
  <2> QED BY <1>1, <1>2, <1>3 DEF Entries
<1>5. pt.table[i] # PAGE_NOT_USED
  <2> HIDE DEF i
  <2> QED BY <1>3, <1>4 DEF Dense, Mapped
<1> QED BY <1>3, <1>5

\* The sizes are backed from boot on.
LEMMA AlwaysBacked == Spec => []Backed
<1>1. Init => Backed
  <2>1. 0 <= 0 * SIZE_OF_PAGE /\ 0 * SIZE_OF_PAGE - 0 < 2 * SIZE_OF_PAGE
    BY Constants
  <2> SUFFICES ASSUME Init, NEW p \in Pids
               PROVE  /\ procSize[p] <= PCBs[p].page_table.size * SIZE_OF_PAGE
                      /\ PagesFree(p) < 2 * SIZE_OF_PAGE
    BY DEF Backed
  <2>2. procSize[p] = 0
    BY DEF Init, KernelInit
  <2>3. PCBs[p].page_table = EmptyTable
    BY IdleShape DEF Init, KernelInit
  <2>4. PCBs[p].page_table.size = 0
    BY <2>3 DEF EmptyTable
  <2> QED BY <2>1, <2>2, <2>4 DEF PagesFree
<1>2. IInv /\ Backed /\ [Next]_vars => Backed'
  BY StepBacked
<1> QED BY <1>1, <1>2, Invariant, PTL DEF Spec

\* Every address below a process's size is backed by a page of its own, and it
\* never holds two whole pages too many, for every width of the counters that
\* wraps where the code's do.
THEOREM AddressesAreBacked == Spec => []AddressesBacked
<1>1. IInv /\ Backed => AddressesBacked
  <2> SUFFICES ASSUME IInv, Backed, NEW p \in Pids
               PROVE  Translates(PCBs[p].page_table, procSize[p])
    BY DEF AddressesBacked, Backed
  <2>1. procSize[p] \in Nat
    BY Constants DEF IInv, KernelTypeOK
  <2> QED BY <2>1, TableShape, DenseTranslates DEF Backed
<1> QED BY <1>1, Invariant, AlwaysBacked, PTL


\* The faults a step can end in, apart from those of the images.
LEMMA OtherFaults ==
  ASSUME NEW p, NEW bytes
  PROVE  LoadFault(p, bytes) # "bad_page" /\ GrowFault(p, bytes) # "bad_page"
<1>1. ASSUME NEW n
      PROVE  AllocateFault(p, n) \in {"none", "remainder", "mem_queue", "page_table"}
  BY Zenon DEF AllocateFault
<1>2. LoadFault(p, bytes) \in
        {"none", "remainder", "mem_queue", "page_table", "empty_program", "sys_used"}
  BY <1>1, Zenon DEF LoadFault
<1> QED BY <1>1, <1>2 DEF GrowFault

\* ld copies into pages that loadProgram has just mapped.
LEMMA LoadedTranslates ==
  ASSUME IInv, CanStart, NEW bytes \in 0 .. MAX_SIZE_OF_PROGRAM
  PROVE  ReadFault(Head(pidQueue), bytes) # "bad_page"
<1> DEFINE p == Head(pidQueue)
           n == byte2Page(bytes)
           pt == PCBs[p].page_table
<1>1. CASE LoadFault(p, bytes) # "none"
  BY <1>1, OtherFaults DEF ReadFault
<1>2. CASE LoadFault(p, bytes) = "none"
  <2>1. p \in Pids
    BY PopFirst DEF CanStart, IInv, KernelTypeOK
  <2>2. bytes # 0 /\ AllocateFault(p, n) = "none"
    BY <1>2, FaultLabels
  <2>3. n \in 1 .. PAGE_CAPACITY /\ bytes <= n * SIZE_OF_PAGE
    BY <2>2, Constants, byte2PageRange
  <2>4. n \in 0 .. BASE_MOD - 1 /\ n # 0
    <3> HIDE DEF n
    <3> QED BY <2>3, KernelAssumption
  <2>5. n \in 1 .. Len(pt.queue) /\ n <= Len(mem_queue)
    <3> HIDE DEF n
    <3> QED BY <2>1, <2>2, <2>4, AllocateGoesThrough DEF PagesTaken
  <2>6. /\ GrownTable(p, n) \in PageTables
        /\ Dense(GrownTable(p, n))
        /\ GrownTable(p, n).size = pt.size + n
    <3>1. mem_queue \in Seq(UserPages)
      BY DEF IInv, KernelTypeOK
    <3>2. GrownTable(p, n) = WritePageTable(pt, n)
      BY <2>4 DEF GrownTable, PagesTaken
    <3> HIDE DEF n
    <3> QED BY <2>1, <2>5, <3>1, <3>2, TableShape, WriteDense
  <2>7. bytes <= GrownTable(p, n).size * SIZE_OF_PAGE /\ bytes \in Nat
    <3>1. pt.size \in Nat /\ n \in Nat /\ SIZE_OF_PAGE \in Nat /\ bytes \in Nat
      <4>1. pt.size \in Nat
        BY <2>1, TableShape
      <4>2. n \in Nat
        <5> HIDE DEF n
        <5> QED BY <2>3, Constants
      <4> QED BY <4>1, <4>2, Constants
    <3>2. n * SIZE_OF_PAGE <= (pt.size + n) * SIZE_OF_PAGE
      <4> HIDE DEF n, pt
      <4> QED BY <3>1, ProductLeq
    <3>3. (pt.size + n) * SIZE_OF_PAGE \in Nat /\ n * SIZE_OF_PAGE \in Nat
      <4> HIDE DEF n, pt
      <4> QED BY <3>1
    <3>4. bytes <= (pt.size + n) * SIZE_OF_PAGE
      <4> HIDE DEF n, pt
      <4> QED BY <2>3, <3>1, <3>2, <3>3
    <3> QED BY <2>6, <3>1, <3>4
  <2>8. Translates(GrownTable(p, n), bytes)
    <3> HIDE DEF n
    <3> QED BY <2>6, <2>7, DenseTranslates
  <2> QED BY <1>2, <2>8 DEF ReadFault
<1> QED BY <1>1, <1>2

\* sd and ld never touch an address that has no page.
THEOREM ImagesAreReachable == Spec => []ImagesReachable
<1>1. Init => ImagesReachable
  BY DEF Init, ImagesReachable
<1>2. IInv /\ Backed /\ ImagesReachable /\ [Next]_vars => ImagesReachable'
  <2> SUFFICES ASSUME IInv, Backed, ImagesReachable, [Next]_vars
               PROVE  status' # "bad_page"
    BY DEF ImagesReachable
  <2>1. CASE UNCHANGED vars
    BY <2>1 DEF vars, shellVars, ImagesReachable
  <2>2. CASE \E typed \in TypedSizes : Cp(typed)
    BY <2>2, OtherFaults DEF Cp, Refuse, Start, Die
  <2>3. CASE \E typed \in TypedPids : Dp(typed)
    BY <2>3 DEF Dp, Refuse
  <2>4. CASE \E pid \in TypedPids, size \in TypedSizes : Pa(pid, size)
    BY <2>4, OtherFaults DEF Pa, Refuse, Die
  <2>5. ASSUME NEW typed \in TypedPids, NEW file \in FileNames, Sd(typed, file)
        PROVE  status' # "bad_page"
    <3> DEFINE p == procList[PidArg(typed)]
    <3>1. CASE PidArg(typed) < MAX_PID /\ p # NULL
      <4>1. p \in Pids
        BY <3>1, TypedArguments, ListedProcess
      <4>2. procSize[p] \in Nat /\ procSize[p] <= PCBs[p].page_table.size * SIZE_OF_PAGE
        BY <4>1, Constants DEF Backed, IInv, KernelTypeOK
      <4>3. Translates(PCBs[p].page_table, procSize[p])
        <5> HIDE DEF p
        <5> QED BY <4>1, <4>2, TableShape, DenseTranslates
      <4> QED BY <2>5, <3>1, <4>3 DEF Sd, Refuse, Die
    <3>2. CASE ~(PidArg(typed) < MAX_PID /\ p # NULL)
      BY <2>5, <3>2 DEF Sd, Refuse, ImagesReachable
    <3> QED BY <3>1, <3>2
  <2>6. ASSUME NEW file \in FileNames, Ld(file)
        PROVE  status' # "bad_page"
    <3> DEFINE bytes == disk[file]
    <3>1. CASE bytes # NULL /\ ~TooLarge(bytes) /\ CanStart
      <4>1. bytes \in 0 .. MAX_SIZE_OF_PROGRAM
        <5>1. bytes \in Nat
          BY <3>1 DEF IInv, ShellTypeOK
        <5> QED BY <3>1, <5>1, Constants DEF TooLarge
      <4>2. ReadFault(Head(pidQueue), bytes) # "bad_page"
        <5> HIDE DEF bytes
        <5> QED BY <3>1, <4>1, LoadedTranslates
      <4> QED BY <2>6, <3>1, <4>2 DEF Ld, Refuse, Start, Die, ImagesReachable
    <3>2. CASE ~(bytes # NULL /\ ~TooLarge(bytes) /\ CanStart)
      BY <2>6, <3>2 DEF Ld, Refuse, ImagesReachable
    <3> QED BY <3>1, <3>2
  <2>7. CASE Exit
    BY <2>7 DEF Exit
  <2> QED BY <2>1, <2>2, <2>3, <2>4, <2>5, <2>6, <2>7 DEF Next
<1> QED BY <1>1, <1>2, Invariant, AlwaysBacked, PTL DEF Spec

\* Where every size is a whole number of pages, the checks of the shell are
\* enough: what cp, pa and ld let through is granted in full, unless the system
\* area has no room for another PCB, there is no process in the slot pa is given,
\* or the file is empty.
THEOREM AdmittedGranted ==
  ASSUME WholePageSizes
  PROVE  Spec => AdmittedIsGranted
<1>1. ASSUME IInv, Exact', ImagesReachable', [Next]_vars
      PROVE  [/\ \A size \in TypedSizes : Cp(size) /\ status' # "running" => NoRoomForPCB
              /\ \A pid \in TypedPids, size \in TypedSizes :
                   Pa(pid, size) /\ status' # "running" => procList[PidArg(pid)] = NULL
              /\ \A file \in FileNames :
                   Ld(file) /\ status' # "running" => disk[file] = 0 \/ NoRoomForPCB]_vars
  <2>1. status' \notin {"remainder", "mem_queue", "page_table", "bad_page"}
    BY <1>1 DEF Exact, NeverRunsOut, ImagesReachable
  <2>2. \A p, n : AllocateFault(p, n) \in {"remainder", "mem_queue", "page_table", "none"}
    BY Zenon DEF AllocateFault
  <2>3. \A p, bytes : LoadFault(p, bytes) \notin {"remainder", "mem_queue", "page_table", "none"}
                         => bytes = 0 \/ NoRoomForPCB
    BY <2>2 DEF LoadFault, NoRoomForPCB
  <2>4. ASSUME NEW size \in TypedSizes, Cp(size), status' # "running"
        PROVE  NoRoomForPCB
    <3> DEFINE bytes == SizeArg(size)
               fault == LoadFault(Head(pidQueue), bytes)
    <3>1. bytes # 0 /\ fault # "none" /\ status' = fault
      BY <2>4 DEF Cp, Refuse, Start, Die
    <3> HIDE DEF bytes
    <3> QED BY <2>1, <2>3, <3>1
  <2>5. ASSUME NEW pid \in TypedPids, NEW size \in TypedSizes, Pa(pid, size), status' # "running",
               procList[PidArg(pid)] # NULL
        PROVE  FALSE
    <3> DEFINE p == procList[PidArg(pid)]
               bytes == SizeArg(size)
    <3>1. GrowFault(p, bytes) # "none" /\ status' = GrowFault(p, bytes)
      BY <2>5 DEF Pa, Refuse, Die
    <3>2. GrowFault(p, bytes) \in {"remainder", "mem_queue", "page_table", "none"}
      BY <2>2 DEF GrowFault
    <3> QED BY <2>1, <3>1, <3>2
  <2>6. ASSUME NEW file \in FileNames, Ld(file), status' # "running"
        PROVE  disk[file] = 0 \/ NoRoomForPCB
    <3> DEFINE fault == ReadFault(Head(pidQueue), disk[file])
    <3>1. fault # "none" /\ status' = fault
      BY <2>6 DEF Ld, Refuse, Start, Die
    <3>2. LoadFault(Head(pidQueue), disk[file]) # "none"
      BY <2>1, <3>1 DEF ReadFault
    <3>3. fault = LoadFault(Head(pidQueue), disk[file])
      BY <3>2 DEF ReadFault
    <3> QED BY <2>1, <2>3, <3>1, <3>3
  <2> QED BY <2>4, <2>5, <2>6
<1> QED BY <1>1, Invariant, AlwaysExact, ImagesAreReachable, PTL DEF Spec, AdmittedIsGranted

-----------------------------------------------------------------------------
(* The page allocator. *)

\* The address space of a process, as a sequence of pages.
LEMMA SpaceShape ==
  ASSUME IInv, NEW p \in Pids
  PROVE  /\ AddressSpaces[p] \in Seq(UserPages)
         /\ Len(AddressSpaces[p]) = PCBs[p].page_table.size
         /\ \A k \in 1 .. PCBs[p].page_table.size :
              AddressSpaces[p][k] = PCBs[p].page_table.table[k - 1]
<1> DEFINE s == PCBs[p].page_table.size
<1>1. s \in Nat /\ s <= PAGE_CAPACITY /\ PAGE_CAPACITY \in Nat
  BY TableShape, Constants
<1>2. ASSUME NEW k \in 1 .. s
      PROVE  PCBs[p].page_table.table[k - 1] \in UserPages
  <2>1. k - 1 \in Entries /\ k - 1 < s
    BY <1>1 DEF Entries
  <2> QED BY <2>1, TableShape
<1>3. AddressSpaces[p] = [k \in 1 .. s |-> PCBs[p].page_table.table[k - 1]]
  BY DEF AddressSpaces
<1> QED BY <1>1, <1>2, <1>3, IsASeq

\* The address space of an empty table is empty.
LEMMA EmptySpace ==
  [k \in 1 .. EmptyTable.size |-> EmptyTable.table[k - 1]] = <<>>
<1> DEFINE space == [k \in 1 .. 0 |-> EmptyTable.table[k - 1]]
<1>1. EmptyTable.size = 0
  BY DEF EmptyTable
<1>2. 0 \in Nat /\ \A k \in 1 .. 0 : EmptyTable.table[k - 1] \in UserPages
  OBVIOUS
<1>3. space \in Seq(UserPages) /\ Len(space) = 0
  BY <1>2, IsASeq
<1>4. space = <<>>
  <2> HIDE DEF space
  <2> QED BY <1>3, EmptySeq
<1> QED BY <1>1, <1>4

\* Two address spaces are the same when their page tables are.
LEMMA SameSpaces ==
  ASSUME \A q \in Pids : PCBs'[q].page_table = PCBs[q].page_table
  PROVE  AddressSpaces' = AddressSpaces
BY DEF AddressSpaces

\* mem_allocate_user for a process is a grant to it: the pages at the head of
\* the free list follow those it has.
LEMMA GrantRefines ==
  ASSUME IInv, NEW p \in Pids, NEW n \in 0 .. BASE_MOD - 1,
         GrantsPages(p, n)
  PROVE  Allocator!Grant(p)
<1> USE DEF GrantsPages
<1> DEFINE m == PagesTaken(n)
           s == PCBs[p].page_table.size
           old == AddressSpaces[p]
           granted == SubSeq(mem_queue, 1, m)
<1>1. /\ m \in 1 .. Len(PCBs[p].page_table.queue)
      /\ m <= Len(mem_queue)
  BY AllocateGoesThrough
<1>2. s \in 0 .. PAGE_CAPACITY /\ m \in Nat \ {0} /\ s + m <= PAGE_CAPACITY
  <2>1. s \in 0 .. PAGE_CAPACITY /\ m \in 1 .. PAGE_CAPACITY - s
    BY <1>1, TableShape
  <2> HIDE DEF m, s
  <2> QED BY <2>1, Constants
<1>3. /\ mem_queue \in Seq(UserPages)
      /\ Len(mem_queue) \in Nat
      /\ \A k \in 1 .. Len(mem_queue) : mem_queue[k] \in UserPages
  BY LenProperties, ElementOfSeq DEF IInv, KernelTypeOK
<1>4. /\ GrownTable(p, n).size = s + m
      /\ \A i \in Entries :
           GrownTable(p, n).table[i] = IF s <= i /\ i < s + m THEN mem_queue[i - s + 1]
                                       ELSE PCBs[p].page_table.table[i]
  BY <1>1, <1>3, TableShape, WriteDense DEF GrownTable
<1>5. /\ granted \in Seq(UserPages)
      /\ Len(granted) = m
      /\ \A k \in 1 .. m : granted[k] = mem_queue[k]
  <2>1. /\ SubSeq(mem_queue, 1, m) \in Seq(UserPages)
        /\ Len(SubSeq(mem_queue, 1, m)) = IF 1 <= m THEN m - 1 + 1 ELSE 0
        /\ \A k \in 1 .. m - 1 + 1 : SubSeq(mem_queue, 1, m)[k] = mem_queue[1 + k - 1]
    <3>1. \A k \in 1 .. m : mem_queue[k] \in UserPages
      BY <1>1, <1>2, <1>3
    <3>2. m \in Int /\ 1 \in Int
      BY <1>2
    <3> HIDE DEF m
    <3> QED BY <3>1, <3>2, SubSeqProperties
  <2> HIDE DEF m
  <2> QED BY <1>2, <2>1
<1>6. /\ old \in Seq(UserPages)
      /\ Len(old) = s
      /\ \A k \in 1 .. s : old[k] = PCBs[p].page_table.table[k - 1]
  BY SpaceShape
<1>7. /\ old \o granted \in Seq(UserPages)
      /\ Len(old \o granted) = s + m
      /\ \A k \in 1 .. s + m :
           (old \o granted)[k] = IF k <= s THEN old[k] ELSE granted[k - s]
  <2> HIDE DEF old, granted, m, s
  <2> QED BY <1>5, <1>6, ConcatProperties
<1>8. AddressSpaces'[p] = [k \in 1 .. s + m |-> GrownTable(p, n).table[k - 1]]
  BY <1>4 DEF AddressSpaces
<1>9. ASSUME NEW k \in 1 .. s + m
      PROVE  GrownTable(p, n).table[k - 1] = (old \o granted)[k]
  <2>1. k - 1 \in Entries
    <3> HIDE DEF m, s
    <3> QED BY <1>2, Constants DEF Entries
  <2>2. CASE k <= s
    <3>1. k \in 1 .. s /\ ~(s <= k - 1)
      <4> HIDE DEF m, s
      <4> QED BY <1>2, <2>2
    <3> HIDE DEF old, granted, m, s
    <3> QED BY <1>4, <1>6, <1>7, <2>1, <2>2, <3>1
  <2>3. CASE ~(k <= s)
    <3>1. /\ s <= k - 1 /\ k - 1 < s + m
          /\ (k - 1) - s + 1 = k - s
          /\ k - s \in 1 .. m
      <4> HIDE DEF m, s
      <4> QED BY <1>2, <2>3
    <3>2. GrownTable(p, n).table[k - 1] = mem_queue[k - s]
      BY <1>4, <2>1, <3>1
    <3>3. (old \o granted)[k] = mem_queue[k - s]
      <4> HIDE DEF old, granted, m, s
      <4> QED BY <1>5, <1>7, <2>3, <3>1
    <3> QED BY <3>2, <3>3
  <2> QED BY <2>2, <2>3
<1>10. AddressSpaces'[p] = old \o granted
  <2>1. old \o granted = [k \in 1 .. s + m |-> (old \o granted)[k]]
    <3> DEFINE t == old \o granted
    <3>1. t \in [1 .. Len(t) -> UserPages] /\ Len(t) = s + m
      <4> HIDE DEF old, granted, m, s
      <4> QED BY <1>7, LenProperties
    <3>2. t = [k \in 1 .. s + m |-> t[k]]
      <4> HIDE DEF t, m, s
      <4> QED BY <3>1
    <3> QED BY <3>2
  <2> HIDE DEF old, granted, m, s
  <2> QED BY <1>8, <1>9, <2>1
<1>11. AddressSpaces' = [AddressSpaces EXCEPT ![p] = @ \o granted]
  <2>1. \A q \in Pids : q # p => AddressSpaces'[q] = AddressSpaces[q]
    BY DEF AddressSpaces
  <2>2. /\ AddressSpaces = [q \in Pids |-> AddressSpaces[q]]
        /\ AddressSpaces' = [q \in Pids |-> AddressSpaces'[q]]
    BY DEF AddressSpaces
  <2> HIDE DEF granted
  <2> QED BY <1>10, <2>1, <2>2
<1>12. FreePages' = SubSeq(FreePages, m + 1, Len(FreePages))
  BY DEF TakePages, FreePages
<1>13. m \in 1 .. Len(FreePages)
  BY <1>1, <1>2, <1>3 DEF FreePages
<1> QED BY <1>11, <1>12, <1>13 DEF Allocator!Grant, FreePages

\* destroyProcess of a process is a release of all it has.
LEMMA ReleaseRefines ==
  ASSUME IInv, NEW p \in Pids, Running(p), Destroy(p)
  PROVE  Allocator!Release(p) \/ UNCHANGED Allocator!vars
<1> DEFINE s == PCBs[p].page_table.size
<1>1. AddressSpaces[p] = ReturnedPages(PCBs[p].page_table)
  BY TableShape, ReturnedDense DEF AddressSpaces
<1>2. FreePages' = FreePages \o AddressSpaces[p]
  BY <1>1 DEF Destroy, FreePages
<1>3. AddressSpaces' = [AddressSpaces EXCEPT ![p] = <<>>]
  <2>1. \A q \in Pids :
          PCBs'[q].page_table = IF q = p THEN EmptyTable ELSE PCBs[q].page_table
    BY IdleShape DEF Destroy, IInv, KernelTypeOK
  <2>2. AddressSpaces'[p] = <<>>
    BY <2>1, EmptySpace DEF AddressSpaces
  <2>3. \A q \in Pids : q # p => AddressSpaces'[q] = AddressSpaces[q]
    BY <2>1 DEF AddressSpaces
  <2>4. /\ AddressSpaces = [q \in Pids |-> AddressSpaces[q]]
        /\ AddressSpaces' = [q \in Pids |-> AddressSpaces'[q]]
    BY DEF AddressSpaces
  <2> QED BY <2>2, <2>3, <2>4
<1>4. CASE AddressSpaces[p] # <<>>
  BY <1>2, <1>3, <1>4 DEF Allocator!Release
<1>5. CASE AddressSpaces[p] = <<>>
  <2>1. FreePages' = FreePages
    BY <1>2, <1>5, ConcatEmptySeq DEF IInv, KernelTypeOK, FreePages
  <2>2. AddressSpaces' = AddressSpaces
    <3>1. AddressSpaces = [q \in Pids |-> AddressSpaces[q]]
      BY DEF AddressSpaces
    <3> QED BY <1>3, <1>5, <3>1
  <2> QED BY <2>1, <2>2 DEF Allocator!vars
<1> QED BY <1>4, <1>5

\* The shell starts where the allocator does.
LEMMA InitRefines ==
  ASSUME Init
  PROVE  Allocator!Init
<1>1. /\ FreePages \in Seq(UserPages)
      /\ \A j, k \in DOMAIN FreePages : FreePages[j] = FreePages[k] => j = k
      /\ \A page \in UserPages : \E k \in DOMAIN FreePages : FreePages[k] = page
  BY BootPages DEF Init, FreePages, FreePagesDistinct
<1>2. AddressSpaces = [p \in Pids |-> <<>>]
  BY IdleShape, EmptySpace DEF Init, KernelInit, AddressSpaces
<1> QED BY <1>1, <1>2 DEF Allocator!Init

\* Every command is a grant, a release, the shutdown, or moves no page.
LEMMA StepRefines ==
  ASSUME IInv, [Next]_vars
  PROVE  [Allocator!Next]_(Allocator!vars)
<1>1. CASE MovesNoPage
  BY <1>1, SameSpaces DEF MovesNoPage, Allocator!vars, FreePages
<1>2. CASE \E p \in Pids, n \in 0 .. BASE_MOD - 1 : GrantsPages(p, n)
  BY <1>2, GrantRefines DEF Allocator!Next
<1>3. CASE \E p \in Pids : Running(p) /\ Destroy(p)
  BY <1>3, ReleaseRefines DEF Allocator!Next
<1>4. CASE Exit
  <2>1. FreePages' = <<>>
    BY <1>4 DEF Exit, FreePages
  <2>2. AddressSpaces' = [p \in Pids |-> <<>>]
    BY <1>4, IdleShape, EmptySpace DEF Exit, AddressSpaces
  <2> QED BY <2>1, <2>2 DEF Allocator!Next, Allocator!Shutdown
<1> QED BY <1>1, <1>2, <1>3, <1>4, PageSteps

\* The page allocator's promise is kept: pages are granted in the order of the
\* free list, behind those a process has, and come back all at once, in logical
\* order, when it is destroyed.
THEOREM AllocatorImplemented == Spec => ImplementsAllocator
<1>1. Init => Allocator!Init
  BY InitRefines
<1>2. IInv /\ [Next]_vars => [Allocator!Next]_(Allocator!vars)
  BY StepRefines
<1> QED BY <1>1, <1>2, Invariant, PTL DEF Spec, ImplementsAllocator, Allocator!Spec

-----------------------------------------------------------------------------
(* sp.  The loop is a function that is defined in terms of itself: that    *)
(* there is one, and what it has reached at each entry, is shown for the   *)
(* least entry at which it would fail.                                     *)

FirstShown(pt) == [lines |-> <<>>, start |-> pt.table[0], end |-> pt.table[0]]

IsLoop(pt, shown, n) ==
  shown = [i \in 0 .. n |-> IF i = 0 THEN FirstShown(pt) ELSE Turn(pt, shown[i - 1], i)]

\* There is a function that obeys the equation Loop is defined by.
LEMMA LoopTurns ==
  ASSUME NEW pt
  PROVE  /\ Loop(pt)[0] = FirstShown(pt)
         /\ \A i \in Entries \ {0} : Loop(pt)[i] = Turn(pt, Loop(pt)[i - 1], i)
<1> DEFINE Bad == {n \in Nat : ~ \E shown : IsLoop(pt, shown, n)}
<1>1. Bad = {}
  <2> SUFFICES ASSUME Bad # {}
               PROVE  FALSE
    OBVIOUS
  <2>1. PICK n \in Bad : \A m \in Bad : n <= m
    BY LeastExists
  <2>2. CASE n = 0
    <3> DEFINE shown == [i \in 0 .. 0 |-> FirstShown(pt)]
    <3>1. IsLoop(pt, shown, 0)
      BY DEF IsLoop
    <3> QED BY <2>1, <2>2, <3>1
  <2>3. CASE n # 0
    <3>1. n \in Nat \ {0} /\ n - 1 \in Nat /\ n - 1 \notin Bad
      BY <2>1, <2>3
    <3>2. PICK shown : IsLoop(pt, shown, n - 1)
      BY <3>1
    <3> DEFINE longer == [i \in 0 .. n |-> IF i = n THEN Turn(pt, shown[n - 1], n) ELSE shown[i]]
    <3>3. \A i \in 0 .. n :
            longer[i] = IF i = 0 THEN FirstShown(pt) ELSE Turn(pt, longer[i - 1], i)
      <4> SUFFICES ASSUME NEW i \in 0 .. n
                   PROVE  longer[i] = IF i = 0 THEN FirstShown(pt) ELSE Turn(pt, longer[i - 1], i)
        OBVIOUS
      <4>1. CASE i = n
        BY <3>1, <4>1
      <4>2. CASE i # n
        <5>1. i \in 0 .. n - 1 /\ longer[i] = shown[i]
          BY <3>1, <4>2
        <5>2. i # 0 => i - 1 \in 0 .. n /\ i - 1 # n /\ longer[i - 1] = shown[i - 1]
          BY <3>1
        <5>3. shown[i] = IF i = 0 THEN FirstShown(pt) ELSE Turn(pt, shown[i - 1], i)
          BY <3>2, <5>1 DEF IsLoop
        <5> HIDE DEF longer
        <5> QED BY <5>1, <5>2, <5>3
      <4> QED BY <4>1, <4>2
    <3>4. longer = [i \in 0 .. n |-> longer[i]]
      OBVIOUS
    <3>5. IsLoop(pt, longer, n)
      <4> HIDE DEF longer
      <4> QED BY <3>3, <3>4 DEF IsLoop
    <3> QED BY <2>1, <3>5
  <2> QED BY <2>2, <2>3
<1>2. PAGE_CAPACITY \in Nat \ {0} /\ Entries = 0 .. PAGE_CAPACITY - 1
  BY Constants DEF Entries
<1>3. PAGE_CAPACITY - 1 \in Nat
  BY <1>2
<1>4. \E shown : IsLoop(pt, shown, PAGE_CAPACITY - 1)
  BY <1>1, <1>3
<1>5. \E shown : shown = [i \in Entries |-> IF i = 0 THEN FirstShown(pt)
                                            ELSE Turn(pt, shown[i - 1], i)]
  BY <1>2, <1>4 DEF IsLoop
<1>6. Loop(pt) = CHOOSE shown : shown = [i \in Entries |-> IF i = 0 THEN FirstShown(pt)
                                            ELSE Turn(pt, shown[i - 1], i)]
  BY DEF Loop, FirstShown
<1>7. Loop(pt) = [i \in Entries |-> IF i = 0 THEN FirstShown(pt) ELSE Turn(pt, Loop(pt)[i - 1], i)]
  BY <1>5, <1>6
<1> QED BY <1>2, <1>7

\* The lines show the first n entries: what PageTableShown asks of all of them.
Lines == [from : Int, to : Int, start : Int, end : Int]

RightLine(pt, line) ==
  /\ line.to - line.from = line.end - line.start
  /\ \A i \in line.from .. line.to : pt.table[i] = line.start + (i - line.from)

Cover(pt, lines, n) ==
  /\ lines \in Seq(Lines)
  /\ lines = <<>> => n = 0
  /\ lines # <<>> => lines[1].from = 0 /\ lines[Len(lines)].to = n - 1
  /\ \A k \in 1 .. Len(lines) - 1 : lines[k + 1].from = lines[k].to + 1
  /\ \A k \in 1 .. Len(lines) : RightLine(pt, lines[k])

\* One more line, of the entries from n to m - 1.
LEMMA CoverMore ==
  ASSUME NEW pt, NEW lines, NEW n \in Nat, NEW m \in Nat, Cover(pt, lines, n),
         NEW line \in Lines, line.from = n, line.to = m - 1, RightLine(pt, line),
         NEW more, more = Append(lines, line)
  PROVE  Cover(pt, more, m) /\ more # <<>>
<1>1. /\ lines \in Seq(Lines) /\ Len(lines) \in Nat
      /\ lines = <<>> => n = 0
      /\ lines # <<>> => lines[1].from = 0 /\ lines[Len(lines)].to = n - 1
      /\ \A k \in 1 .. Len(lines) - 1 : lines[k + 1].from = lines[k].to + 1
      /\ \A k \in 1 .. Len(lines) : RightLine(pt, lines[k])
  BY DEF Cover
<1>2. PICK L : L = Len(lines)
  OBVIOUS
<1>3. /\ more \in Seq(Lines) /\ Len(more) = L + 1 /\ more[L + 1] = line
      /\ \A k \in 1 .. L : more[k] = lines[k]
  BY <1>1, <1>2
<1>4. L \in Nat /\ (lines = <<>> <=> L = 0) /\ more # <<>>
  BY <1>1, <1>2, <1>3
<1>5. more[1].from = 0 /\ more[L + 1].to = m - 1
  BY <1>1, <1>2, <1>3, <1>4
<1>6. ASSUME NEW k \in 1 .. L
      PROVE  more[k + 1].from = more[k].to + 1
  <2>1. CASE k = L
    <3>1. lines[L].to = n - 1 /\ more[k] = lines[L] /\ more[k + 1] = line
      BY <1>1, <1>2, <1>3, <1>4, <2>1
    <3> QED BY <3>1
  <2>2. CASE k # L
    <3>1. k \in 1 .. L - 1 /\ k + 1 \in 1 .. L
      BY <1>4, <2>2
    <3> QED BY <1>1, <1>2, <1>3, <3>1
  <2> QED BY <2>1, <2>2
<1>7. ASSUME NEW k \in 1 .. L + 1
      PROVE  RightLine(pt, more[k])
  <2>1. k \in 1 .. L \/ k = L + 1
    BY <1>4
  <2> QED BY <1>1, <1>2, <1>3, <2>1
<1>8. L + 1 - 1 = L
  BY <1>4
<1> QED BY <1>3, <1>4, <1>5, <1>6, <1>7, <1>8 DEF Cover

\* What the loop has reached when it has looked at the entry k: the lines behind
\* the run, and the run.
Reached(pt, shown, k) ==
  /\ shown = [lines |-> shown.lines, start |-> shown.start, end |-> shown.end]
  /\ shown.start \in Int /\ shown.end \in Int
  /\ k - (shown.end - shown.start) \in 0 .. k
  /\ Cover(pt, shown.lines, k - (shown.end - shown.start))
  /\ \A i \in k - (shown.end - shown.start) .. k :
       pt.table[i] = shown.start + (i - (k - (shown.end - shown.start)))

\* The line of the run that has been reached.
LEMMA RunShown ==
  ASSUME NEW pt, NEW shown, NEW k \in Nat, Reached(pt, shown, k),
         NEW lines, lines = Append(shown.lines, LineBefore(k + 1, shown.start, shown.end))
  PROVE  Cover(pt, lines, k + 1) /\ lines # <<>>
<1>s. PICK s, e, old : s = shown.start /\ e = shown.end /\ old = shown.lines
  OBVIOUS
<1>1. /\ s \in Int /\ e \in Int /\ k - (e - s) \in 0 .. k
      /\ Cover(pt, old, k - (e - s))
      /\ \A i \in k - (e - s) .. k : pt.table[i] = s + (i - (k - (e - s)))
  BY <1>s DEF Reached
<1>2. PICK n : n = k - (e - s)
  OBVIOUS
<1>3. PICK line : line = LineBefore(k + 1, s, e)
  OBVIOUS
<1>4. /\ n \in Nat /\ k + 1 \in Nat /\ n <= k
      /\ (k + 1) - (e - s) - 1 = n /\ (k + 1) - 1 = k /\ k - n = e - s
  BY <1>1, <1>2
<1>5. line = [from |-> n, to |-> k, start |-> s, end |-> e]
  BY <1>3, <1>4 DEF LineBefore
<1>6. line \in Lines /\ line.from = n /\ line.to = (k + 1) - 1
  BY <1>1, <1>4, <1>5 DEF Lines
<1>7. RightLine(pt, line)
  BY <1>1, <1>2, <1>4, <1>5 DEF RightLine
<1>8. Cover(pt, old, n) /\ lines = Append(old, line)
  BY <1>1, <1>2, <1>3, <1>s
<1> QED BY <1>4, <1>6, <1>7, <1>8, CoverMore

\* One turn of the loop.
LEMMA TurnReaches ==
  ASSUME NEW pt, NEW shown, NEW k \in Nat, Reached(pt, shown, k), pt.table[k + 1] \in Int,
         NEW next, next = Turn(pt, shown, k + 1)
  PROVE  Reached(pt, next, k + 1)
<1>s. PICK s, e, old : s = shown.start /\ e = shown.end /\ old = shown.lines
  OBVIOUS
<1>1. /\ shown = [lines |-> old, start |-> s, end |-> e]
      /\ s \in Int /\ e \in Int /\ k - (e - s) \in 0 .. k
      /\ Cover(pt, old, k - (e - s))
      /\ \A i \in k - (e - s) .. k : pt.table[i] = s + (i - (k - (e - s)))
  BY <1>s DEF Reached
<1>2. CASE pt.table[k + 1] = e + 1
  <2>1. next = [lines |-> old, start |-> s, end |-> e + 1]
    BY <1>1, <1>2 DEF Turn
  <2>2. /\ e + 1 \in Int /\ (k + 1) - ((e + 1) - s) = k - (e - s)
        /\ k - (e - s) \in 0 .. k + 1
    BY <1>1
  <2>3. ASSUME NEW i \in k - (e - s) .. k + 1
        PROVE  pt.table[i] = s + (i - (k - (e - s)))
    <3>1. CASE i = k + 1
      BY <1>1, <1>2, <3>1
    <3>2. CASE i # k + 1
      <4>1. i \in k - (e - s) .. k
        BY <1>1, <3>2
      <4> QED BY <1>1, <4>1
    <3> QED BY <3>1, <3>2
  <2>4. /\ next.lines = old /\ next.start = s /\ next.end = e + 1
        /\ next = [lines |-> next.lines, start |-> next.start, end |-> next.end]
    BY <2>1
  <2> QED BY <1>1, <2>2, <2>3, <2>4 DEF Reached
<1>3. CASE pt.table[k + 1] # e + 1
  <2>1. PICK r : r = pt.table[k + 1]
    OBVIOUS
  <2>2. PICK lines : lines = Append(old, LineBefore(k + 1, s, e))
    OBVIOUS
  <2>3. next = [lines |-> lines, start |-> r, end |-> r]
    BY <1>1, <1>3, <2>1, <2>2 DEF Turn
  <2>4. Cover(pt, lines, k + 1)
    BY <1>s, <2>2, RunShown
  <2>5. r \in Int /\ (k + 1) - (r - r) = k + 1 /\ k + 1 \in 0 .. k + 1
    BY <2>1
  <2>6. \A i \in k + 1 .. k + 1 : pt.table[i] = r + (i - (k + 1))
    BY <2>1, <2>5
  <2>7. /\ next.lines = lines /\ next.start = r /\ next.end = r
        /\ next = [lines |-> next.lines, start |-> next.start, end |-> next.end]
    BY <2>3
  <2> QED BY <2>4, <2>5, <2>6, <2>7 DEF Reached
<1> QED BY <1>2, <1>3

\* The loop keeps to that all the way.
LEMMA LoopReaches ==
  ASSUME NEW pt, \A i \in Entries : pt.table[i] \in Int, NEW n \in Entries
  PROVE  Reached(pt, Loop(pt)[n], n)
<1> DEFINE Bad == {k \in Entries : ~Reached(pt, Loop(pt)[k], k)}
<1>1. PAGE_CAPACITY \in Nat \ {0} /\ Entries = 0 .. PAGE_CAPACITY - 1
  BY Constants DEF Entries
<1> SUFFICES ASSUME Bad # {}
             PROVE  FALSE
  OBVIOUS
<1>2. PICK k \in Bad : \A j \in Bad : k <= j
  <2>1. Bad \in SUBSET Nat
    BY <1>1
  <2> HIDE DEF Bad
  <2> QED BY <2>1, LeastExists
<1>3. CASE k = 0
  <2>1. PICK r : r = pt.table[0]
    OBVIOUS
  <2>2. r \in Int /\ 0 - (r - r) = 0 /\ 0 \in 0 .. 0
    BY <1>1, <2>1
  <2>3. PICK shown : shown = Loop(pt)[0]
    OBVIOUS
  <2>4. shown = [lines |-> <<>>, start |-> r, end |-> r]
    BY <2>1, <2>3, LoopTurns DEF FirstShown
  <2>5. Cover(pt, <<>>, 0)
    BY DEF Cover
  <2>6. \A i \in 0 .. 0 : pt.table[i] = r + (i - 0)
    BY <2>1, <2>2
  <2>7. Reached(pt, shown, 0)
    BY <2>2, <2>4, <2>5, <2>6 DEF Reached
  <2> QED BY <1>2, <1>3, <2>3, <2>7
<1>4. CASE k # 0
  <2>1. PICK j : j = k - 1
    OBVIOUS
  <2>2. j \in Nat /\ j \in Entries /\ k = j + 1 /\ k \in Entries \ {0} /\ ~(k <= j)
    BY <1>1, <1>2, <1>4, <2>1
  <2>3. Reached(pt, Loop(pt)[j], j)
    BY <1>2, <2>2
  <2>4. Loop(pt)[k] = Turn(pt, Loop(pt)[j], j + 1)
    BY <2>1, <2>2, LoopTurns
  <2>5. pt.table[j + 1] \in Int
    BY <2>2
  <2>6. Reached(pt, Loop(pt)[k], j + 1)
    BY <2>2, <2>3, <2>4, <2>5, TurnReaches
  <2> QED BY <1>2, <2>2, <2>6
<1> QED BY <1>3, <1>4

\* Every table with an entry in use is shown as it is.
LEMMA TableShown ==
  ASSUME NEW pt, \A i \in Entries : pt.table[i] \in Int, pt.size \in 1 .. PAGE_CAPACITY,
         NEW lines, lines = showProcPageTable(pt)
  PROVE  Cover(pt, lines, pt.size) /\ lines # <<>>
<1>1. PICK n : n = pt.size - 1
  OBVIOUS
<1>2. n \in Entries /\ n \in Nat /\ pt.size = n + 1
  BY <1>1, Constants DEF Entries
<1>3. PICK last : last = Loop(pt)[n]
  OBVIOUS
<1>4. Reached(pt, last, n)
  BY <1>2, <1>3, LoopReaches
<1>5. lines = Append(last.lines, LineBefore(n + 1, last.start, last.end))
  BY <1>1, <1>2, <1>3 DEF showProcPageTable
<1> QED BY <1>2, <1>4, <1>5, RunShown

\* A process is never without a page.
NeverEmpty == \A p \in Pids : Running(p) => PCBs[p].page_table.size >= 1

LEMMA StepNeverEmpty ==
  ASSUME IInv, NeverEmpty, [Next]_vars
  PROVE  NeverEmpty'
<1> SUFFICES ASSUME NEW q \in Pids, Running(q)'
             PROVE  PCBs'[q].page_table.size >= 1
  BY DEF NeverEmpty
<1>1. Running(q) => PCBs[q].page_table.size >= 1
  BY DEF NeverEmpty
<1>2. CASE UNCHANGED kernelVars
  BY <1>1, <1>2 DEF kernelVars, Running
<1>3. ASSUME CanStart, NEW bytes \in 0 .. MAX_SIZE_OF_PROGRAM,
             LoadFault(Head(pidQueue), bytes) = "none", Load(Head(pidQueue), bytes)
      PROVE  PCBs'[q].page_table.size >= 1
  <2>1. PICK p, n : p = Head(pidQueue) /\ n = byte2Page(bytes)
    OBVIOUS
  <2>2. /\ p \in Pids /\ n \in 0 .. BASE_MOD - 1 /\ AllocateFault(p, n) = "none"
        /\ PCBs'[q] = IF q = p THEN ReadyPCB(p, n) ELSE PCBs[q]
    BY <1>3, <2>1, LoadGrants DEF CanStart
  <2>3. CASE q = p
    <3>1. PCBs'[q].page_table.size = PCBs[p].page_table.size + PagesTaken(n)
      BY <2>2, <2>3, GrantedSize DEF ReadyPCB
    <3>2. PCBs[p].page_table.size \in Nat
      BY <2>2, TableShape, Constants
    <3>3. PagesTaken(n) \in Nat \ {0}
      BY <2>2, Constants DEF PagesTaken
    <3> QED BY <3>1, <3>2, <3>3
  <2>4. CASE q # p
    BY <1>1, <2>2, <2>4 DEF Running
  <2> QED BY <2>3, <2>4
<1>4. ASSUME NEW p \in Pids, NEW bytes \in Nat, Running(p),
             GrowFault(p, bytes) = "none", Grow(p, bytes)
      PROVE  PCBs'[q].page_table.size >= 1
  <2>1. CASE Need(p, bytes) = 0
    BY <1>1, <1>4, <2>1 DEF Grow, Running
  <2>2. CASE Need(p, bytes) # 0
    <3>1. PICK n : n = byte2Page(Need(p, bytes))
      OBVIOUS
    <3>2. /\ n \in 0 .. BASE_MOD - 1 /\ AllocateFault(p, n) = "none"
          /\ PCBs'[q].page_table = IF q = p THEN GrownTable(p, n) ELSE PCBs[q].page_table
          /\ PCBs' = [PCBs EXCEPT ![p].page_table = GrownTable(p, n)]
      BY <1>4, <2>2, <3>1, GrowGrants
    <3>3. Running(q)
      BY <1>4, <3>2 DEF Running, IInv, KernelTypeOK
    <3>4. CASE q = p
      <4>1. PCBs'[q].page_table.size = PCBs[p].page_table.size + PagesTaken(n)
        BY <3>2, <3>4, GrantedSize
      <4>2. PCBs[p].page_table.size \in Nat /\ PCBs[p].page_table.size >= 1
        BY <1>1, <3>3, <3>4, TableShape, Constants
      <4>3. PagesTaken(n) \in Nat
        BY <3>2, Constants DEF PagesTaken
      <4> QED BY <4>1, <4>2, <4>3
    <3>5. CASE q # p
      BY <1>1, <3>2, <3>3, <3>5
    <3> QED BY <3>4, <3>5
  <2> QED BY <2>1, <2>2
<1>5. ASSUME NEW p \in Pids, Destroy(p)
      PROVE  PCBs'[q].page_table.size >= 1
  <2>1. PCBs'[q] = IF q = p THEN IdlePCB ELSE PCBs[q]
    BY <1>5 DEF Destroy, IInv, KernelTypeOK
  <2> QED BY <1>1, <2>1, IdleShape DEF Running
<1>6. CASE Exit
  BY <1>6, IdleShape DEF Exit, Running
<1> QED BY <1>2, <1>3, <1>4, <1>5, <1>6, KernelSteps

\* sp shows every process's page table as it is: its lines cover the logical
\* pages from the first to the last in order, each once, and show each against
\* the page it is mapped to, for tables of any size and pages in any order.
THEOREM TablesAreShown == Spec => []PageTableShown
<1>1. Init => NeverEmpty
  BY IdleShape DEF Init, KernelInit, NeverEmpty, Running
<1>2. IInv /\ NeverEmpty => PageTableShown
  <2> DEFINE Shows(pt, lines) ==
               /\ lines[1].from = 0
               /\ lines[Len(lines)].to = pt.size - 1
               /\ \A k \in 1 .. Len(lines) - 1 : lines[k + 1].from = lines[k].to + 1
               /\ \A k \in DOMAIN lines : RightLine(pt, lines[k])
  <2> SUFFICES ASSUME IInv, NeverEmpty, NEW p \in Pids, Running(p)
               PROVE  Shows(PCBs[p].page_table, showProcPageTable(PCBs[p].page_table))
    BY DEF PageTableShown, RightLine
  <2>p. PICK pt : pt = PCBs[p].page_table
    OBVIOUS
  <2>l. PICK lines : lines = showProcPageTable(pt)
    OBVIOUS
  <2>1. /\ \A i \in Entries : pt.table[i] \in Int
        /\ pt.size \in 1 .. PAGE_CAPACITY
    <3>1. /\ pt.size \in 0 .. PAGE_CAPACITY /\ pt.size >= 1
          /\ \A i \in Entries : pt.table[i] \in UserPages \/ pt.table[i] = PAGE_NOT_USED
      BY <2>p, TableShape, Constants DEF NeverEmpty, PageTables
    <3>2. UserPages \subseteq Int /\ PAGE_NOT_USED \in Int /\ PAGE_CAPACITY \in Int
      BY KernelAssumption DEF UserPages, PAGE_NOT_USED
    <3>3. pt.size \in 1 .. PAGE_CAPACITY
      BY <3>1, <3>2
    <3> QED BY <3>1, <3>2, <3>3
  <2>2. Cover(pt, lines, pt.size) /\ lines # <<>>
    BY <2>1, <2>l, TableShown
  <2>3. DOMAIN lines = 1 .. Len(lines)
    BY <2>2 DEF Cover
  <2> QED BY <2>p, <2>l, <2>2, <2>3 DEF Cover
<1> QED BY <1>1, <1>2, StepNeverEmpty, Invariant, PTL DEF Spec

=============================================================================
